--------------------------- MODULE DraftStoreProofs ---------------------------
(***************************************************************************)
(* For any finite set of requests, any drafts, bundles and limits, and     *)
(* however long the target's sequence gets: the draft store is typed, it   *)
(* implements the ledger, and it balances; a proposal goes on, from a      *)
(* boundary the target generated, with a draft that was registered; while  *)
(* an entry lives it forgets neither its steps, nor its last offer, nor    *)
(* what has fired among the candidates it still lists, and a pending       *)
(* proposal stays until it is its next step; and what the steps credit is, *)
(* token by token, what a draft foretold and the target wrote, with no     *)
(* token credited twice. The worker of the SGLang plugin, in the last      *)
(* part, uses its store as the store may be used, so all of this holds of  *)
(* the worker; and when its scheduler runs one handler at a time, a        *)
(* request has the bundle of its last replacement.                         *)
(***************************************************************************)
EXTENDS SGLangWorker, LibraryLemmas, FiniteSetTheorems, SequenceTheorems

-----------------------------------------------------------------------------
(***************************************************************************)
(* The pure functions                                                      *)
(***************************************************************************)
\* A slice from the start is as long as it was asked to be, or the whole.
LEMMA TakeFacts ==
  ASSUME NEW S, NEW s \in Seq(S), NEW n \in Nat
  PROVE  /\ Take(s, n) \in Seq(S)
         /\ Len(Take(s, n)) = Least(n, Len(s))
         /\ Len(Take(s, n)) <= n /\ Len(Take(s, n)) <= Len(s)
<1>1. /\ Least(n, Len(s)) \in Nat
      /\ Least(n, Len(s)) <= n /\ Least(n, Len(s)) <= Len(s)
  BY DEF Least
<1>2. SubSeq(s, 1, Least(n, Len(s))) \in Seq(S)
  BY <1>1
<1>3. Len(SubSeq(s, 1, Least(n, Len(s)))) = Least(n, Len(s))
  BY <1>1
<1> QED
  BY <1>1, <1>2, <1>3 DEF Take

\* Two sequences agree on no more elements than either has.
LEMMA CommonPrefixBound ==
  ASSUME NEW S, NEW left \in Seq(S), NEW right \in Seq(S)
  PROVE  /\ CommonPrefixLength(left, right) \in 0..Len(left)
         /\ CommonPrefixLength(left, right) <= Len(right)
         /\ \A i \in 1..CommonPrefixLength(left, right) : left[i] = right[i]
<1> DEFINE Agreed == {n \in 0..Len(left) : Begins(Take(left, n), right)}
<1>1. Len(Take(left, 0)) = 0
  BY TakeFacts DEF Least
<1>2. 0 \in Agreed
  BY <1>1 DEF Begins
<1>3. /\ Agreed \in SUBSET Nat /\ Agreed # {}
      /\ Len(left) \in Nat /\ \A n \in Agreed : n <= Len(left)
  BY <1>2
<1>4. Max(Agreed) \in Agreed
  BY <1>3, MaxOfNaturals
<1>5. PICK m \in Agreed : m = CommonPrefixLength(left, right)
  BY <1>4 DEF CommonPrefixLength
<1>6. m \in Nat /\ m <= Len(left) /\ Len(Take(left, m)) <= Len(right)
  BY <1>5 DEF Begins
<1>7. Len(Take(left, m)) = m
  BY <1>6, TakeFacts DEF Least
<1>8. ASSUME NEW i \in 1..m
      PROVE  left[i] = right[i]
  <2>1. Take(left, m) = SubSeq(left, 1, m) /\ Len(left) \in Nat
    BY <1>6 DEF Take, Least
  <2>2. Take(left, m)[i] = left[i]
    BY <1>6, <2>1
  <2> QED
    BY <1>5, <1>7, <2>2 DEF Begins
<1> QED
  BY <1>5, <1>6, <1>7, <1>8

\* What follows the last boundary in what was generated is a sequence.
LEMMA BodyIsSequence ==
  ASSUME NEW tokens \in Seq(Tokens), NEW boundary \in Seq(Tokens),
         NEW prompt \in Nat,
         Occurrences(Generated(tokens, prompt), boundary) # {}
  PROVE  GeneratedBody(Generated(tokens, prompt), boundary) \in Seq(Tokens)
<1> DEFINE generated == Generated(tokens, prompt)
           O == Occurrences(generated, boundary)
<1>1. generated \in Seq(Tokens)
  <2>1. Least(prompt, Len(tokens)) \in Nat
    BY DEF Least
  <2> QED
    BY <2>1 DEF Generated
<1> HIDE DEF generated
<1>2. /\ Len(generated) \in Nat /\ Len(boundary) \in Nat
      /\ O \in SUBSET Nat /\ O # {}
      /\ \A i \in O : i <= Len(generated)
  BY <1>1 DEF Occurrences, generated
<1>3. Max(O) \in O
  BY <1>2, MaxOfNaturals
<1>4. LastSubsequence(generated, boundary) \in Nat
  BY <1>2, <1>3 DEF LastSubsequence
<1>5. GeneratedBody(generated, boundary) \in Seq(Tokens)
  BY <1>1, <1>2, <1>4 DEF GeneratedBody
<1> QED
  BY <1>5 DEF generated

\* What a proposable candidate proposes is not empty, and within the limit.
LEMMA ContinuationFacts ==
  ASSUME NEW tokens \in Seq(Tokens), NEW c, c.tokens \in Seq(Tokens),
         c.boundary \in Seq(Tokens), c.prompt \in Nat,
         NEW limit \in Nat \ {0},
         Verdict(tokens, c, InjectWindow) = "proposable"
  PROVE  /\ Continuation(tokens, c, limit) \in Seq(Tokens)
         /\ Len(Continuation(tokens, c, limit)) \in 1..limit
<1> DEFINE generated == Generated(tokens, c.prompt)
           body == GeneratedBody(generated, c.boundary)
           rest == SubSeq(c.tokens, Len(body) + 1, Len(c.tokens))
<1>1. /\ Occurrences(generated, c.boundary) # {}
      /\ Begins(body, c.tokens) /\ Len(body) # Len(c.tokens)
  BY DEF Verdict
<1>2. body \in Seq(Tokens)
  BY <1>1, BodyIsSequence
<1> HIDE DEF generated, body
<1>3. /\ Len(body) \in Nat /\ Len(c.tokens) \in Nat
      /\ Len(body) < Len(c.tokens)
  BY <1>1, <1>2 DEF Begins
<1>4. rest \in Seq(Tokens) /\ Len(rest) = Len(c.tokens) - Len(body)
  BY <1>3
<1> HIDE DEF rest
<1>5. /\ Take(rest, limit) \in Seq(Tokens)
      /\ Len(Take(rest, limit)) = Least(limit, Len(rest))
  BY <1>4, TakeFacts
<1>6. Continuation(tokens, c, limit) = Take(rest, limit)
  BY DEF Continuation, generated, body, rest
<1> QED
  BY <1>3, <1>4, <1>5, <1>6 DEF Least

-----------------------------------------------------------------------------
(***************************************************************************)
(* The inductive invariant                                                 *)
(***************************************************************************)
Names == {d.identity : d \in Drafts}

Step ==
  {s \in [identity : Names, index : Nat, drafted : 1..MaxDraftTokens,
          accepted : Nat, at : Nat] : s.accepted <= s.drafted}

Proposal ==
  {p \in [tokens : Seq(Tokens), at : Nat, index : Nat, identity : Names] :
     Len(p.tokens) \in 1..MaxDraftTokens}

Counters ==
  [registrations : Nat, registeredCandidates : Nat, injections : Nat,
   proposedTokens : Nat, divergent : Nat, stale : Nat, fallbacks : Nat,
   resolved : Nat, unresolved : Nat, unresolvedTokens : Nat, accepted : Nat,
   rejected : Nat]

\* The candidates of an entry.
IsCatalogue(f) ==
  /\ f = [i \in DOMAIN f |-> f[i]]
  /\ IsFiniteSet(DOMAIN f) /\ DOMAIN f \subseteq Nat
  /\ \A i \in DOMAIN f : f[i] \in Candidate

\* An entry, or none.
IsEntry(e) ==
  /\ e = [candidates |-> e.candidates, lastOffer |-> e.lastOffer,
          pending |-> e.pending, steps |-> e.steps]
  /\ IsCatalogue(e.candidates)
  /\ e.lastOffer \in Nat \cup {-1}
  /\ e.pending \in Proposal \cup {NoPending}
  /\ e.steps \in Seq(Step)

Typed ==
  /\ sequence \in [Requests -> Seq(Tokens)]
  /\ requests = [r \in Requests |-> requests[r]]
  /\ \A r \in Requests : IsEntry(requests[r])
  /\ stats \in Counters

\* A proposal that is still pending was made by the last offer, and the target
\* has not been any longer since.
Marked ==
  \A r \in Requests : Waiting(r) =>
    /\ requests[r].pending.at = requests[r].lastOffer
    /\ requests[r].lastOffer <= Len(sequence[r])

Inv == Typed /\ Marked

\* The invariant's types are those of the specification.
LEMMA TypedImpliesTypeOK ==
  ASSUME Typed
  PROVE  TypeOK
<1>1. stats \in [DOMAIN ZeroStats -> Nat]
  BY DEF Typed, Counters, ZeroStats
<1>2. ASSUME NEW r \in Requests
      PROVE  /\ DOMAIN requests[r] =
                  {"candidates", "lastOffer", "pending", "steps"}
             /\ DOMAIN requests[r].candidates \subseteq Nat
             /\ \A i \in DOMAIN requests[r].candidates :
                  requests[r].candidates[i] \in Candidate
             /\ requests[r].lastOffer \in Nat \cup {-1}
  BY DEF Typed, IsEntry, IsCatalogue
<1>3. ASSUME NEW r \in Requests
      PROVE  /\ requests[r].pending.tokens \in Seq(Tokens)
             /\ Len(requests[r].pending.tokens) <= MaxDraftTokens
             /\ requests[r].pending.at \in Nat
  <2>1. requests[r].pending \in Proposal \cup {NoPending}
    BY DEF Typed, IsEntry
  <2>2. CASE requests[r].pending \in Proposal
    BY <2>2 DEF Proposal
  <2>3. CASE requests[r].pending = NoPending
    <3>1. /\ NoPending.tokens = <<>> /\ NoPending.at = 0
          /\ <<>> \in Seq(Tokens) /\ Len(<<>>) = 0
      BY DEF NoPending
    <3> QED
      BY <2>3, <3>1, LimitsAssumption
  <2> QED
    BY <2>1, <2>2, <2>3
<1>4. ASSUME NEW r \in Requests, NEW k \in DOMAIN requests[r].steps
      PROVE  /\ requests[r].steps[k].drafted \in 1..MaxDraftTokens
             /\ requests[r].steps[k].accepted \in
                  0..requests[r].steps[k].drafted
  <2>1. requests[r].steps \in Seq(Step)
    BY DEF Typed, IsEntry
  <2>2. requests[r].steps[k] \in Step
    BY <2>1
  <2> QED
    BY <2>2 DEF Step
<1> QED
  BY <1>1, <1>2, <1>3, <1>4 DEF TypeOK, Typed

-----------------------------------------------------------------------------
(***************************************************************************)
(* What the parts of an offer do to an entry and to the counters           *)
(***************************************************************************)
\* Settling makes a step of the pending proposal, with some of its tokens
\* accepted.
LEMMA SettleFacts ==
  ASSUME NEW e, IsEntry(e), e.pending # NoPending,
         NEW a \in 0..Len(e.pending.tokens)
  PROVE  /\ IsEntry(Settle(e, a))
         /\ Settle(e, a).pending = NoPending
         /\ Settle(e, a).candidates = e.candidates
         /\ Settle(e, a).lastOffer = e.lastOffer
         /\ Len(e.pending.tokens) \in 1..MaxDraftTokens
<1> DEFINE s == VerificationStep(e.pending, a)
<1>1. e.pending \in Proposal
  BY DEF IsEntry
<1>2. s \in Step
  BY <1>1 DEF Proposal, Step, VerificationStep
<1>3. Append(e.steps, s) \in Seq(Step)
  BY <1>2 DEF IsEntry
<1>4. Settle(e, a) = [candidates |-> e.candidates, lastOffer |-> e.lastOffer,
                      pending |-> NoPending, steps |-> Append(e.steps, s)]
  <2>1. Settle(e, a) = [e EXCEPT !.steps = Append(@, s), !.pending = NoPending]
    BY DEF Settle
  <2> HIDE DEF s
  <2> QED
    BY <2>1 DEF IsEntry
<1> HIDE DEF s
<1> QED
  BY <1>1, <1>3, <1>4 DEF IsEntry, Proposal

\* The counters of a settled proposal.
LEMMA CreditFacts ==
  ASSUME NEW s \in Counters, NEW e, NEW a \in 0..Len(e.pending.tokens),
         Len(e.pending.tokens) \in Nat
  PROVE  Credit(s, e, a) \in Counters
<1>1. /\ s.resolved + 1 \in Nat /\ s.accepted + a \in Nat
      /\ s.rejected + (Len(e.pending.tokens) - a) \in Nat
  <2>1. s.resolved \in Nat /\ s.accepted \in Nat /\ s.rejected \in Nat
    BY DEF Counters
  <2>2. Len(e.pending.tokens) - a \in Nat /\ a \in Nat
    OBVIOUS
  <2> QED
    BY <2>1, <2>2, SMTT(30)
<1>2. ASSUME NEW x \in Nat, NEW y \in Nat, NEW z \in Nat
      PROVE  [s EXCEPT !.resolved = x, !.accepted = y, !.rejected = z]
               \in Counters
  BY DEF Counters
<1> QED
  BY <1>1, <1>2 DEF Credit

\* What comes first in every offer.
LEMMA SettleFromSequenceFacts ==
  ASSUME NEW e, IsEntry(e), NEW tokens \in Seq(Tokens), NEW s \in Counters,
         NEW u, u = SettleFromSequence(e, tokens),
         NEW v, v = CreditFromSequence(s, e, tokens)
  PROVE  /\ IsEntry(u) /\ v \in Counters
         /\ u.candidates = e.candidates /\ u.lastOffer = e.lastOffer
         /\ ~Due(e, tokens) => u = e /\ v = s
         /\ Due(e, tokens) =>
              /\ u.pending = NoPending
              /\ Len(e.pending.tokens) \in 1..MaxDraftTokens
              /\ \E a \in 0..Len(e.pending.tokens) : v = Credit(s, e, a)
<1>1. CASE ~Due(e, tokens)
  BY <1>1 DEF SettleFromSequence, CreditFromSequence
<1>2. CASE Due(e, tokens)
  <2>1. e.pending # NoPending /\ e.pending \in Proposal
    BY <1>2 DEF Due, IsEntry
  <2>2. e.pending.tokens \in Seq(Tokens) /\ e.pending.at \in Nat
    BY <2>1 DEF Proposal
  <2>3. Len(tokens) > e.pending.at
    BY <1>2 DEF Due
  <2>4. SubSeq(tokens, e.pending.at + 1, Len(tokens)) \in Seq(Tokens)
    BY <2>2, <2>3
  <2>5. Emitted(e, tokens) \in 0..Len(e.pending.tokens)
    BY <2>2, <2>4, CommonPrefixBound DEF Emitted
  <2>6. /\ u = Settle(e, Emitted(e, tokens))
        /\ v = Credit(s, e, Emitted(e, tokens))
    BY <1>2 DEF SettleFromSequence, CreditFromSequence
  <2>7. /\ IsEntry(u) /\ u.pending = NoPending
        /\ u.candidates = e.candidates /\ u.lastOffer = e.lastOffer
        /\ Len(e.pending.tokens) \in 1..MaxDraftTokens
    BY <2>1, <2>5, <2>6, SettleFacts
  <2>8. v \in Counters
    BY <2>2, <2>5, <2>6, CreditFacts
  <2> QED
    BY <1>2, <2>5, <2>6, <2>7, <2>8
<1> QED
  BY <1>1, <1>2

\* Firing candidates changes nothing else.
LEMMA FireFacts ==
  ASSUME NEW e, IsEntry(e), NEW I
  PROVE  /\ IsEntry(Fire(e, I))
         /\ Fire(e, I).pending = e.pending
         /\ Fire(e, I).lastOffer = e.lastOffer
         /\ Fire(e, I).steps = e.steps
<1> DEFINE f == [i \in DOMAIN e.candidates |->
                   [e.candidates[i] EXCEPT !.fired = @ \/ i \in I]]
<1>1. DOMAIN f = DOMAIN e.candidates
  OBVIOUS
<1>2. ASSUME NEW i \in DOMAIN e.candidates
      PROVE  [e.candidates[i] EXCEPT !.fired = @ \/ i \in I] \in Candidate
  <2>1. e.candidates[i] \in Candidate
    BY DEF IsEntry, IsCatalogue
  <2> QED
    BY <2>1 DEF Candidate
<1>3. IsCatalogue(f)
  BY <1>1, <1>2 DEF IsEntry, IsCatalogue
<1>4. Fire(e, I) = [candidates |-> f, lastOffer |-> e.lastOffer,
                    pending |-> e.pending, steps |-> e.steps]
  <2>1. Fire(e, I) = [e EXCEPT !.candidates = f]
    BY DEF Fire
  <2> HIDE DEF f
  <2> QED
    BY <2>1 DEF IsEntry
<1> HIDE DEF f
<1> QED
  BY <1>3, <1>4 DEF IsEntry

\* The scan counts candidates, and nothing of the ledger's.
LEMMA CountScanFacts ==
  ASSUME NEW e, IsEntry(e), NEW tokens, NEW s \in Counters,
         NEW v, v = CountScan(s, e, tokens)
  PROVE  /\ v \in Counters
         /\ v.injections = s.injections
         /\ v.proposedTokens = s.proposedTokens
         /\ v.resolved = s.resolved /\ v.unresolved = s.unresolved
         /\ v.unresolvedTokens = s.unresolvedTokens
         /\ v.accepted = s.accepted /\ v.rejected = s.rejected
<1>1. ASSUME NEW V
      PROVE  Cardinality(Retired(e, tokens, V)) \in Nat
  <2>1. /\ Retired(e, tokens, V) \in SUBSET DOMAIN e.candidates
        /\ IsFiniteSet(DOMAIN e.candidates)
    BY DEF Retired, Judged, IsEntry, IsCatalogue
  <2> QED
    BY <2>1, FS_Subset, FS_CardinalityType
<1>2. /\ s.stale + Cardinality(Retired(e, tokens, {"stale"})) \in Nat
      /\ s.divergent + Cardinality(Retired(e, tokens, {"divergent"})) \in Nat
  BY <1>1 DEF Counters
<1>3. PICK stale, divergent \in Nat :
        v = [s EXCEPT !.stale = stale, !.divergent = divergent]
  BY <1>2 DEF CountScan
<1> QED
  BY <1>3 DEF Counters

-----------------------------------------------------------------------------
(***************************************************************************)
(* Every step preserves the invariant                                      *)
(***************************************************************************)
\* One entry changes, to an entry whose proposal, if any, is its last offer.
LEMMA EntryChanged ==
  ASSUME Inv, NEW r \in Requests, NEW e, IsEntry(e),
         requests' = [requests EXCEPT ![r] = e],
         sequence' \in [Requests -> Seq(Tokens)],
         \A q \in Requests : Len(sequence[q]) <= Len(sequence'[q]),
         stats' \in Counters,
         e.pending # NoPending =>
           e.pending.at = e.lastOffer /\ e.lastOffer <= Len(sequence'[r])
  PROVE  Inv'
<1>1. requests = [q \in Requests |-> requests[q]]
  BY DEF Inv, Typed
<1>2. /\ requests' = [q \in Requests |-> requests'[q]]
      /\ requests'[r] = e
      /\ \A q \in Requests \ {r} : requests'[q] = requests[q]
  BY <1>1
<1>3. \A q \in Requests : IsEntry(requests'[q])
  BY <1>2 DEF Inv, Typed
<1>4. Typed'
  <2>1. \A q \in Requests : IsEntry(requests[q])'
    BY <1>3 DEF IsEntry, IsCatalogue
  <2> QED
    BY <1>2, <2>1 DEF Typed
<1>5. ASSUME NEW q \in Requests, requests'[q].pending # NoPending
      PROVE  /\ requests'[q].pending.at = requests'[q].lastOffer
             /\ requests'[q].lastOffer <= Len(sequence'[q])
  <2>1. CASE q = r
    BY <1>2, <1>5, <2>1
  <2>2. CASE q # r
    <3>1. /\ requests[q].pending.at = requests[q].lastOffer
          /\ requests[q].lastOffer <= Len(sequence[q])
      BY <1>2, <1>5, <2>2 DEF Inv, Marked, Waiting
    <3>2. requests[q].lastOffer \in Int
      BY DEF Inv, Typed, IsEntry
    <3>3. sequence[q] \in Seq(Tokens) /\ sequence'[q] \in Seq(Tokens)
      BY DEF Inv, Typed
    <3>4. Len(sequence[q]) \in Nat /\ Len(sequence'[q]) \in Nat
      BY <3>3
    <3>5. Len(sequence[q]) <= Len(sequence'[q])
      OBVIOUS
    <3>6. requests[q].lastOffer <= Len(sequence'[q])
      BY <3>1, <3>2, <3>4, <3>5
    <3> QED
      BY <1>2, <2>2, <3>1, <3>6
  <2> QED
    BY <2>1, <2>2
<1>6. Marked'
  BY <1>5 DEF Marked, Waiting
<1> QED
  BY <1>4, <1>6 DEF Inv

\* A request that is not in the dictionary has nothing pending.
LEMMA NoRequestFacts ==
  IsEntry(NoRequest) /\ NoRequest.pending = NoPending
<1>1. /\ NoRequest.candidates = <<>> /\ NoRequest.lastOffer = -1
      /\ NoRequest.pending = NoPending /\ NoRequest.steps = <<>>
      /\ NoRequest = [candidates |-> <<>>, lastOffer |-> -1,
                      pending |-> NoPending, steps |-> <<>>]
  BY DEF NoRequest
<1>2. DOMAIN <<>> = {}
  OBVIOUS
<1>3. IsCatalogue(<<>>)
  BY <1>2, FS_EmptySet DEF IsCatalogue
<1>4. <<>> \in Seq(Step)
  OBVIOUS
<1> QED
  BY <1>1, <1>3, <1>4 DEF IsEntry

LEMMA InitEstablishesInv ==
  ASSUME Init
  PROVE  Inv
<1>1. IsEntry(NoRequest) /\ NoRequest.pending = NoPending
  BY NoRequestFacts
<1>3. ZeroStats \in Counters
  BY DEF ZeroStats, Counters
<1>4. sequence \in [Requests -> Seq(Tokens)]
  BY DraftsAssumption DEF Init
<1>5. \A r \in Requests : requests[r] = NoRequest
  BY DEF Init
<1>6. requests = [r \in Requests |-> requests[r]]
  BY DEF Init
<1> QED
  BY <1>1, <1>3, <1>4, <1>5, <1>6 DEF Init, Inv, Typed, Marked, Waiting

LEMMA EmitPreservesInv ==
  ASSUME Inv, NEW r \in Requests, Emit(r)
  PROVE  Inv'
<1>1. PICK t \in Tokens : sequence' = [sequence EXCEPT ![r] = Append(@, t)]
  BY DEF Emit
<1>2. sequence \in [Requests -> Seq(Tokens)]
  BY DEF Inv, Typed
<1>3. /\ Append(sequence[r], t) \in Seq(Tokens)
      /\ Len(Append(sequence[r], t)) = Len(sequence[r]) + 1
      /\ Len(sequence[r]) \in Nat
  BY <1>2
<1>4. /\ sequence' \in [Requests -> Seq(Tokens)]
      /\ \A q \in Requests : Len(sequence[q]) <= Len(sequence'[q])
  <2>1. ASSUME NEW q \in Requests
        PROVE  Len(sequence[q]) <= Len(sequence'[q])
    <3>1. Len(sequence[q]) \in Nat
      BY <1>2
    <3> QED
      BY <1>1, <1>2, <1>3, <3>1
  <2> QED
    BY <1>1, <1>2, <1>3, <2>1
<1>5. requests' = requests /\ stats' = stats /\ stats \in Counters
  BY DEF Emit, Inv, Typed
<1>6. requests' = [requests EXCEPT ![r] = requests[r]] /\ IsEntry(requests[r])
  BY <1>5 DEF Inv, Typed
<1>7. ASSUME requests[r].pending # NoPending
      PROVE  /\ requests[r].pending.at = requests[r].lastOffer
             /\ requests[r].lastOffer <= Len(sequence'[r])
  <2>1. /\ requests[r].pending.at = requests[r].lastOffer
        /\ requests[r].lastOffer <= Len(sequence[r])
    BY <1>7 DEF Inv, Marked, Waiting
  <2>2. requests[r].lastOffer \in Int
    BY DEF Inv, Typed, IsEntry
  <2> QED
    BY <1>1, <1>2, <1>3, <2>1, <2>2
<1> QED
  BY <1>4, <1>5, <1>6, <1>7, EntryChanged

\* A bundle makes a catalogue, whatever entry it replaces.
LEMMA CandidatesFacts ==
  ASSUME NEW bundle \in Bundles, NEW e
  PROVE  /\ IsCatalogue(Candidates(bundle, e))
         /\ Cardinality(Firsts(bundle)) \in Nat
<1>1. bundle \in Seq(Drafts)
  BY DraftsAssumption
<1>2. Len(bundle) \in Nat /\ DOMAIN bundle = 1..Len(bundle)
  BY <1>1
<1>3. IsFiniteSet(DOMAIN bundle)
  BY <1>2, 1 \in Int, FS_Interval
<1>4. Firsts(bundle) \in SUBSET DOMAIN bundle
  BY DEF Firsts
<1>5. IsFiniteSet(Firsts(bundle)) /\ Cardinality(Firsts(bundle)) \in Nat
  BY <1>3, <1>4, FS_Subset, FS_CardinalityType
<1> DEFINE F(i) == \E j \in DOMAIN e.candidates :
                     /\ e.candidates[j].identity = bundle[i].identity
                     /\ e.candidates[j].fired
           C(i) == [identity |-> bundle[i].identity,
                    tokens   |-> Take(bundle[i].tokens, MaxDraftTokens),
                    boundary |-> bundle[i].boundary,
                    prompt   |-> bundle[i].prompt,
                    fired    |-> F(i)]
<1>6. ASSUME NEW i \in Firsts(bundle)
      PROVE  C(i) \in Candidate
  <2>1. bundle[i] \in Drafts
    BY <1>1, <1>4
  <2>2. /\ bundle[i].tokens \in Seq(Tokens) /\ bundle[i].boundary \in Seq(Tokens)
        /\ bundle[i].prompt \in Nat
    BY <2>1, DraftsAssumption
  <2>3. Take(bundle[i].tokens, MaxDraftTokens) \in Seq(Tokens)
    BY <2>2, TakeFacts, LimitsAssumption
  <2>4. F(i) \in BOOLEAN
    OBVIOUS
  <2>5. bundle[i].identity \in {d.identity : d \in Drafts}
    BY <2>1
  <2> HIDE DEF F
  <2> QED
    BY <2>2, <2>3, <2>4, <2>5 DEF Candidate
<1>7. Candidates(bundle, e) = [i \in Firsts(bundle) |-> C(i)]
  BY DEF Candidates
<1> HIDE DEF C
<1>8. /\ DOMAIN Candidates(bundle, e) = Firsts(bundle)
      /\ \A i \in Firsts(bundle) : Candidates(bundle, e)[i] \in Candidate
      /\ Candidates(bundle, e) = [i \in DOMAIN Candidates(bundle, e) |->
                                    Candidates(bundle, e)[i]]
  BY <1>6, <1>7
<1>9. Firsts(bundle) \subseteq Nat
  BY <1>2, <1>4
<1> QED
  BY <1>5, <1>8, <1>9 DEF IsCatalogue

\* A registration changes the catalogue of an entry and two counters.
LEMMA RegisterBundleFacts ==
  ASSUME Inv, NEW r \in Requests, NEW bundle \in Bundles,
         RegisterBundle(r, bundle)
  PROVE  /\ \E e : /\ IsEntry(e)
                  /\ e.pending = requests[r].pending
                  /\ e.lastOffer = requests[r].lastOffer
                  /\ requests' = [requests EXCEPT ![r] = e]
         /\ stats' \in Counters
         /\ stats'.injections = stats.injections
         /\ stats'.proposedTokens = stats.proposedTokens
         /\ stats'.resolved = stats.resolved
         /\ stats'.unresolved = stats.unresolved
         /\ stats'.unresolvedTokens = stats.unresolvedTokens
         /\ stats'.accepted = stats.accepted
         /\ stats'.rejected = stats.rejected
<1> DEFINE C == Candidates(bundle, requests[r])
           e == [candidates |-> C, lastOffer |-> requests[r].lastOffer,
                 pending |-> requests[r].pending, steps |-> requests[r].steps]
<1>1. IsEntry(requests[r]) /\ stats \in Counters
  BY DEF Inv, Typed
<1>2. IsCatalogue(C) /\ Cardinality(Firsts(bundle)) \in Nat
  BY CandidatesFacts
<1>3. requests' = [requests EXCEPT ![r] = [@ EXCEPT !.candidates = C]]
  BY DEF RegisterBundle
<1> HIDE DEF C
<1>4. [requests[r] EXCEPT !.candidates = C] = e
  BY <1>1 DEF IsEntry
<1>5. requests' = [requests EXCEPT ![r] = e]
  BY <1>3, <1>4
<1>6. IsEntry(e)
  BY <1>1, <1>2 DEF IsEntry
<1>7. /\ stats.registrations + 1 \in Nat
      /\ stats.registeredCandidates + Cardinality(Firsts(bundle)) \in Nat
  <2>1. stats.registrations \in Nat /\ stats.registeredCandidates \in Nat
    BY <1>1 DEF Counters
  <2> QED
    BY <1>2, <2>1
<1>8. stats' = [stats EXCEPT
         !.registrations = stats.registrations + 1,
         !.registeredCandidates = stats.registeredCandidates
                                  + Cardinality(Firsts(bundle))]
  BY DEF RegisterBundle, CountRegistration
<1>9. PICK n \in Nat, m \in Nat :
        stats' = [stats EXCEPT !.registrations = n, !.registeredCandidates = m]
  BY <1>7, <1>8
<1> QED
  BY <1>1, <1>5, <1>6, <1>9 DEF Counters

LEMMA RegisterBundlePreservesInv ==
  ASSUME Inv, NEW r \in Requests, NEW bundle \in Bundles,
         RegisterBundle(r, bundle)
  PROVE  Inv'
<1>1. /\ stats' \in Counters
      /\ \E e : /\ IsEntry(e)
               /\ e.pending = requests[r].pending
               /\ e.lastOffer = requests[r].lastOffer
               /\ requests' = [requests EXCEPT ![r] = e]
  BY RegisterBundleFacts
<1>2. PICK e : /\ IsEntry(e)
               /\ e.pending = requests[r].pending
               /\ e.lastOffer = requests[r].lastOffer
               /\ requests' = [requests EXCEPT ![r] = e]
  BY <1>1
<1>3. sequence' = sequence /\ sequence \in [Requests -> Seq(Tokens)]
  BY DEF RegisterBundle, Inv, Typed
<1>4. \A q \in Requests : Len(sequence[q]) <= Len(sequence'[q])
  BY <1>3
<1>5. e.pending # NoPending =>
        e.pending.at = e.lastOffer /\ e.lastOffer <= Len(sequence'[r])
  BY <1>2, <1>3 DEF Inv, Marked, Waiting
<1> QED
  BY <1>1, <1>2, <1>3, <1>4, <1>5, EntryChanged

\* What every offer starts from. A proposal that is still pending then is one
\* made at this very length.
LEMMA SettledEntry ==
  ASSUME Inv, NEW r \in Requests,
         NEW u, u = SettleFromSequence(requests[r], sequence[r]),
         NEW v, v = CreditFromSequence(stats, requests[r], sequence[r])
  PROVE  /\ IsEntry(u) /\ v \in Counters
         /\ Len(sequence[r]) \in Nat
         /\ u.pending # NoPending =>
              u.pending.at = u.lastOffer /\ u.lastOffer = Len(sequence[r])
<1>1. IsEntry(requests[r]) /\ sequence[r] \in Seq(Tokens) /\ stats \in Counters
  BY DEF Inv, Typed
<1>2. /\ IsEntry(u) /\ v \in Counters
      /\ ~Due(requests[r], sequence[r]) => u = requests[r]
      /\ Due(requests[r], sequence[r]) => u.pending = NoPending
  BY <1>1, SettleFromSequenceFacts
<1>3. ASSUME u.pending # NoPending
      PROVE  u.pending.at = u.lastOffer /\ u.lastOffer = Len(sequence[r])
  <2>1. u = requests[r] /\ ~(Len(sequence[r]) > u.pending.at)
    BY <1>2, <1>3 DEF Due
  <2>2. u.pending.at = u.lastOffer /\ u.lastOffer <= Len(sequence[r])
    BY <1>3, <2>1 DEF Inv, Marked, Waiting
  <2>3. u.lastOffer \in Int /\ Len(sequence[r]) \in Nat
    BY <1>1, <2>1 DEF IsEntry
  <2> QED
    BY <2>1, <2>2, <2>3
<1> QED
  BY <1>1, <1>2, <1>3

\* A proposal of some tokens by a candidate of the entry.
LEMMA ProposeFacts ==
  ASSUME NEW e, IsEntry(e), NEW i \in DOMAIN e.candidates, NEW at \in Nat,
         NEW proposed \in Seq(Tokens), Len(proposed) \in 1..MaxDraftTokens,
         NEW u, u = Propose(e, i, at, proposed)
  PROVE  /\ IsEntry(u)
         /\ u.pending.tokens = proposed
         /\ u.pending.at = at /\ u.lastOffer = at
<1> DEFINE p == [tokens |-> proposed, at |-> at, index |-> i,
                 identity |-> e.candidates[i].identity]
           f == Fire(e, {i})
<1>1. IsEntry(f)
  BY FireFacts
<1>2. p \in Proposal
  <2>1. e.candidates[i] \in Candidate /\ i \in Nat
    BY DEF IsEntry, IsCatalogue
  <2>2. e.candidates[i].identity \in Names
    BY <2>1 DEF Candidate, Names
  <2> QED
    BY <2>1, <2>2 DEF Proposal
<1>3. u = [f EXCEPT !.lastOffer = at, !.pending = p]
  BY DEF Propose
<1> HIDE DEF f
<1>4. p.tokens = proposed /\ p.at = at
  OBVIOUS
<1> HIDE DEF p
<1>5. u = [candidates |-> f.candidates, lastOffer |-> at, pending |-> p,
           steps |-> f.steps]
  BY <1>1, <1>3 DEF IsEntry
<1> QED
  BY <1>1, <1>2, <1>4, <1>5 DEF IsEntry

LEMMA OfferRepeatedPreservesInv ==
  ASSUME Inv, NEW r \in Requests, OfferRepeated(r)
  PROVE  Inv'
<1>1. PICK u, v : /\ u = SettleFromSequence(requests[r], sequence[r])
                  /\ v = CreditFromSequence(stats, requests[r], sequence[r])
  OBVIOUS
<1>2. /\ requests' = [requests EXCEPT ![r] = u]
      /\ stats' = v /\ sequence' = sequence
  BY <1>1 DEF OfferRepeated
<1>3. /\ IsEntry(u) /\ v \in Counters
      /\ Len(sequence[r]) \in Nat
      /\ u.pending # NoPending =>
           u.pending.at = u.lastOffer /\ u.lastOffer = Len(sequence[r])
  BY <1>1, SettledEntry
<1>4. /\ sequence' \in [Requests -> Seq(Tokens)]
      /\ \A q \in Requests : Len(sequence[q]) <= Len(sequence'[q])
  BY <1>2 DEF Inv, Typed
<1>5. u.pending # NoPending =>
        u.pending.at = u.lastOffer /\ u.lastOffer <= Len(sequence'[r])
  BY <1>2, <1>3
<1> QED
  BY <1>2, <1>3, <1>4, <1>5, EntryChanged

\* The scan fires candidates, and changes nothing else of an entry.
LEMMA ScanFacts ==
  ASSUME NEW e, IsEntry(e), NEW tokens, NEW u, u = Scan(e, tokens)
  PROVE  /\ IsEntry(u)
         /\ u.pending = e.pending /\ u.lastOffer = e.lastOffer
         /\ DOMAIN u.candidates = DOMAIN e.candidates
<1>1. IsEntry(u) /\ u.pending = e.pending /\ u.lastOffer = e.lastOffer
  BY FireFacts DEF Scan
<1>2. DOMAIN u.candidates = DOMAIN e.candidates
  <2>1. DOMAIN e = {"candidates", "lastOffer", "pending", "steps"}
    BY DEF IsEntry
  <2> QED
    BY <2>1 DEF Scan, Fire
<1> QED
  BY <1>1, <1>2

LEMMA OfferNothingPreservesInv ==
  ASSUME Inv, NEW r \in Requests, OfferNothing(r)
  PROVE  Inv'
<1>1. PICK u, v : /\ u = SettleFromSequence(requests[r], sequence[r])
                  /\ v = CreditFromSequence(stats, requests[r], sequence[r])
  OBVIOUS
<1>2. PICK e, s : e = Scan(u, sequence[r]) /\ s = CountScan(v, u, sequence[r])
  OBVIOUS
<1>3. /\ requests' = [requests EXCEPT ![r] = e]
      /\ stats' = s /\ sequence' = sequence
      /\ u.lastOffer # Len(sequence[r])
  BY <1>1, <1>2 DEF OfferNothing
<1>4. IsEntry(u) /\ v \in Counters /\ u.pending = NoPending
  BY <1>1, <1>3, SettledEntry
<1>5. IsEntry(e) /\ s \in Counters /\ e.pending = NoPending
  BY <1>2, <1>4, ScanFacts, CountScanFacts
<1>6. /\ sequence' \in [Requests -> Seq(Tokens)]
      /\ \A q \in Requests : Len(sequence[q]) <= Len(sequence'[q])
  BY <1>3 DEF Inv, Typed
<1> QED
  BY <1>3, <1>5, <1>6, EntryChanged

\* The counters of a proposal.
LEMMA CountProposalFacts ==
  ASSUME NEW s \in Counters, NEW i, NEW proposed, Len(proposed) \in Nat,
         NEW v, v = CountProposal(s, i, proposed)
  PROVE  /\ v \in Counters
         /\ v.injections = s.injections + 1
         /\ v.proposedTokens = s.proposedTokens + Len(proposed)
         /\ v.resolved = s.resolved /\ v.unresolved = s.unresolved
         /\ v.unresolvedTokens = s.unresolvedTokens
         /\ v.accepted = s.accepted /\ v.rejected = s.rejected
<1>1. /\ s.injections + 1 \in Nat /\ s.proposedTokens + Len(proposed) \in Nat
      /\ s.fallbacks + (IF i > 1 THEN 1 ELSE 0) \in Nat
  BY SMTT(30) DEF Counters
<1>2. v = [s EXCEPT !.injections = s.injections + 1,
                    !.proposedTokens = s.proposedTokens + Len(proposed),
                    !.fallbacks = s.fallbacks + (IF i > 1 THEN 1 ELSE 0)]
  BY DEF CountProposal
<1> QED
  BY <1>1, <1>2 DEF Counters

\* All there is to know of an offer that proposes: it starts from an entry with
\* nothing pending and leaves one with a proposal of some tokens.
LEMMA OfferProposalFacts ==
  ASSUME Inv, NEW r \in Requests, NEW limit \in 1..MaxDraftTokens,
         OfferProposal(r, limit),
         NEW u, u = SettleFromSequence(requests[r], sequence[r]),
         NEW v, v = CreditFromSequence(stats, requests[r], sequence[r])
  PROVE  /\ u.pending = NoPending
         /\ stats' \in Counters
         /\ \E e :
              /\ IsEntry(e)
              /\ requests' = [requests EXCEPT ![r] = e]
              /\ e.pending.at = Len(sequence[r])
              /\ e.lastOffer = Len(sequence[r])
              /\ Len(e.pending.tokens) \in 1..MaxDraftTokens
              /\ stats'.proposedTokens = v.proposedTokens
                                         + Len(e.pending.tokens)
         /\ stats'.injections = v.injections + 1
         /\ stats'.resolved = v.resolved
         /\ stats'.unresolved = v.unresolved
         /\ stats'.unresolvedTokens = v.unresolvedTokens
         /\ stats'.accepted = v.accepted /\ stats'.rejected = v.rejected
<1> DEFINE P == Proposable(u, sequence[r])
           i == Min(P)
           proposed == Continuation(sequence[r], u.candidates[i], limit)
           scanned == Scan(u, sequence[r])
           counted == CountScan(v, u, sequence[r])
           e == Propose(scanned, i, Len(sequence[r]), proposed)
<1>1. /\ u.lastOffer # Len(sequence[r])
      /\ P # {}
      /\ requests' = [requests EXCEPT ![r] = e]
      /\ stats' = CountProposal(counted, i, proposed)
  BY DEF OfferProposal
<1>2. /\ IsEntry(u) /\ v \in Counters /\ u.pending = NoPending
      /\ Len(sequence[r]) \in Nat
  BY <1>1, SettledEntry
<1>3. P \subseteq DOMAIN u.candidates /\ P \in SUBSET Nat
  BY <1>2 DEF Proposable, Judged, IsEntry, IsCatalogue
<1>4. i \in P
  BY <1>1, <1>3, MinOfNaturals
<1> HIDE DEF i
<1>5. /\ i \in DOMAIN u.candidates
      /\ u.candidates[i] \in Candidate
      /\ Verdict(sequence[r], u.candidates[i], InjectWindow) = "proposable"
  BY <1>2, <1>3, <1>4 DEF Proposable, Judged, IsEntry, IsCatalogue
<1>6. proposed \in Seq(Tokens) /\ Len(proposed) \in 1..MaxDraftTokens
  <2> DEFINE c == u.candidates[i]
  <2>1. sequence[r] \in Seq(Tokens)
    BY DEF Inv, Typed
  <2>2. /\ c.tokens \in Seq(Tokens) /\ c.boundary \in Seq(Tokens)
        /\ c.prompt \in Nat
    BY <1>5 DEF Candidate
  <2>3. limit \in Nat \ {0} /\ limit <= MaxDraftTokens /\ MaxDraftTokens \in Nat
    BY LimitsAssumption
  <2>4. /\ Continuation(sequence[r], c, limit) \in Seq(Tokens)
        /\ Len(Continuation(sequence[r], c, limit)) \in 1..limit
    BY <1>5, <2>1, <2>2, <2>3, ContinuationFacts
  <2> HIDE DEF c
  <2>5. Len(Continuation(sequence[r], c, limit)) \in 1..MaxDraftTokens
    BY <2>3, <2>4
  <2> QED
    BY <2>4, <2>5 DEF c
<1> HIDE DEF proposed, scanned, counted
<1>7. /\ IsEntry(scanned) /\ DOMAIN scanned.candidates = DOMAIN u.candidates
      /\ counted \in Counters
      /\ counted.injections = v.injections
      /\ counted.proposedTokens = v.proposedTokens
      /\ counted.resolved = v.resolved /\ counted.unresolved = v.unresolved
      /\ counted.unresolvedTokens = v.unresolvedTokens
      /\ counted.accepted = v.accepted /\ counted.rejected = v.rejected
  BY <1>2, ScanFacts, CountScanFacts DEF scanned, counted
<1> HIDE DEF e
<1>8. /\ IsEntry(e)
      /\ e.pending.tokens = proposed
      /\ e.pending.at = Len(sequence[r]) /\ e.lastOffer = Len(sequence[r])
  BY <1>2, <1>5, <1>6, <1>7, ProposeFacts DEF e
<1>9. /\ stats' \in Counters
      /\ stats'.injections = counted.injections + 1
      /\ stats'.proposedTokens = counted.proposedTokens + Len(proposed)
      /\ stats'.resolved = counted.resolved
      /\ stats'.unresolved = counted.unresolved
      /\ stats'.unresolvedTokens = counted.unresolvedTokens
      /\ stats'.accepted = counted.accepted
      /\ stats'.rejected = counted.rejected
  BY <1>1, <1>6, <1>7, CountProposalFacts
<1> QED
  BY <1>1, <1>2, <1>6, <1>7, <1>8, <1>9

LEMMA OfferProposalPreservesInv ==
  ASSUME Inv, NEW r \in Requests, NEW limit \in 1..MaxDraftTokens,
         OfferProposal(r, limit)
  PROVE  Inv'
<1>1. /\ stats' \in Counters
      /\ \E e :
           /\ IsEntry(e)
           /\ requests' = [requests EXCEPT ![r] = e]
           /\ e.pending.at = Len(sequence[r])
           /\ e.lastOffer = Len(sequence[r])
  BY OfferProposalFacts
<1>2. PICK e : /\ IsEntry(e)
               /\ requests' = [requests EXCEPT ![r] = e]
               /\ e.pending.at = Len(sequence[r])
               /\ e.lastOffer = Len(sequence[r])
  BY <1>1
<1>3. /\ sequence' = sequence
      /\ sequence' \in [Requests -> Seq(Tokens)]
      /\ \A q \in Requests : Len(sequence[q]) \in Nat
  BY DEF OfferProposal, Inv, Typed
<1>4. \A q \in Requests : Len(sequence[q]) <= Len(sequence'[q])
  BY <1>3
<1> QED
  BY <1>1, <1>2, <1>3, <1>4, EntryChanged

\* A report of the engine settles the proposal and lengthens the sequence.
LEMMA ObserveAcceptanceFacts ==
  ASSUME Inv, NEW r \in Requests, ObserveAcceptance(r)
  PROVE  /\ requests[r].pending \in Proposal
         /\ \E n \in 0..Len(requests[r].pending.tokens) :
              /\ requests' = [requests EXCEPT ![r] = Settle(requests[r], n)]
              /\ stats' = Credit(stats, requests[r], n)
              /\ \E more \in Seq(Tokens) :
                   /\ sequence' = [sequence EXCEPT ![r] = @ \o more]
                   /\ n <= Len(more)
                   /\ \A i \in 1..n : more[i] = requests[r].pending.tokens[i]
<1>1. requests[r].pending \in Proposal
  BY DEF ObserveAcceptance, Waiting, Inv, Typed, IsEntry
<1>2. PICK n \in 0..Len(requests[r].pending.tokens), t \in Tokens :
        /\ sequence' = [sequence EXCEPT ![r] =
                          @ \o Append(Take(requests[r].pending.tokens, n), t)]
        /\ requests' = [requests EXCEPT ![r] = Settle(@, n)]
        /\ stats' = Credit(stats, requests[r], n)
  BY DEF ObserveAcceptance
<1>3. requests[r].pending.tokens \in Seq(Tokens)
  BY <1>1 DEF Proposal
<1>4. /\ Take(requests[r].pending.tokens, n) \in Seq(Tokens)
      /\ Len(Take(requests[r].pending.tokens, n)) = n
      /\ \A i \in 1..n : Take(requests[r].pending.tokens, n)[i] =
                           requests[r].pending.tokens[i]
  <2>1. Take(requests[r].pending.tokens, n) =
          SubSeq(requests[r].pending.tokens, 1, n)
    BY <1>3 DEF Take, Least
  <2>2. \A i \in 1..n : SubSeq(requests[r].pending.tokens, 1, n)[i] =
                          requests[r].pending.tokens[i]
    BY <1>3
  <2> QED
    BY <1>3, <2>1, <2>2, TakeFacts DEF Least
<1>5. /\ Append(Take(requests[r].pending.tokens, n), t) \in Seq(Tokens)
      /\ n <= Len(Append(Take(requests[r].pending.tokens, n), t))
      /\ \A i \in 1..n : Append(Take(requests[r].pending.tokens, n), t)[i] =
                           requests[r].pending.tokens[i]
  <2>1. PICK front \in Seq(Tokens) :
          /\ front = Take(requests[r].pending.tokens, n) /\ Len(front) = n
          /\ \A i \in 1..n : front[i] = requests[r].pending.tokens[i]
    BY <1>4
  <2>2. /\ Append(front, t) \in Seq(Tokens) /\ n <= Len(Append(front, t))
        /\ \A i \in 1..n : Append(front, t)[i] = front[i]
    BY <2>1
  <2> QED
    BY <2>1, <2>2
<1>6. requests' = [requests EXCEPT ![r] = Settle(requests[r], n)]
  BY <1>2
<1> QED
  BY <1>1, <1>2, <1>5, <1>6

LEMMA ObserveAcceptancePreservesInv ==
  ASSUME Inv, NEW r \in Requests, ObserveAcceptance(r)
  PROVE  Inv'
<1>1. PICK n \in 0..Len(requests[r].pending.tokens), more \in Seq(Tokens) :
        /\ requests' = [requests EXCEPT ![r] = Settle(requests[r], n)]
        /\ stats' = Credit(stats, requests[r], n)
        /\ sequence' = [sequence EXCEPT ![r] = @ \o more]
  BY ObserveAcceptanceFacts
<1>2. /\ IsEntry(requests[r]) /\ stats \in Counters
      /\ sequence \in [Requests -> Seq(Tokens)]
      /\ requests[r].pending # NoPending
  BY DEF Inv, Typed, ObserveAcceptance, Waiting
<1>3. /\ IsEntry(Settle(requests[r], n))
      /\ Settle(requests[r], n).pending = NoPending
      /\ Len(requests[r].pending.tokens) \in Nat
  BY <1>2, SettleFacts, LimitsAssumption
<1>4. stats' \in Counters
  BY <1>1, <1>2, <1>3, CreditFacts
<1>5. ASSUME NEW q \in Requests
      PROVE  sequence'[q] \in Seq(Tokens) /\ Len(sequence[q]) <= Len(sequence'[q])
  <2>1. /\ sequence[q] \o more \in Seq(Tokens)
        /\ Len(sequence[q] \o more) = Len(sequence[q]) + Len(more)
        /\ Len(more) \in Nat /\ Len(sequence[q]) \in Nat
        /\ sequence[q] \in Seq(Tokens)
    BY <1>2, ConcatProperties
  <2>2. CASE q = r
    <3>1. sequence'[q] = sequence[q] \o more
      BY <1>1, <1>2, <2>2
    <3> QED
      BY <2>1, <3>1
  <2>3. CASE q # r
    <3>1. sequence'[q] = sequence[q]
      BY <1>1, <1>2, <2>3
    <3> QED
      BY <2>1, <3>1
  <2> QED
    BY <2>2, <2>3
<1>6. sequence' \in [Requests -> Seq(Tokens)]
  BY <1>1, <1>2, <1>5
<1> QED
  BY <1>1, <1>3, <1>4, <1>5, <1>6, EntryChanged

\* The marks of the pending tokens can be counted.
LEMMA PendingTokensCounted ==
  ASSUME NEW R \in SUBSET Requests
  PROVE  /\ Cardinality({r \in R : Waiting(r)}) \in Nat
         /\ Cardinality(PendingTokens(R)) \in Nat
<1>1. IsFiniteSet(R)
  BY FS_Subset, DraftsAssumption
<1>2. MaxDraftTokens \in Int /\ 1 \in Int
  BY LimitsAssumption
<1>3. IsFiniteSet(1..MaxDraftTokens)
  BY <1>2, FS_Interval
<1>4. IsFiniteSet(R \X (1..MaxDraftTokens))
  BY <1>1, <1>3, FS_Product
<1>5. PendingTokens(R) \in SUBSET (R \X (1..MaxDraftTokens))
  BY DEF PendingTokens
<1>6. {r \in R : Waiting(r)} \in SUBSET R
  OBVIOUS
<1> QED
  BY <1>1, <1>4, <1>5, <1>6, FS_Subset, FS_CardinalityType

LEMMA AbandonFacts ==
  ASSUME Inv, NEW R \in SUBSET Requests, Abandon(R)
  PROVE  /\ Inv'
         /\ stats'.injections = stats.injections
         /\ stats'.proposedTokens = stats.proposedTokens
         /\ stats'.resolved = stats.resolved
         /\ stats'.accepted = stats.accepted
         /\ stats'.rejected = stats.rejected
         /\ stats'.unresolved =
              stats.unresolved + Cardinality({r \in R : Waiting(r)})
         /\ stats'.unresolvedTokens =
              stats.unresolvedTokens + Cardinality(PendingTokens(R))
<1> DEFINE n == stats.unresolved + Cardinality({r \in R : Waiting(r)})
           m == stats.unresolvedTokens + Cardinality(PendingTokens(R))
<1>1. stats \in Counters
  BY DEF Inv, Typed
<1>2. n \in Nat /\ m \in Nat
  BY <1>1, PendingTokensCounted DEF Counters
<1>3. stats' = [stats EXCEPT !.unresolved = n, !.unresolvedTokens = m]
  BY DEF Abandon
<1> HIDE DEF n, m
<1>4. /\ stats' \in Counters
      /\ stats'.unresolved = n /\ stats'.unresolvedTokens = m
      /\ stats'.injections = stats.injections
      /\ stats'.proposedTokens = stats.proposedTokens
      /\ stats'.resolved = stats.resolved
      /\ stats'.accepted = stats.accepted
      /\ stats'.rejected = stats.rejected
  BY <1>1, <1>2, <1>3 DEF Counters
<1>5. /\ requests' = [q \in Requests |->
                       IF q \in R THEN NoRequest ELSE requests[q]]
      /\ sequence' = sequence
  BY DEF Abandon
<1>6. IsEntry(NoRequest) /\ NoRequest.pending = NoPending
  BY NoRequestFacts
<1>7. ASSUME NEW q \in Requests
      PROVE  /\ IsEntry(requests'[q])
             /\ requests'[q].pending # NoPending =>
                  /\ requests'[q].pending.at = requests'[q].lastOffer
                  /\ requests'[q].lastOffer <= Len(sequence'[q])
  <2>1. CASE q \in R
    <3>1. requests'[q] = NoRequest
      BY <1>5, <2>1
    <3> QED
      BY <1>6, <3>1
  <2>2. CASE q \notin R
    <3>1. requests'[q] = requests[q]
      BY <1>5, <2>2
    <3> QED
      BY <1>5, <3>1 DEF Inv, Typed, Marked, Waiting
  <2> QED
    BY <2>1, <2>2
<1>8. Typed'
  <2>1. \A q \in Requests : IsEntry(requests[q])'
    BY <1>7 DEF IsEntry, IsCatalogue
  <2>2. requests' = [q \in Requests |-> requests'[q]]
    BY <1>5
  <2> QED
    BY <1>4, <1>5, <2>1, <2>2 DEF Inv, Typed
<1>9. Marked'
  BY <1>7 DEF Marked, Waiting
<1> QED
  BY <1>4, <1>8, <1>9 DEF Inv, n, m

LEMMA NextPreservesInv ==
  ASSUME Inv, [Next]_vars
  PROVE  Inv'
<1>1. ASSUME NEW r \in Requests, Emit(r)
      PROVE  Inv'
  BY <1>1, EmitPreservesInv
<1>2. ASSUME NEW r \in Requests, NEW bundle \in Bundles,
             RegisterBundle(r, bundle)
      PROVE  Inv'
  BY <1>2, RegisterBundlePreservesInv
<1>3. ASSUME NEW r \in Requests, OfferRepeated(r)
      PROVE  Inv'
  BY <1>3, OfferRepeatedPreservesInv
<1>4. ASSUME NEW r \in Requests, OfferNothing(r)
      PROVE  Inv'
  BY <1>4, OfferNothingPreservesInv
<1>5. ASSUME NEW r \in Requests, NEW limit \in 1..MaxDraftTokens,
             OfferProposal(r, limit)
      PROVE  Inv'
  BY <1>5, OfferProposalPreservesInv
<1>6. ASSUME NEW r \in Requests, ObserveAcceptance(r)
      PROVE  Inv'
  BY <1>6, ObserveAcceptancePreservesInv
<1>7. ASSUME NEW r \in Requests, TakeOutcome(r)
      PROVE  Inv'
  BY <1>7, AbandonFacts DEF TakeOutcome
<1>8. CASE ClearAll
  BY <1>8, AbandonFacts DEF ClearAll
<1>9. CASE UNCHANGED vars
  <2>1. /\ sequence' = sequence /\ requests' = requests /\ stats' = stats
    BY <1>9 DEF vars
  <2> QED
    BY <2>1 DEF Inv, Typed, IsEntry, IsCatalogue, Marked, Waiting
<1> QED
  BY <1>1, <1>2, <1>3, <1>4, <1>5, <1>6, <1>7, <1>8, <1>9 DEF Next

\* Every behaviour of the store is well typed: in particular, no proposal is
\* empty or longer than max_draft_tokens, and no step accepts more than it
\* drafted (_CandidateDraft, _PendingProposal, DraftVerificationStep).
THEOREM StoreTyped == Spec => []TypeOK
<1>1. Inv => TypeOK
  BY TypedImpliesTypeOK DEF Inv
<1>2. Init => Inv
  BY InitEstablishesInv
<1>3. Inv /\ [Next]_vars => Inv'
  BY NextPreservesInv
<1> QED
  BY <1>1, <1>2, <1>3, PTL DEF Spec

-----------------------------------------------------------------------------
(***************************************************************************)
(* The store implements the ledger                                         *)
(***************************************************************************)
Outstanding == [r \in Requests |-> Len(requests[r].pending.tokens)]

\* A request is waiting when it has tokens outstanding.
LEMMA OutstandingFacts ==
  ASSUME Inv, NEW r \in Requests
  PROVE  /\ Outstanding[r] = Len(requests[r].pending.tokens)
         /\ Outstanding[r] \in 0..MaxDraftTokens
         /\ Waiting(r) <=> Outstanding[r] > 0
<1>1. requests[r].pending \in Proposal \cup {NoPending}
  BY DEF Inv, Typed, IsEntry
<1>2. Outstanding[r] = Len(requests[r].pending.tokens)
  BY DEF Outstanding
<1>3. NoPending.tokens = <<>> /\ Len(<<>>) = 0
  BY DEF NoPending
<1>4. MaxDraftTokens \in Nat
  BY LimitsAssumption
<1>5. CASE requests[r].pending = NoPending
  BY <1>2, <1>3, <1>4, <1>5 DEF Waiting
<1>6. CASE requests[r].pending \in Proposal
  <2>1. Len(requests[r].pending.tokens) \in 1..MaxDraftTokens
    BY <1>6 DEF Proposal
  <2>2. requests[r].pending # NoPending
    BY <1>3, <2>1
  <2> QED
    BY <1>2, <1>4, <2>1, <2>2 DEF Waiting
<1> QED
  BY <1>1, <1>5, <1>6

\* One entry changes: so does one outstanding length.
LEMMA OutstandingChanged ==
  ASSUME Inv, NEW r \in Requests, NEW e,
         requests' = [requests EXCEPT ![r] = e]
  PROVE  Outstanding' = [Outstanding EXCEPT ![r] = Len(e.pending.tokens)]
<1>1. requests = [q \in Requests |-> requests[q]]
  BY DEF Inv, Typed
<1>2. \A q \in Requests : requests'[q] = IF q = r THEN e ELSE requests[q]
  BY <1>1
<1>3. /\ Outstanding = [q \in Requests |-> Outstanding[q]]
      /\ Outstanding' = [q \in Requests |-> Outstanding'[q]]
      /\ \A q \in Requests :
           /\ Outstanding[q] = Len(requests[q].pending.tokens)
           /\ Outstanding'[q] = Len(requests'[q].pending.tokens)
  BY DEF Outstanding
<1>4. \A q \in Requests : Outstanding'[q] =
                           IF q = r THEN Len(e.pending.tokens) ELSE Outstanding[q]
  BY <1>2, <1>3
<1> QED
  BY <1>3, <1>4

\* A step that settles the proposal of r, and may make its next one.
LEMMA LedgerSettles ==
  ASSUME NEW r \in Requests, NEW n \in 0..MaxDraftTokens,
         NEW a \in 0..MaxDraftTokens,
         Outstanding[r] > 0, a <= Outstanding[r],
         Outstanding' = [Outstanding EXCEPT ![r] = n],
         stats'.injections = stats.injections + (IF n > 0 THEN 1 ELSE 0),
         stats'.proposedTokens = stats.proposedTokens + n,
         stats'.resolved = stats.resolved + 1,
         stats'.accepted = stats.accepted + a,
         stats'.rejected = stats.rejected + (Outstanding[r] - a),
         stats'.unresolved = stats.unresolved,
         stats'.unresolvedTokens = stats.unresolvedTokens
  PROVE  Ledger!Next
<1>1. Ledger!Draft(r, n)
  BY DEF Ledger!Draft, Outstanding
<1>2. Ledger!Settle(r, a, n)
  BY <1>1 DEF Ledger!Settle, Outstanding
<1> QED
  BY <1>2 DEF Ledger!Next

\* A step that makes a proposal for a request without one.
LEMMA LedgerProposes ==
  ASSUME NEW r \in Requests, NEW n \in 1..MaxDraftTokens,
         Outstanding[r] = 0,
         Outstanding' = [Outstanding EXCEPT ![r] = n],
         stats'.injections = stats.injections + 1,
         stats'.proposedTokens = stats.proposedTokens + n,
         stats'.resolved = stats.resolved,
         stats'.accepted = stats.accepted,
         stats'.rejected = stats.rejected,
         stats'.unresolved = stats.unresolved,
         stats'.unresolvedTokens = stats.unresolvedTokens
  PROVE  Ledger!Next
<1>1. n > 0 /\ n \in 0..MaxDraftTokens
  BY LimitsAssumption
<1>2. Ledger!Draft(r, n)
  BY <1>1 DEF Ledger!Draft, Outstanding
<1>3. Ledger!Propose(r, n)
  BY <1>1, <1>2 DEF Ledger!Propose, Outstanding
<1> QED
  BY <1>1, <1>3 DEF Ledger!Next

\* A step the ledger does not see.
LEMMA LedgerStutters ==
  ASSUME Outstanding' = Outstanding,
         stats'.injections = stats.injections,
         stats'.proposedTokens = stats.proposedTokens,
         stats'.resolved = stats.resolved,
         stats'.accepted = stats.accepted,
         stats'.rejected = stats.rejected,
         stats'.unresolved = stats.unresolved,
         stats'.unresolvedTokens = stats.unresolvedTokens
  PROVE  UNCHANGED Ledger!vars
BY DEF Ledger!vars, Outstanding

LEMMA AbandonImplements ==
  ASSUME Inv, NEW R \in SUBSET Requests, Abandon(R)
  PROVE  Ledger!Next
<1>1. /\ stats'.injections = stats.injections
      /\ stats'.proposedTokens = stats.proposedTokens
      /\ stats'.resolved = stats.resolved
      /\ stats'.accepted = stats.accepted
      /\ stats'.rejected = stats.rejected
      /\ stats'.unresolved =
           stats.unresolved + Cardinality({r \in R : Waiting(r)})
      /\ stats'.unresolvedTokens =
           stats.unresolvedTokens + Cardinality(PendingTokens(R))
  BY AbandonFacts
<1>2. {r \in R : Waiting(r)} = Ledger!Waiting(R)
  BY OutstandingFacts DEF Ledger!Waiting, Outstanding
<1>3. PendingTokens(R) = Ledger!OutstandingTokens(R)
  BY DEF PendingTokens, Ledger!OutstandingTokens
<1>4. Outstanding' = [r \in Requests |-> IF r \in R THEN 0 ELSE Outstanding[r]]
  <2>1. \A q \in Requests :
          requests'[q] = IF q \in R THEN NoRequest ELSE requests[q]
    BY DEF Abandon
  <2>2. Len(NoRequest.pending.tokens) = 0
    BY NoRequestFacts DEF NoPending
  <2>3. \A q \in Requests : Len(requests'[q].pending.tokens) =
                             IF q \in R THEN 0 ELSE Outstanding[q]
    BY <2>1, <2>2 DEF Outstanding
  <2> QED
    BY <2>3 DEF Outstanding
<1>5. Outstanding = [r \in Requests |-> Len(requests[r].pending.tokens)]
  BY DEF Outstanding
<1>6. Ledger!Abandon(R)
  <2>1. [r \in Requests |-> Len(requests[r].pending.tokens)]' =
          [r \in Requests |->
             IF r \in R THEN 0
             ELSE [q \in Requests |-> Len(requests[q].pending.tokens)][r]]
    BY <1>4, <1>5, Zenon DEF Outstanding
  <2>2. /\ stats'.unresolved =
             stats.unresolved + Cardinality(Ledger!Waiting(R))
        /\ stats'.unresolvedTokens =
             stats.unresolvedTokens + Cardinality(Ledger!OutstandingTokens(R))
    BY <1>1, <1>2, <1>3, Zenon
  <2>3. /\ Cardinality(Ledger!Waiting(R)) =
             Ledger!Cardinality(Ledger!Waiting(R))
        /\ Cardinality(Ledger!OutstandingTokens(R)) =
             Ledger!Cardinality(Ledger!OutstandingTokens(R))
    BY Zenon DEF Cardinality, Ledger!Cardinality
  <2> QED
    BY <1>1, <2>1, <2>2, <2>3 DEF Ledger!Abandon
<1> QED
  BY <1>6 DEF Ledger!Next

\* An offer settles what is due before it does anything else.
LEMMA SettledCounters ==
  ASSUME Inv, NEW r \in Requests,
         NEW u, u = SettleFromSequence(requests[r], sequence[r]),
         NEW v, v = CreditFromSequence(stats, requests[r], sequence[r])
  PROVE  \/ u = requests[r] /\ v = stats
         \/ /\ u.pending = NoPending /\ Outstanding[r] > 0
            /\ \E a \in 0..MaxDraftTokens :
                 /\ a <= Outstanding[r]
                 /\ v.injections = stats.injections
                 /\ v.proposedTokens = stats.proposedTokens
                 /\ v.resolved = stats.resolved + 1
                 /\ v.accepted = stats.accepted + a
                 /\ v.rejected = stats.rejected + (Outstanding[r] - a)
                 /\ v.unresolved = stats.unresolved
                 /\ v.unresolvedTokens = stats.unresolvedTokens
<1>1. IsEntry(requests[r]) /\ sequence[r] \in Seq(Tokens) /\ stats \in Counters
  BY DEF Inv, Typed
<1>2. CASE ~Due(requests[r], sequence[r])
  BY <1>2 DEF SettleFromSequence, CreditFromSequence
<1>3. CASE Due(requests[r], sequence[r])
  <2>1. /\ u.pending = NoPending
        /\ \E a \in 0..Len(requests[r].pending.tokens) :
             v = Credit(stats, requests[r], a)
    BY <1>1, <1>3, SettleFromSequenceFacts
  <2>2. PICK a \in 0..Len(requests[r].pending.tokens) :
          v = Credit(stats, requests[r], a)
    BY <2>1
  <2>3. /\ Outstanding[r] = Len(requests[r].pending.tokens)
        /\ Outstanding[r] \in 0..MaxDraftTokens
        /\ Outstanding[r] > 0
    BY <1>3, OutstandingFacts DEF Due, Waiting
  <2>4. MaxDraftTokens \in Nat
    BY LimitsAssumption
  <2>5. a \in 0..MaxDraftTokens /\ a <= Outstanding[r]
    BY <2>3, <2>4
  <2>6. /\ v.injections = stats.injections
        /\ v.proposedTokens = stats.proposedTokens
        /\ v.resolved = stats.resolved + 1
        /\ v.accepted = stats.accepted + a
        /\ v.rejected = stats.rejected + (Outstanding[r] - a)
        /\ v.unresolved = stats.unresolved
        /\ v.unresolvedTokens = stats.unresolvedTokens
    BY <1>1, <2>2, <2>3 DEF Counters, Credit
  <2> QED
    BY <2>1, <2>3, <2>5, <2>6
<1> QED
  BY <1>2, <1>3

\* An offer that makes no proposal settles one, or is not seen.
LEMMA QuietOfferImplements ==
  ASSUME Inv, NEW r \in Requests,
         NEW u, u = SettleFromSequence(requests[r], sequence[r]),
         NEW v, v = CreditFromSequence(stats, requests[r], sequence[r]),
         NEW e, e.pending = u.pending,
         requests' = [requests EXCEPT ![r] = e],
         stats'.injections = v.injections,
         stats'.proposedTokens = v.proposedTokens,
         stats'.resolved = v.resolved,
         stats'.accepted = v.accepted,
         stats'.rejected = v.rejected,
         stats'.unresolved = v.unresolved,
         stats'.unresolvedTokens = v.unresolvedTokens
  PROVE  Ledger!Next \/ UNCHANGED Ledger!vars
<1>1. Outstanding' = [Outstanding EXCEPT ![r] = Len(u.pending.tokens)]
  <2>1. Outstanding' = [Outstanding EXCEPT ![r] = Len(e.pending.tokens)]
    BY OutstandingChanged
  <2> QED
    BY <2>1
<1>2. /\ Outstanding[r] = Len(requests[r].pending.tokens)
      /\ Outstanding = [q \in Requests |-> Outstanding[q]]
  BY DEF Outstanding
<1>3. stats \in Counters /\ 0 \in 0..MaxDraftTokens
  BY LimitsAssumption DEF Inv, Typed
<1>4. CASE u = requests[r] /\ v = stats
  <2>1. Outstanding' = Outstanding
    BY <1>1, <1>2, <1>4
  <2> QED
    BY <1>4, <2>1, LedgerStutters
<1>5. CASE /\ u.pending = NoPending /\ Outstanding[r] > 0
           /\ \E a \in 0..MaxDraftTokens :
                /\ a <= Outstanding[r]
                /\ v.injections = stats.injections
                /\ v.proposedTokens = stats.proposedTokens
                /\ v.resolved = stats.resolved + 1
                /\ v.accepted = stats.accepted + a
                /\ v.rejected = stats.rejected + (Outstanding[r] - a)
                /\ v.unresolved = stats.unresolved
                /\ v.unresolvedTokens = stats.unresolvedTokens
  <2>1. Len(u.pending.tokens) = 0
    BY <1>5 DEF NoPending
  <2>2. Outstanding' = [Outstanding EXCEPT ![r] = 0]
    BY <1>1, <2>1
  <2>3. /\ stats.injections + (IF 0 > 0 THEN 1 ELSE 0) = stats.injections
        /\ stats.proposedTokens + 0 = stats.proposedTokens
    BY <1>3 DEF Counters
  <2> QED
    BY <1>3, <1>5, <2>2, <2>3, LedgerSettles
<1> QED
  BY <1>4, <1>5, SettledCounters

LEMMA OfferRepeatedImplements ==
  ASSUME Inv, NEW r \in Requests, OfferRepeated(r)
  PROVE  Ledger!Next \/ UNCHANGED Ledger!vars
<1>1. PICK u, v : /\ u = SettleFromSequence(requests[r], sequence[r])
                  /\ v = CreditFromSequence(stats, requests[r], sequence[r])
  OBVIOUS
<1>2. requests' = [requests EXCEPT ![r] = u] /\ stats' = v
  BY <1>1 DEF OfferRepeated
<1> QED
  BY <1>1, <1>2, QuietOfferImplements

LEMMA OfferNothingImplements ==
  ASSUME Inv, NEW r \in Requests, OfferNothing(r)
  PROVE  Ledger!Next \/ UNCHANGED Ledger!vars
<1>1. PICK u, v : /\ u = SettleFromSequence(requests[r], sequence[r])
                  /\ v = CreditFromSequence(stats, requests[r], sequence[r])
  OBVIOUS
<1>2. PICK e, s : e = Scan(u, sequence[r]) /\ s = CountScan(v, u, sequence[r])
  OBVIOUS
<1>3. requests' = [requests EXCEPT ![r] = e] /\ stats' = s
  BY <1>1, <1>2 DEF OfferNothing
<1>4. IsEntry(u) /\ v \in Counters
  BY <1>1, SettledEntry
<1>5. /\ e.pending = u.pending
      /\ s.injections = v.injections
      /\ s.proposedTokens = v.proposedTokens
      /\ s.resolved = v.resolved /\ s.unresolved = v.unresolved
      /\ s.unresolvedTokens = v.unresolvedTokens
      /\ s.accepted = v.accepted /\ s.rejected = v.rejected
  BY <1>2, <1>4, ScanFacts, CountScanFacts
<1> QED
  BY <1>1, <1>3, <1>5, QuietOfferImplements

\* An offer that makes a proposal settles the one before, if there is one.
LEMMA OfferProposalImplements ==
  ASSUME Inv, NEW r \in Requests, NEW limit \in 1..MaxDraftTokens,
         OfferProposal(r, limit)
  PROVE  Ledger!Next
<1>1. PICK u, v : /\ u = SettleFromSequence(requests[r], sequence[r])
                  /\ v = CreditFromSequence(stats, requests[r], sequence[r])
  OBVIOUS
<1>2. /\ u.pending = NoPending
      /\ \E e : /\ requests' = [requests EXCEPT ![r] = e]
               /\ Len(e.pending.tokens) \in 1..MaxDraftTokens
               /\ stats'.proposedTokens = v.proposedTokens
                                          + Len(e.pending.tokens)
      /\ stats'.injections = v.injections + 1
      /\ stats'.resolved = v.resolved
      /\ stats'.unresolved = v.unresolved
      /\ stats'.unresolvedTokens = v.unresolvedTokens
      /\ stats'.accepted = v.accepted /\ stats'.rejected = v.rejected
  BY <1>1, OfferProposalFacts
<1>3. PICK e : /\ requests' = [requests EXCEPT ![r] = e]
               /\ Len(e.pending.tokens) \in 1..MaxDraftTokens
               /\ stats'.proposedTokens = v.proposedTokens
                                          + Len(e.pending.tokens)
  BY <1>2
<1>4. Outstanding' = [Outstanding EXCEPT ![r] = Len(e.pending.tokens)]
  BY <1>3, OutstandingChanged
<1> DEFINE n == Len(e.pending.tokens)
<1>5. n \in 1..MaxDraftTokens /\ n \in 0..MaxDraftTokens /\ n > 0
  BY <1>3, LimitsAssumption
<1> HIDE DEF n
<1>6. CASE u = requests[r] /\ v = stats
  <2>1. Outstanding[r] = 0
    BY <1>2, <1>6, OutstandingFacts DEF Waiting
  <2> QED
    BY <1>2, <1>3, <1>4, <1>5, <1>6, <2>1, LedgerProposes DEF n
<1>7. CASE /\ u.pending = NoPending /\ Outstanding[r] > 0
           /\ \E a \in 0..MaxDraftTokens :
                /\ a <= Outstanding[r]
                /\ v.injections = stats.injections
                /\ v.proposedTokens = stats.proposedTokens
                /\ v.resolved = stats.resolved + 1
                /\ v.accepted = stats.accepted + a
                /\ v.rejected = stats.rejected + (Outstanding[r] - a)
                /\ v.unresolved = stats.unresolved
                /\ v.unresolvedTokens = stats.unresolvedTokens
  <2>1. stats'.injections = stats.injections + (IF n > 0 THEN 1 ELSE 0)
    BY <1>2, <1>5, <1>7
  <2>2. /\ stats'.proposedTokens = stats.proposedTokens + n
        /\ Outstanding' = [Outstanding EXCEPT ![r] = n]
    BY <1>3, <1>4, <1>7 DEF n
  <2> QED
    BY <1>2, <1>5, <1>7, <2>1, <2>2, LedgerSettles
<1> QED
  BY <1>1, <1>6, <1>7, SettledCounters

LEMMA ObserveAcceptanceImplements ==
  ASSUME Inv, NEW r \in Requests, ObserveAcceptance(r)
  PROVE  Ledger!Next
<1>1. PICK n \in 0..Len(requests[r].pending.tokens) :
        /\ requests' = [requests EXCEPT ![r] = Settle(requests[r], n)]
        /\ stats' = Credit(stats, requests[r], n)
  BY ObserveAcceptanceFacts
<1>2. IsEntry(requests[r]) /\ stats \in Counters /\ Waiting(r)
  BY DEF Inv, Typed, ObserveAcceptance
<1>3. /\ Outstanding[r] = Len(requests[r].pending.tokens)
      /\ Outstanding[r] \in 0..MaxDraftTokens /\ Outstanding[r] > 0
  BY <1>2, OutstandingFacts
<1>4. n \in 0..MaxDraftTokens /\ n <= Outstanding[r] /\ 0 \in 0..MaxDraftTokens
  BY <1>3, LimitsAssumption
<1>5. Settle(requests[r], n).pending = NoPending
  BY <1>2, SettleFacts DEF Waiting
<1>6. Len(Settle(requests[r], n).pending.tokens) = 0
  BY <1>5 DEF NoPending
<1>7. Outstanding' = [Outstanding EXCEPT ![r] = 0]
  BY <1>1, <1>6, OutstandingChanged
<1>8. /\ stats'.injections = stats.injections + (IF 0 > 0 THEN 1 ELSE 0)
      /\ stats'.proposedTokens = stats.proposedTokens + 0
      /\ stats'.resolved = stats.resolved + 1
      /\ stats'.accepted = stats.accepted + n
      /\ stats'.rejected = stats.rejected + (Outstanding[r] - n)
      /\ stats'.unresolved = stats.unresolved
      /\ stats'.unresolvedTokens = stats.unresolvedTokens
  BY <1>1, <1>2, <1>3 DEF Counters, Credit
<1> QED
  BY <1>3, <1>4, <1>7, <1>8, LedgerSettles

LEMMA InitImplements ==
  ASSUME Init
  PROVE  Ledger!Init
<1>1. Len(NoRequest.pending.tokens) = 0
  BY NoRequestFacts DEF NoPending
<1>2. [r \in Requests |-> Len(requests[r].pending.tokens)] =
        [r \in Requests |-> 0]
  BY <1>1 DEF Init
<1> QED
  BY <1>2 DEF Init, ZeroStats, Ledger!Init

LEMMA NextImplements ==
  ASSUME Inv, [Next]_vars
  PROVE  Ledger!Next \/ UNCHANGED Ledger!vars
<1>1. ASSUME NEW r \in Requests, Emit(r)
      PROVE  Ledger!Next \/ UNCHANGED Ledger!vars
  <2>1. requests' = requests /\ stats' = stats
    BY <1>1 DEF Emit
  <2> QED
    BY <2>1, LedgerStutters DEF Outstanding
<1>2. ASSUME NEW r \in Requests, NEW bundle \in Bundles,
             RegisterBundle(r, bundle)
      PROVE  Ledger!Next \/ UNCHANGED Ledger!vars
  <2>1. PICK e : /\ e.pending = requests[r].pending
                 /\ requests' = [requests EXCEPT ![r] = e]
    BY <1>2, RegisterBundleFacts
  <2>2. Outstanding' = Outstanding
    BY <2>1, OutstandingChanged DEF Outstanding
  <2> QED
    BY <1>2, <2>2, RegisterBundleFacts, LedgerStutters
<1>3. ASSUME NEW r \in Requests, OfferRepeated(r)
      PROVE  Ledger!Next \/ UNCHANGED Ledger!vars
  BY <1>3, OfferRepeatedImplements
<1>4. ASSUME NEW r \in Requests, OfferNothing(r)
      PROVE  Ledger!Next \/ UNCHANGED Ledger!vars
  BY <1>4, OfferNothingImplements
<1>5. ASSUME NEW r \in Requests, NEW limit \in 1..MaxDraftTokens,
             OfferProposal(r, limit)
      PROVE  Ledger!Next \/ UNCHANGED Ledger!vars
  BY <1>5, OfferProposalImplements
<1>6. ASSUME NEW r \in Requests, ObserveAcceptance(r)
      PROVE  Ledger!Next \/ UNCHANGED Ledger!vars
  BY <1>6, ObserveAcceptanceImplements
<1>7. ASSUME NEW r \in Requests, TakeOutcome(r)
      PROVE  Ledger!Next \/ UNCHANGED Ledger!vars
  BY <1>7, AbandonImplements DEF TakeOutcome
<1>8. CASE ClearAll
  BY <1>8, AbandonImplements DEF ClearAll
<1>9. CASE UNCHANGED vars
  <2>1. requests' = requests /\ stats' = stats
    BY <1>9 DEF vars
  <2> QED
    BY <2>1, LedgerStutters DEF Outstanding
<1> QED
  BY <1>1, <1>2, <1>3, <1>4, <1>5, <1>6, <1>7, <1>8, <1>9 DEF Next

\* The store keeps the ledger's promise: with whatever drafts, boundaries and
\* bundles, a request has at most one proposal outstanding, and each proposal
\* ends exactly once (offer, observe_acceptance, take_outcome, clear_all).
THEOREM StoreImplementsLedger == Spec => ImplementsLedger
<1>1. Init => Inv /\ Ledger!Init
  BY InitEstablishesInv, InitImplements
<1>2. Inv /\ [Next]_vars => Inv'
  BY NextPreservesInv
<1>3. Inv /\ [Next]_vars => [Ledger!Next]_(Ledger!vars)
  BY NextImplements
<1> QED
  BY <1>1, <1>2, <1>3, PTL DEF Spec, ImplementsLedger, Ledger!Spec

-----------------------------------------------------------------------------
(***************************************************************************)
(* Counting what is outstanding                                            *)
(***************************************************************************)
\* The ledger's two counts, as functions of the outstanding lengths.
Marks(f, R) == {m \in R \X (1..MaxDraftTokens) : m[2] <= f[m[1]]}

Positive(f, R) == {r \in R : f[r] > 0}

Lengths == [Requests -> 0..MaxDraftTokens]

\* Both counts are of finite sets.
LEMMA CountsAreFinite ==
  ASSUME NEW f \in Lengths, NEW R \in SUBSET Requests
  PROVE  /\ IsFiniteSet(Marks(f, R)) /\ Cardinality(Marks(f, R)) \in Nat
         /\ IsFiniteSet(Positive(f, R)) /\ Cardinality(Positive(f, R)) \in Nat
<1>1. IsFiniteSet(R)
  BY FS_Subset, DraftsAssumption
<1>2. MaxDraftTokens \in Int /\ 1 \in Int
  BY LimitsAssumption
<1>3. IsFiniteSet(1..MaxDraftTokens)
  BY <1>2, FS_Interval
<1>4. IsFiniteSet(R \X (1..MaxDraftTokens))
  BY <1>1, <1>3, FS_Product
<1>5. Marks(f, R) \in SUBSET (R \X (1..MaxDraftTokens))
  BY DEF Marks
<1>6. Positive(f, R) \in SUBSET R
  BY DEF Positive
<1>7. IsFiniteSet(Marks(f, R)) /\ IsFiniteSet(Positive(f, R))
  BY <1>1, <1>4, <1>5, <1>6, FS_Subset
<1> QED
  BY <1>7, FS_CardinalityType

\* Both counts add up over a partition of the requests.
LEMMA CountsSplit ==
  ASSUME NEW f \in Lengths, NEW R \in SUBSET Requests, NEW S \in SUBSET Requests,
         R \cap S = {}
  PROVE  /\ Cardinality(Marks(f, R \cup S)) =
              Cardinality(Marks(f, R)) + Cardinality(Marks(f, S))
         /\ Cardinality(Positive(f, R \cup S)) =
              Cardinality(Positive(f, R)) + Cardinality(Positive(f, S))
<1>1. /\ IsFiniteSet(Marks(f, R)) /\ IsFiniteSet(Marks(f, S))
      /\ IsFiniteSet(Positive(f, R)) /\ IsFiniteSet(Positive(f, S))
      /\ Cardinality(Marks(f, R)) \in Nat /\ Cardinality(Marks(f, S)) \in Nat
      /\ Cardinality(Positive(f, R)) \in Nat
      /\ Cardinality(Positive(f, S)) \in Nat
  BY CountsAreFinite
<1>2. Marks(f, R \cup S) = Marks(f, R) \cup Marks(f, S)
  BY DEF Marks
<1>3. Marks(f, R) \cap Marks(f, S) = {}
  BY DEF Marks
<1>4. Positive(f, R \cup S) = Positive(f, R) \cup Positive(f, S)
  BY DEF Positive
<1>5. Positive(f, R) \cap Positive(f, S) = {}
  BY DEF Positive
<1>6. Cardinality({}) = 0
  BY FS_EmptySet
<1>7. Cardinality(Marks(f, R) \cup Marks(f, S)) =
        Cardinality(Marks(f, R)) + Cardinality(Marks(f, S))
          - Cardinality(Marks(f, R) \cap Marks(f, S))
  BY <1>1, FS_Union, Zenon
<1>8. Cardinality(Positive(f, R) \cup Positive(f, S)) =
        Cardinality(Positive(f, R)) + Cardinality(Positive(f, S))
          - Cardinality(Positive(f, R) \cap Positive(f, S))
  BY <1>1, FS_Union, Zenon
<1>9. /\ Cardinality(Marks(f, R) \cap Marks(f, S)) = 0
      /\ Cardinality(Positive(f, R) \cap Positive(f, S)) = 0
  BY <1>3, <1>5, <1>6, Zenon
<1>10. /\ Cardinality(Marks(f, R) \cup Marks(f, S)) =
            Cardinality(Marks(f, R)) + Cardinality(Marks(f, S))
       /\ Cardinality(Positive(f, R) \cup Positive(f, S)) =
            Cardinality(Positive(f, R)) + Cardinality(Positive(f, S))
  BY <1>1, <1>7, <1>8, <1>9
<1> QED
  BY <1>2, <1>4, <1>10, Zenon

\* Of one request, the counts are its length and whether it has one.
LEMMA CountsOfOne ==
  ASSUME NEW f \in Lengths, NEW r \in Requests
  PROVE  /\ Cardinality(Marks(f, {r})) = f[r]
         /\ Cardinality(Positive(f, {r})) = (IF f[r] > 0 THEN 1 ELSE 0)
<1>1. f[r] \in 0..MaxDraftTokens /\ f[r] \in Int /\ MaxDraftTokens \in Nat
  BY LimitsAssumption DEF Lengths
<1>2. Marks(f, {r}) = {r} \X (1..f[r])
  <2>1. ASSUME NEW m \in Marks(f, {r})
        PROVE  m \in {r} \X (1..f[r])
    BY <1>1 DEF Marks
  <2>2. ASSUME NEW m \in {r} \X (1..f[r])
        PROVE  m \in Marks(f, {r})
    BY <1>1 DEF Marks
  <2> QED
    BY <2>1, <2>2
<1>3. IsFiniteSet({r}) /\ Cardinality({r}) = 1
  BY FS_Singleton
<1>4. IsFiniteSet(1..f[r]) /\ Cardinality(1..f[r]) = f[r]
  <2>1. /\ IsFiniteSet(1..f[r])
        /\ Cardinality(1..f[r]) = IF 1 > f[r] THEN 0 ELSE f[r] - 1 + 1
    BY <1>1, 1 \in Int, FS_Interval, Zenon
  <2> QED
    BY <1>1, <2>1
<1>5. Cardinality(Marks(f, {r})) = f[r]
  <2>1. Cardinality({r} \X (1..f[r])) = Cardinality({r}) * Cardinality(1..f[r])
    BY <1>3, <1>4, FS_Product, Zenon
  <2>2. Cardinality(Marks(f, {r})) = 1 * f[r]
    BY <1>2, <1>3, <1>4, <2>1, Zenon
  <2> QED
    BY <1>1, <2>2
<1>6. CASE f[r] > 0
  <2>1. Positive(f, {r}) = {r}
    BY <1>6 DEF Positive
  <2> QED
    BY <1>3, <1>5, <1>6, <2>1
<1>7. CASE ~(f[r] > 0)
  <2>1. Positive(f, {r}) = {}
    BY <1>7 DEF Positive
  <2>2. Cardinality(Positive(f, {r})) = 0
    BY <2>1, FS_EmptySet
  <2> QED
    BY <1>1, <1>5, <1>7, <2>2
<1> QED
  BY <1>6, <1>7

\* When one length changes, the counts change by that request's part.
LEMMA OneLengthChanges ==
  ASSUME NEW f \in Lengths, NEW r \in Requests, NEW n \in 0..MaxDraftTokens,
         NEW g, g = [f EXCEPT ![r] = n]
  PROVE  /\ g \in Lengths
         /\ Cardinality(Marks(g, Requests)) =
              Cardinality(Marks(f, Requests)) - f[r] + n
         /\ Cardinality(Positive(g, Requests)) =
              Cardinality(Positive(f, Requests))
                - (IF f[r] > 0 THEN 1 ELSE 0) + (IF n > 0 THEN 1 ELSE 0)
<1> DEFINE Rest == Requests \ {r}
<1>1. g \in Lengths /\ g[r] = n
  BY DEF Lengths
<1>2. Rest \cup {r} = Requests /\ Rest \cap {r} = {}
      /\ Rest \in SUBSET Requests /\ {r} \in SUBSET Requests
  OBVIOUS
<1>3. Marks(g, Rest) = Marks(f, Rest) /\ Positive(g, Rest) = Positive(f, Rest)
  BY DEF Marks, Positive, Lengths
<1>4. /\ Cardinality(Marks(f, Rest)) \in Nat
      /\ Cardinality(Positive(f, Rest)) \in Nat
  BY <1>2, CountsAreFinite
<1>5. /\ Cardinality(Marks(f, Requests)) = Cardinality(Marks(f, Rest)) + f[r]
      /\ Cardinality(Positive(f, Requests)) =
           Cardinality(Positive(f, Rest)) + (IF f[r] > 0 THEN 1 ELSE 0)
  <2>1. /\ Cardinality(Marks(f, Rest \cup {r})) =
             Cardinality(Marks(f, Rest)) + Cardinality(Marks(f, {r}))
        /\ Cardinality(Positive(f, Rest \cup {r})) =
             Cardinality(Positive(f, Rest)) + Cardinality(Positive(f, {r}))
    BY <1>2, CountsSplit, Zenon
  <2>2. /\ Cardinality(Marks(f, {r})) = f[r]
        /\ Cardinality(Positive(f, {r})) = (IF f[r] > 0 THEN 1 ELSE 0)
    BY CountsOfOne, Zenon
  <2> QED
    BY <1>2, <2>1, <2>2, Zenon
<1>6. /\ Cardinality(Marks(g, Requests)) = Cardinality(Marks(g, Rest)) + n
      /\ Cardinality(Positive(g, Requests)) =
           Cardinality(Positive(g, Rest)) + (IF n > 0 THEN 1 ELSE 0)
  <2>1. /\ Cardinality(Marks(g, Rest \cup {r})) =
             Cardinality(Marks(g, Rest)) + Cardinality(Marks(g, {r}))
        /\ Cardinality(Positive(g, Rest \cup {r})) =
             Cardinality(Positive(g, Rest)) + Cardinality(Positive(g, {r}))
    BY <1>1, <1>2, CountsSplit, Zenon
  <2>2. /\ Cardinality(Marks(g, {r})) = g[r]
        /\ Cardinality(Positive(g, {r})) = (IF g[r] > 0 THEN 1 ELSE 0)
    BY <1>1, CountsOfOne, Zenon
  <2> QED
    BY <1>1, <1>2, <2>1, <2>2, Zenon
<1>7. f[r] \in Nat /\ n \in Nat
  BY LimitsAssumption DEF Lengths
<1> QED
  BY <1>1, <1>3, <1>4, <1>5, <1>6, <1>7

\* When the lengths of R fall to nothing, the counts lose the part of R.
LEMMA LengthsDropped ==
  ASSUME NEW f \in Lengths, NEW R \in SUBSET Requests,
         NEW g, g = [r \in Requests |-> IF r \in R THEN 0 ELSE f[r]]
  PROVE  /\ g \in Lengths
         /\ Cardinality(Marks(f, Requests)) =
              Cardinality(Marks(g, Requests)) + Cardinality(Marks(f, R))
         /\ Cardinality(Positive(f, Requests)) =
              Cardinality(Positive(g, Requests)) + Cardinality(Positive(f, R))
<1> DEFINE Rest == Requests \ R
<1>1. g \in Lengths
  BY LimitsAssumption DEF Lengths
<1>2. Rest \cup R = Requests /\ Rest \cap R = {} /\ Rest \in SUBSET Requests
  OBVIOUS
<1>3. Marks(g, Requests) = Marks(f, Rest)
  BY LimitsAssumption DEF Marks, Lengths
<1>4. Positive(g, Requests) = Positive(f, Rest)
  BY DEF Positive, Lengths
<1> QED
  BY <1>1, <1>2, <1>3, <1>4, CountsSplit

-----------------------------------------------------------------------------
(***************************************************************************)
(* The ledger balances, and so does the store                              *)
(***************************************************************************)
\* The ledger's own operators are those counts.
LEMMA CountsOfLedger ==
  ASSUME NEW R \in SUBSET Requests
  PROVE  /\ Ledger!Cardinality(Ledger!OutstandingTokens(R)) =
              Cardinality(Marks(Outstanding, R))
         /\ Ledger!Cardinality(Ledger!Waiting(R)) =
              Cardinality(Positive(Outstanding, R))
<1>1. Ledger!OutstandingTokens(R) = Marks(Outstanding, R)
  BY DEF Ledger!OutstandingTokens, Marks, Outstanding
<1>2. Ledger!Waiting(R) = Positive(Outstanding, R)
  BY DEF Ledger!Waiting, Positive, Outstanding
<1> QED
  BY <1>1, <1>2, Zenon DEF Cardinality, Ledger!Cardinality

\* What the ledger's types and balance say of the store.
LedgerInv ==
  /\ Outstanding \in Lengths
  /\ stats.injections \in Nat /\ stats.proposedTokens \in Nat
  /\ stats.resolved \in Nat
  /\ stats.accepted \in Nat /\ stats.rejected \in Nat
  /\ stats.unresolved \in Nat /\ stats.unresolvedTokens \in Nat
  /\ stats.injections = stats.resolved + stats.unresolved
                        + Cardinality(Positive(Outstanding, Requests))
  /\ stats.proposedTokens = stats.accepted + stats.rejected
                            + stats.unresolvedTokens
                            + Cardinality(Marks(Outstanding, Requests))

LEMMA LedgerInvMeaning == LedgerInv <=> Ledger!TypeOK /\ Ledger!Balanced
<1>1. Requests \in SUBSET Requests
  OBVIOUS
<1>2. /\ Ledger!Cardinality(Ledger!OutstandingTokens(Requests)) =
           Cardinality(Marks(Outstanding, Requests))
      /\ Ledger!Cardinality(Ledger!Waiting(Requests)) =
           Cardinality(Positive(Outstanding, Requests))
  BY <1>1, CountsOfLedger
<1>3. Outstanding \in Lengths <=>
        [r \in Requests |-> Len(requests[r].pending.tokens)] \in
          [Requests -> 0..MaxDraftTokens]
  BY DEF Outstanding, Lengths
<1> QED
  BY <1>2, <1>3 DEF LedgerInv, Ledger!TypeOK, Ledger!Balanced

LEMMA LedgerStartsBalanced ==
  ASSUME Ledger!Init
  PROVE  LedgerInv
<1>1. Outstanding = [r \in Requests |-> 0]
  BY DEF Ledger!Init, Outstanding
<1>2. Outstanding \in Lengths
  BY <1>1, LimitsAssumption DEF Lengths
<1>3. Marks(Outstanding, Requests) = {} /\ Positive(Outstanding, Requests) = {}
  BY <1>1, LimitsAssumption DEF Marks, Positive
<1>4. Cardinality({}) = 0
  BY FS_EmptySet
<1> QED
  BY <1>2, <1>3, <1>4 DEF Ledger!Init, LedgerInv

\* Each step of the ledger moves proposals and tokens from one column to another.
LEMMA LedgerStaysBalanced ==
  ASSUME LedgerInv, Ledger!Next \/ UNCHANGED Ledger!vars
  PROVE  LedgerInv'
<1>1. PICK f, g : f = Outstanding /\ g = Outstanding'
  OBVIOUS
<1>2. /\ f \in Lengths
      /\ Cardinality(Marks(f, Requests)) \in Nat
      /\ Cardinality(Positive(f, Requests)) \in Nat
  <2>1. f \in Lengths /\ Requests \in SUBSET Requests
    BY <1>1 DEF LedgerInv
  <2> QED
    BY <2>1, CountsAreFinite
<1>3. /\ stats.injections \in Nat /\ stats.proposedTokens \in Nat
      /\ stats.resolved \in Nat
      /\ stats.accepted \in Nat /\ stats.rejected \in Nat
      /\ stats.unresolved \in Nat /\ stats.unresolvedTokens \in Nat
      /\ stats.injections = stats.resolved + stats.unresolved
                            + Cardinality(Positive(f, Requests))
      /\ stats.proposedTokens = stats.accepted + stats.rejected
                                + stats.unresolvedTokens
                                + Cardinality(Marks(f, Requests))
  BY <1>1 DEF LedgerInv
<1>4. SUFFICES
        /\ g \in Lengths
        /\ stats'.injections \in Nat /\ stats'.proposedTokens \in Nat
        /\ stats'.resolved \in Nat
        /\ stats'.accepted \in Nat /\ stats'.rejected \in Nat
        /\ stats'.unresolved \in Nat /\ stats'.unresolvedTokens \in Nat
        /\ stats'.injections = stats'.resolved + stats'.unresolved
                               + Cardinality(Positive(g, Requests))
        /\ stats'.proposedTokens = stats'.accepted + stats'.rejected
                                   + stats'.unresolvedTokens
                                   + Cardinality(Marks(g, Requests))
  BY <1>1 DEF LedgerInv
<1>5. ASSUME NEW r \in Requests, NEW n \in 0..MaxDraftTokens, Ledger!Draft(r, n)
      PROVE  /\ g \in Lengths
             /\ Cardinality(Marks(g, Requests)) =
                  Cardinality(Marks(f, Requests)) - f[r] + n
             /\ Cardinality(Positive(g, Requests)) =
                  Cardinality(Positive(f, Requests))
                    - (IF f[r] > 0 THEN 1 ELSE 0) + (IF n > 0 THEN 1 ELSE 0)
             /\ stats'.injections = stats.injections + (IF n > 0 THEN 1 ELSE 0)
             /\ stats'.proposedTokens = stats.proposedTokens + n
             /\ f[r] \in Nat /\ n \in Nat
  <2>1. /\ Outstanding' = [Outstanding EXCEPT ![r] = n]
        /\ stats'.injections = stats.injections + (IF n > 0 THEN 1 ELSE 0)
        /\ stats'.proposedTokens = stats.proposedTokens + n
    BY <1>5 DEF Ledger!Draft, Outstanding
  <2>2. g = [f EXCEPT ![r] = n]
    BY <1>1, <2>1
  <2>3. f[r] \in Nat /\ n \in Nat
    BY <1>2, LimitsAssumption DEF Lengths
  <2>4. /\ g \in Lengths
        /\ Cardinality(Marks(g, Requests)) =
             Cardinality(Marks(f, Requests)) - f[r] + n
        /\ Cardinality(Positive(g, Requests)) =
             Cardinality(Positive(f, Requests))
               - (IF f[r] > 0 THEN 1 ELSE 0) + (IF n > 0 THEN 1 ELSE 0)
    BY <1>2, <2>2, OneLengthChanges, ZenonT(60)
  <2> QED
    BY <2>1, <2>3, <2>4
<1>6. ASSUME NEW r \in Requests, NEW n \in 0..MaxDraftTokens,
             Ledger!Propose(r, n)
      PROVE  <1>4!1
  <2>1. /\ f[r] = 0 /\ n > 0
        /\ Ledger!Draft(r, n)
        /\ stats'.resolved = stats.resolved
        /\ stats'.accepted = stats.accepted /\ stats'.rejected = stats.rejected
        /\ stats'.unresolved = stats.unresolved
        /\ stats'.unresolvedTokens = stats.unresolvedTokens
    BY <1>1, <1>6 DEF Ledger!Propose, Outstanding
  <2> QED
    BY <1>2, <1>3, <1>5, <2>1
<1>7. ASSUME NEW r \in Requests, NEW n \in 0..MaxDraftTokens,
             NEW a \in 0..MaxDraftTokens, Ledger!Settle(r, a, n)
      PROVE  <1>4!1
  <2>1. /\ f[r] > 0 /\ a <= f[r]
        /\ Ledger!Draft(r, n)
        /\ stats'.resolved = stats.resolved + 1
        /\ stats'.accepted = stats.accepted + a
        /\ stats'.rejected = stats.rejected + (f[r] - a)
        /\ stats'.unresolved = stats.unresolved
        /\ stats'.unresolvedTokens = stats.unresolvedTokens
    BY <1>1, <1>7 DEF Ledger!Settle, Outstanding
  <2>2. a \in Nat
    BY LimitsAssumption
  <2>3. /\ g \in Lengths
        /\ Cardinality(Marks(g, Requests)) =
             Cardinality(Marks(f, Requests)) - f[r] + n
        /\ Cardinality(Positive(g, Requests)) =
             Cardinality(Positive(f, Requests)) - 1 + (IF n > 0 THEN 1 ELSE 0)
        /\ stats'.injections = stats.injections + (IF n > 0 THEN 1 ELSE 0)
        /\ stats'.proposedTokens = stats.proposedTokens + n
        /\ f[r] \in Nat /\ n \in Nat
    BY <1>5, <2>1
  <2>4. CASE n > 0
    BY <1>2, <1>3, <2>1, <2>2, <2>3, <2>4
  <2>5. CASE ~(n > 0)
    BY <1>2, <1>3, <2>1, <2>2, <2>3, <2>5
  <2> QED
    BY <2>4, <2>5
<1>8. ASSUME NEW R \in SUBSET Requests, Ledger!Abandon(R)
      PROVE  <1>4!1
  <2>1. /\ Outstanding' =
             [r \in Requests |-> IF r \in R THEN 0 ELSE Outstanding[r]]
        /\ stats'.unresolved = stats.unresolved
             + Ledger!Cardinality(Ledger!Waiting(R))
        /\ stats'.unresolvedTokens = stats.unresolvedTokens
             + Ledger!Cardinality(Ledger!OutstandingTokens(R))
        /\ stats'.injections = stats.injections
        /\ stats'.proposedTokens = stats.proposedTokens
        /\ stats'.resolved = stats.resolved
        /\ stats'.accepted = stats.accepted /\ stats'.rejected = stats.rejected
    BY <1>8 DEF Ledger!Abandon, Outstanding
  <2>2. g = [r \in Requests |-> IF r \in R THEN 0 ELSE f[r]]
    BY <1>1, <2>1
  <2>3. /\ stats'.unresolved = stats.unresolved + Cardinality(Positive(f, R))
        /\ stats'.unresolvedTokens =
             stats.unresolvedTokens + Cardinality(Marks(f, R))
    BY <1>1, <2>1, CountsOfLedger
  <2>4. /\ g \in Lengths
        /\ Cardinality(Marks(f, Requests)) =
             Cardinality(Marks(g, Requests)) + Cardinality(Marks(f, R))
        /\ Cardinality(Positive(f, Requests)) =
             Cardinality(Positive(g, Requests)) + Cardinality(Positive(f, R))
    BY <1>2, <2>2, LengthsDropped
  <2>5. Requests \in SUBSET Requests
    OBVIOUS
  <2>6. /\ Cardinality(Marks(f, R)) \in Nat
        /\ Cardinality(Positive(f, R)) \in Nat
        /\ Cardinality(Marks(g, Requests)) \in Nat
        /\ Cardinality(Positive(g, Requests)) \in Nat
    BY <1>2, <2>4, <2>5, CountsAreFinite
  <2> QED
    BY <1>2, <1>3, <2>1, <2>3, <2>4, <2>6
<1>9. CASE UNCHANGED Ledger!vars
  <2>1. /\ Outstanding' = Outstanding
        /\ stats'.injections = stats.injections
        /\ stats'.proposedTokens = stats.proposedTokens
        /\ stats'.resolved = stats.resolved
        /\ stats'.accepted = stats.accepted /\ stats'.rejected = stats.rejected
        /\ stats'.unresolved = stats.unresolved
        /\ stats'.unresolvedTokens = stats.unresolvedTokens
    BY <1>9 DEF Ledger!vars, Outstanding
  <2> QED
    BY <1>1, <1>2, <1>3, <2>1
<1> QED
  BY <1>6, <1>7, <1>8, <1>9 DEF Ledger!Next

LEMMA LedgerKeepsInv == Ledger!Spec => []LedgerInv
<1>1. Ledger!Init => LedgerInv
  BY LedgerStartsBalanced
<1>2. LedgerInv /\ [Ledger!Next]_(Ledger!vars) => LedgerInv'
  BY LedgerStaysBalanced
<1> QED
  BY <1>1, <1>2, PTL DEF Ledger!Spec

\* Every behaviour of the ledger is well typed.
THEOREM LedgerTyped == Ledger!Spec => []Ledger!TypeOK
<1>1. LedgerInv => Ledger!TypeOK
  BY LedgerInvMeaning
<1> QED
  BY <1>1, LedgerKeepsInv, PTL

\* Every behaviour of the ledger balances: no proposal and no drafted token is
\* lost or counted twice (the counters of BoundaryDraftStore).
THEOREM LedgerBalances == Ledger!Spec => []Ledger!Balanced
<1>1. LedgerInv => Ledger!Balanced
  BY LedgerInvMeaning
<1> QED
  BY <1>1, LedgerKeepsInv, PTL

\* The ledger's balance is that of the store.
LEMMA BalanceMeaning ==
  ASSUME Inv, LedgerInv
  PROVE  LedgerBalanced
<1>1. {r \in Requests : Waiting(r)} = Positive(Outstanding, Requests)
  BY OutstandingFacts DEF Positive
<1>2. PendingTokens(Requests) = Marks(Outstanding, Requests)
  BY DEF PendingTokens, Marks, Outstanding
<1> QED
  BY <1>1, <1>2 DEF LedgerBalanced, LedgerInv

\* Every proposal and every drafted token is verified, handed back unresolved,
\* or pending, whatever the clients register and the engine asks for.
THEOREM StoreBalances == Spec => []LedgerBalanced
<1>1. Init => Inv
  BY InitEstablishesInv
<1>2. Inv /\ [Next]_vars => Inv'
  BY NextPreservesInv
<1>3. Spec => Ledger!Spec
  BY StoreImplementsLedger DEF ImplementsLedger
<1>4. Inv /\ LedgerInv => LedgerBalanced
  BY BalanceMeaning
<1> QED
  BY <1>1, <1>2, <1>3, <1>4, LedgerKeepsInv, PTL DEF Spec

-----------------------------------------------------------------------------
(***************************************************************************)
(* The origin of proposals: the invariant                                  *)
(***************************************************************************)
\* The candidate was made of this draft (_candidate).
MadeOf(c, d) ==
  /\ c.identity = d.identity
  /\ c.tokens = Take(d.tokens, MaxDraftTokens)
  /\ c.boundary = d.boundary
  /\ c.prompt = d.prompt

\* Every candidate of an entry was made of a registered draft.
Sourced(e) ==
  \A i \in DOMAIN e.candidates : \E d \in Drafts : MadeOf(e.candidates[i], d)

\* What ProposalExtendsDraft says of one proposal and the target's sequence.
Extends(p, tokens) ==
  \E d \in Drafts :
    d.identity = p.identity /\ Foretells(d, tokens, p.at, p.tokens)

OriginInv ==
  /\ Inv
  /\ \A r \in Requests : Sourced(requests[r])
  /\ ProposalExtendsDraft

LEMMA ExtendsMeaning ==
  ProposalExtendsDraft <=>
    \A r \in Requests : Waiting(r) => Extends(requests[r].pending, sequence[r])
BY DEF ProposalExtendsDraft, Extends

-----------------------------------------------------------------------------
(***************************************************************************)
(* The target's sequence                                                   *)
(***************************************************************************)
\* What was seen of a sequence is not changed by what comes after it.
LEMMA SeenIsKept ==
  ASSUME NEW S, NEW s \in Seq(S), NEW more \in Seq(S), NEW n \in Nat, n <= Len(s)
  PROVE  Take(s \o more, n) = Take(s, n)
<1>1. /\ s \o more \in Seq(S) /\ Len(s \o more) = Len(s) + Len(more)
      /\ Len(s) \in Nat /\ Len(more) \in Nat
      /\ \A i \in 1..Len(s) : (s \o more)[i] = s[i]
  BY ConcatProperties
<1>2. Take(s \o more, n) = SubSeq(s \o more, 1, n) /\ Take(s, n) = SubSeq(s, 1, n)
  BY <1>1 DEF Take, Least
<1>3. /\ SubSeq(s, 1, n) \in Seq(S) /\ Len(SubSeq(s, 1, n)) = n
      /\ \A i \in 1..n : SubSeq(s, 1, n)[i] = s[i]
  BY <1>1
<1>4. /\ SubSeq(s \o more, 1, n) \in Seq(S) /\ Len(SubSeq(s \o more, 1, n)) = n
      /\ \A i \in 1..n : SubSeq(s \o more, 1, n)[i] = (s \o more)[i]
  BY <1>1
<1>5. \A i \in 1..n : SubSeq(s, 1, n)[i] = SubSeq(s \o more, 1, n)[i]
  BY <1>1, <1>3, <1>4
<1> QED
  BY <1>2, <1>3, <1>4, <1>5, SeqEqual

\* So a proposal made earlier extends its draft as it did.
LEMMA ExtendsIsKept ==
  ASSUME NEW tokens \in Seq(Tokens), NEW more \in Seq(Tokens), NEW p,
         p.at \in Nat, p.at <= Len(tokens), Extends(p, tokens)
  PROVE  Extends(p, tokens \o more)
<1>1. Take(tokens \o more, p.at) = Take(tokens, p.at)
  BY SeenIsKept
<1> QED
  BY <1>1 DEF Extends, Foretells

-----------------------------------------------------------------------------
(***************************************************************************)
(* The proposal                                                            *)
(***************************************************************************)
\* A body that begins a draft, followed by what comes next in it, does too.
LEMMA BodyContinued ==
  ASSUME NEW S, NEW draft \in Seq(S), NEW body \in Seq(S), NEW limit \in Nat,
         Begins(body, draft)
  PROVE  Begins(body \o Take(SubSeq(draft, Len(body) + 1, Len(draft)), limit),
                draft)
<1> DEFINE rest == SubSeq(draft, Len(body) + 1, Len(draft))
<1>1. /\ Len(body) \in Nat /\ Len(draft) \in Nat /\ Len(body) <= Len(draft)
      /\ \A i \in 1..Len(body) : body[i] = draft[i]
  BY DEF Begins
<1>2. /\ rest \in Seq(S) /\ Len(rest) = Len(draft) - Len(body)
      /\ \A i \in 1..Len(rest) : rest[i] = draft[Len(body) + i]
  BY <1>1
<1> HIDE DEF rest
<1> DEFINE next == Take(rest, limit)
<1>3. /\ next \in Seq(S) /\ Len(next) \in Nat /\ Len(next) <= Len(rest)
      /\ \A i \in 1..Len(next) : next[i] = rest[i]
  <2>1. next \in Seq(S) /\ Len(next) = Least(limit, Len(rest))
    BY <1>2, TakeFacts
  <2>2. Least(limit, Len(rest)) \in Nat /\ Least(limit, Len(rest)) <= Len(rest)
    BY <1>2 DEF Least
  <2>3. next = SubSeq(rest, 1, Least(limit, Len(rest)))
    BY DEF Take
  <2> QED
    BY <1>2, <2>1, <2>2, <2>3
<1> HIDE DEF next
<1>4. /\ Len(body \o next) = Len(body) + Len(next)
      /\ \A i \in 1..(Len(body) + Len(next)) :
           (body \o next)[i] = IF i <= Len(body) THEN body[i]
                               ELSE next[i - Len(body)]
  BY <1>3, ConcatProperties
<1>5. ASSUME NEW i \in 1..(Len(body) + Len(next))
      PROVE  (body \o next)[i] = draft[i]
  <2>1. CASE i <= Len(body)
    BY <1>1, <1>4, <2>1
  <2>2. CASE i > Len(body)
    <3>1. i - Len(body) \in 1..Len(next) /\ i - Len(body) \in 1..Len(rest)
      BY <1>1, <1>3, <2>2
    <3>2. rest[i - Len(body)] = draft[Len(body) + (i - Len(body))]
      BY <1>2, <3>1
    <3>3. Len(body) + (i - Len(body)) = i
      BY <1>1
    <3> QED
      BY <1>1, <1>3, <1>4, <2>2, <3>1, <3>2, <3>3
  <2> QED
    BY <1>1, <2>1, <2>2
<1> QED
  BY <1>1, <1>2, <1>3, <1>4, <1>5 DEF Begins, next, rest

\* What a proposable candidate proposes extends the draft it was made of.
LEMMA ProposalExtends ==
  ASSUME NEW tokens \in Seq(Tokens), NEW c \in Candidate, NEW d \in Drafts,
         MadeOf(c, d), NEW limit \in Nat \ {0},
         Verdict(tokens, c, InjectWindow) = "proposable",
         NEW p, p.at = Len(tokens), p.identity = c.identity,
         p.tokens = Continuation(tokens, c, limit)
  PROVE  Extends(p, tokens)
<1> DEFINE generated == Generated(tokens, c.prompt)
           body == GeneratedBody(generated, c.boundary)
<1>1. Take(tokens, p.at) = tokens
  BY SubSeqFull DEF Take, Least
<1>2. /\ Occurrences(generated, c.boundary) # {}
      /\ Len(body) <= InjectWindow
      /\ Begins(body, c.tokens)
  BY DEF Verdict
<1>3. c.tokens \in Seq(Tokens) /\ c.boundary \in Seq(Tokens) /\ c.prompt \in Nat
  BY DEF Candidate
<1>4. body \in Seq(Tokens)
  BY <1>2, <1>3, BodyIsSequence
<1>5. p.tokens = Take(SubSeq(c.tokens, Len(body) + 1, Len(c.tokens)), limit)
  BY DEF Continuation
<1> HIDE DEF body, generated
<1>6. Begins(body \o p.tokens, c.tokens)
  BY <1>2, <1>3, <1>4, <1>5, BodyContinued
<1> QED
  BY <1>1, <1>2, <1>6 DEF Extends, Foretells, MadeOf, body, generated

-----------------------------------------------------------------------------
(***************************************************************************)
(* Entries                                                                 *)
(***************************************************************************)
\* Firing candidates leaves them made of what they were.
LEMMA FireKeepsSource ==
  ASSUME NEW e, IsEntry(e), Sourced(e), NEW I
  PROVE  /\ Sourced(Fire(e, I))
         /\ DOMAIN Fire(e, I).candidates = DOMAIN e.candidates
         /\ \A i \in DOMAIN e.candidates :
              Fire(e, I).candidates[i].identity = e.candidates[i].identity
<1> DEFINE f == [i \in DOMAIN e.candidates |->
                   [e.candidates[i] EXCEPT !.fired = @ \/ i \in I]]
<1>1. DOMAIN f = DOMAIN e.candidates
  OBVIOUS
<1>2. ASSUME NEW i \in DOMAIN e.candidates
      PROVE  /\ f[i].identity = e.candidates[i].identity
             /\ \E d \in Drafts : MadeOf(f[i], d)
  <2>1. e.candidates[i] \in Candidate
    BY DEF IsEntry, IsCatalogue
  <2>2. PICK d \in Drafts : MadeOf(e.candidates[i], d)
    BY DEF Sourced
  <2>3. /\ f[i].identity = e.candidates[i].identity
        /\ f[i].tokens = e.candidates[i].tokens
        /\ f[i].boundary = e.candidates[i].boundary
        /\ f[i].prompt = e.candidates[i].prompt
    BY <2>1 DEF Candidate
  <2> QED
    BY <2>2, <2>3 DEF MadeOf
<1>3. Fire(e, I).candidates = f
  BY DEF IsEntry, Fire
<1> HIDE DEF f
<1> QED
  BY <1>1, <1>2, <1>3 DEF Sourced

\* The candidates of a bundle are made of its drafts.
LEMMA BundleIsSource ==
  ASSUME NEW bundle \in Bundles, NEW previous
  PROVE  \A i \in DOMAIN Candidates(bundle, previous) :
           \E d \in Drafts : MadeOf(Candidates(bundle, previous)[i], d)
<1>1. bundle \in Seq(Drafts)
  BY DraftsAssumption
<1>2. ASSUME NEW i \in Firsts(bundle)
      PROVE  bundle[i] \in Drafts /\ MadeOf(Candidates(bundle, previous)[i], bundle[i])
  <2>1. bundle[i] \in Drafts
    BY <1>1 DEF Firsts
  <2> QED
    BY <2>1 DEF Candidates, MadeOf
<1>3. DOMAIN Candidates(bundle, previous) = Firsts(bundle)
  BY DEF Candidates
<1> QED
  BY <1>2, <1>3

\* What an offer starts from: a proposal that is still pending is the one that was.
LEMMA SettledSource ==
  ASSUME OriginInv, NEW r \in Requests,
         NEW u, u = SettleFromSequence(requests[r], sequence[r])
  PROVE  /\ IsEntry(u) /\ Sourced(u)
         /\ u.pending # NoPending => Extends(u.pending, sequence[r])
<1>1. /\ IsEntry(requests[r]) /\ sequence[r] \in Seq(Tokens)
      /\ stats \in Counters
  BY DEF OriginInv, Inv, Typed
<1>2. PICK v : v = CreditFromSequence(stats, requests[r], sequence[r])
  OBVIOUS
<1>3. /\ IsEntry(u) /\ u.candidates = requests[r].candidates
      /\ ~Due(requests[r], sequence[r]) => u = requests[r]
      /\ Due(requests[r], sequence[r]) => u.pending = NoPending
  BY <1>1, <1>2, SettleFromSequenceFacts
<1>4. Sourced(u)
  BY <1>3 DEF OriginInv, Sourced
<1>5. u.pending # NoPending => Extends(u.pending, sequence[r])
  BY <1>3, ExtendsMeaning DEF OriginInv, Waiting
<1> QED
  BY <1>3, <1>4, <1>5

-----------------------------------------------------------------------------
(***************************************************************************)
(* Every step preserves the invariant                                      *)
(***************************************************************************)
\* One entry changes, and its request's sequence at most grows.
LEMMA SourcedEntryChanged ==
  ASSUME OriginInv, Inv', NEW r \in Requests, NEW e,
         requests' = [requests EXCEPT ![r] = e], Sourced(e),
         NEW more \in Seq(Tokens),
         sequence' = [sequence EXCEPT ![r] = @ \o more],
         e.pending # NoPending => Extends(e.pending, sequence'[r])
  PROVE  OriginInv'
<1>1. /\ requests = [q \in Requests |-> requests[q]]
      /\ sequence \in [Requests -> Seq(Tokens)]
  BY DEF OriginInv, Inv, Typed
<1>2. /\ requests'[r] = e
      /\ \A q \in Requests \ {r} :
           requests'[q] = requests[q] /\ sequence'[q] = sequence[q]
  BY <1>1
<1>3. \A q \in Requests : Sourced(requests'[q])
  BY <1>2 DEF OriginInv
<1>4. ASSUME NEW q \in Requests, requests'[q].pending # NoPending
      PROVE  Extends(requests'[q].pending, sequence'[q])
  <2>1. CASE q = r
    BY <1>2, <1>4, <2>1
  <2>2. CASE q # r
    BY <1>2, <1>4, <2>2, ExtendsMeaning DEF OriginInv, Waiting
  <2> QED
    BY <2>1, <2>2
<1>5. ProposalExtendsDraft'
  BY <1>4 DEF ProposalExtendsDraft, Extends, Waiting
<1>6. \A q \in Requests : Sourced(requests[q])'
  BY <1>3 DEF Sourced
<1> QED
  BY <1>5, <1>6 DEF OriginInv

\* The sequence of a request stays as it is.
LEMMA SourcedEntryOnly ==
  ASSUME OriginInv, Inv', NEW r \in Requests, NEW e,
         requests' = [requests EXCEPT ![r] = e], Sourced(e),
         sequence' = sequence,
         e.pending # NoPending => Extends(e.pending, sequence[r])
  PROVE  OriginInv'
<1>1. sequence \in [Requests -> Seq(Tokens)]
  BY DEF OriginInv, Inv, Typed
<1>2. <<>> \in Seq(Tokens) /\ sequence[r] \o <<>> = sequence[r]
  BY <1>1, ConcatEmptySeq
<1>3. sequence' = [sequence EXCEPT ![r] = @ \o <<>>]
  BY <1>1, <1>2
<1> QED
  BY <1>2, <1>3, SourcedEntryChanged

LEMMA EmitKeepsOrigin ==
  ASSUME OriginInv, Inv', NEW r \in Requests, Emit(r)
  PROVE  OriginInv'
<1>1. /\ sequence[r] \in Seq(Tokens)
      /\ requests = [q \in Requests |-> requests[q]]
      /\ IsEntry(requests[r])
  BY DEF OriginInv, Inv, Typed
<1>2. PICK t \in Tokens : sequence' = [sequence EXCEPT ![r] = Append(@, t)]
  BY DEF Emit
<1>3. <<t>> \in Seq(Tokens) /\ Append(sequence[r], t) = sequence[r] \o <<t>>
  BY <1>1
<1>4. sequence' = [sequence EXCEPT ![r] = @ \o <<t>>]
  BY <1>2, <1>3
<1>5. sequence'[r] = sequence[r] \o <<t>>
  BY <1>4 DEF OriginInv, Inv, Typed
<1>6. requests' = [requests EXCEPT ![r] = requests[r]]
  BY <1>1 DEF Emit
<1>7. ASSUME requests[r].pending # NoPending
      PROVE  Extends(requests[r].pending, sequence'[r])
  <2>1. /\ requests[r].pending.at \in Nat
        /\ requests[r].pending.at <= Len(sequence[r])
    BY <1>1, <1>7 DEF OriginInv, Inv, Marked, Waiting, IsEntry, Proposal
  <2>2. Extends(requests[r].pending, sequence[r])
    BY <1>7, ExtendsMeaning DEF OriginInv, Waiting
  <2> QED
    BY <1>1, <1>3, <1>5, <2>1, <2>2, ExtendsIsKept
<1>8. Sourced(requests[r])
  BY DEF OriginInv
<1> QED
  BY <1>3, <1>4, <1>6, <1>7, <1>8, SourcedEntryChanged

LEMMA RegisterKeepsOrigin ==
  ASSUME OriginInv, Inv', NEW r \in Requests, NEW bundle \in Bundles,
         RegisterBundle(r, bundle)
  PROVE  OriginInv'
<1> DEFINE C == Candidates(bundle, requests[r])
           e == [requests[r] EXCEPT !.candidates = C]
<1>1. DOMAIN requests[r] = {"candidates", "lastOffer", "pending", "steps"}
  BY DEF OriginInv, Inv, Typed, IsEntry
<1>2. requests' = [requests EXCEPT ![r] = e] /\ sequence' = sequence
  BY DEF RegisterBundle
<1>3. \A i \in DOMAIN C : \E d \in Drafts : MadeOf(C[i], d)
  BY BundleIsSource
<1> HIDE DEF C
<1>4. e.candidates = C /\ e.pending = requests[r].pending
  BY <1>1
<1> HIDE DEF e
<1>5. Sourced(e)
  BY <1>3, <1>4 DEF Sourced
<1>6. e.pending # NoPending => Extends(e.pending, sequence[r])
  BY <1>4, ExtendsMeaning DEF OriginInv, Waiting
<1> QED
  BY <1>2, <1>5, <1>6, SourcedEntryOnly

LEMMA OfferRepeatedKeepsOrigin ==
  ASSUME OriginInv, Inv', NEW r \in Requests, OfferRepeated(r)
  PROVE  OriginInv'
<1>1. PICK u : u = SettleFromSequence(requests[r], sequence[r])
  OBVIOUS
<1>2. requests' = [requests EXCEPT ![r] = u] /\ sequence' = sequence
  BY <1>1 DEF OfferRepeated
<1> QED
  BY <1>1, <1>2, SettledSource, SourcedEntryOnly

LEMMA OfferNothingKeepsOrigin ==
  ASSUME OriginInv, Inv', NEW r \in Requests, OfferNothing(r)
  PROVE  OriginInv'
<1>1. PICK u : u = SettleFromSequence(requests[r], sequence[r])
  OBVIOUS
<1>2. PICK e : e = Scan(u, sequence[r])
  OBVIOUS
<1>3. requests' = [requests EXCEPT ![r] = e] /\ sequence' = sequence
  BY <1>1, <1>2 DEF OfferNothing
<1>4. /\ IsEntry(u) /\ Sourced(u)
      /\ u.pending # NoPending => Extends(u.pending, sequence[r])
  BY <1>1, SettledSource
<1>5. Sourced(e) /\ e.pending = u.pending
  BY <1>2, <1>4, FireKeepsSource, FireFacts DEF Scan
<1> QED
  BY <1>3, <1>4, <1>5, SourcedEntryOnly

LEMMA OfferProposalKeepsOrigin ==
  ASSUME OriginInv, Inv', NEW r \in Requests, NEW limit \in 1..MaxDraftTokens,
         OfferProposal(r, limit)
  PROVE  OriginInv'
<1>1. PICK u : u = SettleFromSequence(requests[r], sequence[r])
  OBVIOUS
<1> DEFINE tokens == sequence[r]
           P == Proposable(u, tokens)
           i == Min(P)
           c == u.candidates[i]
           scanned == Scan(u, tokens)
           e == Propose(scanned, i, Len(tokens), Continuation(tokens, c, limit))
<1>2. /\ P # {} /\ sequence' = sequence
      /\ requests' = [requests EXCEPT ![r] = e]
  BY <1>1 DEF OfferProposal
<1>3. IsEntry(u) /\ Sourced(u)
  BY <1>1, SettledSource
<1>4. P \subseteq DOMAIN u.candidates /\ P \in SUBSET Nat
  BY <1>3 DEF Proposable, Judged, IsEntry, IsCatalogue
<1>5. i \in P
  BY <1>2, <1>4, MinOfNaturals
<1> HIDE DEF i
<1>6. /\ i \in DOMAIN u.candidates /\ c \in Candidate
      /\ Verdict(tokens, c, InjectWindow) = "proposable"
  BY <1>3, <1>4, <1>5 DEF Proposable, Judged, IsEntry, IsCatalogue
<1>7. /\ IsEntry(scanned) /\ Sourced(scanned)
      /\ DOMAIN scanned.candidates = DOMAIN u.candidates
      /\ scanned.candidates[i].identity = c.identity
  BY <1>3, <1>6, FireFacts, FireKeepsSource DEF Scan
<1> HIDE DEF scanned
<1> DEFINE f == Fire(scanned, {i})
           p == [tokens |-> Continuation(tokens, c, limit), at |-> Len(tokens),
                 index |-> i, identity |-> scanned.candidates[i].identity]
<1>8. IsEntry(f) /\ Sourced(f)
  BY <1>7, FireFacts, FireKeepsSource
<1>9. e = [f EXCEPT !.lastOffer = Len(tokens), !.pending = p]
  BY DEF Propose
<1> HIDE DEF f, e
<1>10. e.candidates = f.candidates /\ e.pending = p
  <2>1. DOMAIN f = {"candidates", "lastOffer", "pending", "steps"}
    BY <1>8 DEF IsEntry
  <2> HIDE DEF p
  <2> QED
    BY <1>9, <2>1
<1>11. Sourced(e)
  BY <1>8, <1>10 DEF Sourced
<1>12. Extends(p, tokens)
  <2>1. PICK d \in Drafts : MadeOf(c, d)
    BY <1>3, <1>6 DEF Sourced
  <2>2. tokens \in Seq(Tokens) /\ limit \in Nat \ {0}
    BY DEF OriginInv, Inv, Typed
  <2>3. /\ p.at = Len(tokens) /\ p.identity = c.identity
        /\ p.tokens = Continuation(tokens, c, limit)
    BY <1>7
  <2> HIDE DEF p, c, tokens
  <2> QED
    BY <1>6, <2>1, <2>2, <2>3, ProposalExtends
<1> QED
  BY <1>2, <1>10, <1>11, <1>12, SourcedEntryOnly DEF e

LEMMA ObserveAcceptanceKeepsOrigin ==
  ASSUME OriginInv, Inv', NEW r \in Requests, ObserveAcceptance(r)
  PROVE  OriginInv'
<1>1. PICK n \in 0..Len(requests[r].pending.tokens), more \in Seq(Tokens) :
        /\ requests' = [requests EXCEPT ![r] = Settle(requests[r], n)]
        /\ sequence' = [sequence EXCEPT ![r] = @ \o more]
  BY ObserveAcceptanceFacts DEF OriginInv
<1>2. /\ Settle(requests[r], n).pending = NoPending
      /\ Settle(requests[r], n).candidates = requests[r].candidates
  BY SettleFacts DEF OriginInv, Inv, Typed, ObserveAcceptance, Waiting
<1>3. Sourced(Settle(requests[r], n))
  BY <1>2 DEF OriginInv, Sourced
<1> QED
  BY <1>1, <1>2, <1>3, SourcedEntryChanged

LEMMA AbandonKeepsOrigin ==
  ASSUME OriginInv, Inv', NEW R \in SUBSET Requests, Abandon(R)
  PROVE  OriginInv'
<1>1. /\ requests' = [q \in Requests |->
                       IF q \in R THEN NoRequest ELSE requests[q]]
      /\ sequence' = sequence
  BY DEF Abandon
<1>2. /\ NoRequest.pending = NoPending
      /\ NoRequest.candidates = <<>> /\ DOMAIN <<>> = {}
  BY NoRequestFacts DEF NoRequest
<1>3. ASSUME NEW q \in Requests
      PROVE  /\ Sourced(requests'[q])
             /\ requests'[q].pending # NoPending =>
                  Extends(requests'[q].pending, sequence[q])
  <2>1. CASE q \in R
    <3>1. requests'[q] = NoRequest
      BY <1>1, <2>1
    <3> QED
      BY <1>2, <3>1 DEF Sourced
  <2>2. CASE q \notin R
    <3>1. requests'[q] = requests[q]
      BY <1>1, <2>2
    <3> QED
      BY <3>1, ExtendsMeaning DEF OriginInv, Waiting
  <2> QED
    BY <2>1, <2>2
<1>4. ProposalExtendsDraft'
  BY <1>1, <1>3 DEF ProposalExtendsDraft, Extends, Waiting
<1>5. \A q \in Requests : Sourced(requests[q])'
  BY <1>3 DEF Sourced
<1> QED
  BY <1>4, <1>5 DEF OriginInv

LEMMA NextKeepsOrigin ==
  ASSUME OriginInv, Inv', [Next]_vars
  PROVE  OriginInv'
<1>1. ASSUME NEW r \in Requests, Emit(r)
      PROVE  OriginInv'
  BY <1>1, EmitKeepsOrigin
<1>2. ASSUME NEW r \in Requests, NEW bundle \in Bundles,
             RegisterBundle(r, bundle)
      PROVE  OriginInv'
  BY <1>2, RegisterKeepsOrigin
<1>3. ASSUME NEW r \in Requests, OfferRepeated(r)
      PROVE  OriginInv'
  BY <1>3, OfferRepeatedKeepsOrigin
<1>4. ASSUME NEW r \in Requests, OfferNothing(r)
      PROVE  OriginInv'
  BY <1>4, OfferNothingKeepsOrigin
<1>5. ASSUME NEW r \in Requests, NEW limit \in 1..MaxDraftTokens,
             OfferProposal(r, limit)
      PROVE  OriginInv'
  BY <1>5, OfferProposalKeepsOrigin
<1>6. ASSUME NEW r \in Requests, ObserveAcceptance(r)
      PROVE  OriginInv'
  BY <1>6, ObserveAcceptanceKeepsOrigin
<1>7. ASSUME NEW r \in Requests, TakeOutcome(r)
      PROVE  OriginInv'
  BY <1>7, AbandonKeepsOrigin DEF TakeOutcome
<1>8. CASE ClearAll
  BY <1>8, AbandonKeepsOrigin DEF ClearAll
<1>9. CASE UNCHANGED vars
  <2>1. requests' = requests /\ sequence' = sequence
    BY <1>9 DEF vars
  <2>2. ProposalExtendsDraft'
    BY <2>1 DEF OriginInv, ProposalExtendsDraft, Waiting
  <2>3. \A q \in Requests : Sourced(requests[q])'
    BY <2>1 DEF OriginInv, Sourced
  <2> QED
    BY <2>2, <2>3 DEF OriginInv
<1> QED
  BY <1>1, <1>2, <1>3, <1>4, <1>5, <1>6, <1>7, <1>8, <1>9 DEF Next

LEMMA InitEstablishesOrigin ==
  ASSUME Init
  PROVE  OriginInv
<1>1. \A r \in Requests : requests[r] = NoRequest
  BY DEF Init
<1>2. /\ NoRequest.pending = NoPending
      /\ NoRequest.candidates = <<>> /\ DOMAIN <<>> = {}
  BY NoRequestFacts DEF NoRequest
<1>3. \A r \in Requests : Sourced(requests[r])
  BY <1>1, <1>2 DEF Sourced
<1>4. ProposalExtendsDraft
  BY <1>1, <1>2 DEF ProposalExtendsDraft, Waiting
<1> QED
  BY <1>3, <1>4, InitEstablishesInv DEF OriginInv

\* What the verifier is offered goes on with a registered draft after what the
\* target wrote since a boundary it generated itself, whatever is registered,
\* replaced, settled and cleared in between (offer, _candidate,
\* _last_subsequence).
THEOREM ProposalsExtendDrafts == Spec => []ProposalExtendsDraft
<1>1. Init => OriginInv
  BY InitEstablishesOrigin
<1>2. OriginInv /\ [Next]_vars => OriginInv'
  BY NextKeepsOrigin, NextPreservesInv DEF OriginInv
<1>3. OriginInv => ProposalExtendsDraft
  BY DEF OriginInv
<1> QED
  BY <1>1, <1>2, <1>3, PTL DEF Spec

-----------------------------------------------------------------------------
(***************************************************************************)
(* The memory of an entry                                                  *)
(***************************************************************************)
\* An entry lists an identity once.
Distinct(e) ==
  \A i, j \in DOMAIN e.candidates :
    e.candidates[i].identity = e.candidates[j].identity => i = j

\* What ReplacementForgetsNothing says of one entry and the next, when the
\* target's sequence has n tokens.
Continues(o, e, n) ==
  /\ KeepsProposal(o, e)
  /\ o.lastOffer <= e.lastOffer
  /\ Spent(o) \cap Identities(e) \subseteq Spent(e)
  /\ (e.pending # NoPending /\ e.pending # o.pending) =>
       /\ e.pending.identity \in Spent(e) \ Spent(o)
       /\ o.lastOffer < n

\* Since an offer settles what is due before it looks at its length, the lengths
\* of offers only grow; since a bundle is deduplicated, one candidate cannot fire
\* in the place of another.
HistoryInv ==
  /\ Inv
  /\ \A r \in Requests :
       Distinct(requests[r]) /\ requests[r].lastOffer <= Len(sequence[r])

-----------------------------------------------------------------------------
(***************************************************************************)
(* Entries                                                                 *)
(***************************************************************************)
LEMMA ContinuesItself ==
  ASSUME NEW e, IsEntry(e), NEW n
  PROVE  Continues(e, e, n)
<1>1. e.lastOffer \in Int
  BY DEF IsEntry
<1> QED
  BY <1>1 DEF Continues, KeepsProposal

\* To settle a proposal adds it, as a step, to those that were.
LEMMA SettleAddsStep ==
  ASSUME NEW e, IsEntry(e), e.pending # NoPending,
         NEW a \in 0..Len(e.pending.tokens)
  PROVE  /\ VerificationStep(e.pending, a) \in Step
         /\ Settle(e, a).steps = Append(e.steps, VerificationStep(e.pending, a))
<1> DEFINE s == VerificationStep(e.pending, a)
<1>1. e.pending \in Proposal
  BY DEF IsEntry
<1>2. s \in Step
  BY <1>1 DEF Proposal, Step, VerificationStep
<1>3. Settle(e, a) = [e EXCEPT !.steps = Append(@, s), !.pending = NoPending]
  BY DEF Settle
<1> HIDE DEF s
<1>4. Settle(e, a).steps = Append(e.steps, s)
  BY <1>3 DEF IsEntry
<1> QED
  BY <1>2, <1>4 DEF s

LEMMA SettledContinues ==
  ASSUME NEW o, IsEntry(o), NEW tokens \in Seq(Tokens), NEW n,
         NEW u, u = SettleFromSequence(o, tokens)
  PROVE  /\ IsEntry(u) /\ Continues(o, u, n)
         /\ u.candidates = o.candidates /\ u.lastOffer = o.lastOffer
         /\ u.pending \in {NoPending, o.pending}
<1>1. CASE ~Due(o, tokens)
  BY <1>1, ContinuesItself DEF SettleFromSequence
<1>2. CASE Due(o, tokens)
  <2>1. o.pending # NoPending /\ o.pending \in Proposal
    BY <1>2 DEF Due, IsEntry
  <2>2. o.pending.tokens \in Seq(Tokens) /\ o.pending.at \in Nat
    BY <2>1 DEF Proposal
  <2>3. SubSeq(tokens, o.pending.at + 1, Len(tokens)) \in Seq(Tokens)
    BY <1>2, <2>2 DEF Due
  <2>4. Emitted(o, tokens) \in 0..Len(o.pending.tokens)
    BY <2>2, <2>3, CommonPrefixBound DEF Emitted
  <2>5. u = Settle(o, Emitted(o, tokens))
    BY <1>2 DEF SettleFromSequence
  <2>6. /\ IsEntry(u) /\ u.pending = NoPending
        /\ u.candidates = o.candidates /\ u.lastOffer = o.lastOffer
    BY <2>1, <2>4, <2>5, SettleFacts
  <2>7. KeepsProposal(o, u)
    BY <2>1, <2>4, <2>5, SettleAddsStep DEF KeepsProposal
  <2>8. o.lastOffer \in Int
    BY DEF IsEntry
  <2> QED
    BY <2>6, <2>7, <2>8 DEF Continues, Spent, Identities
<1> QED
  BY <1>1, <1>2

\* To fire candidates spends some more, and leaves their identities.
LEMMA FireSpends ==
  ASSUME NEW e, IsEntry(e), NEW I
  PROVE  /\ DOMAIN Fire(e, I).candidates = DOMAIN e.candidates
         /\ \A i \in DOMAIN e.candidates :
              /\ Fire(e, I).candidates[i].identity = e.candidates[i].identity
              /\ Fire(e, I).candidates[i].fired <=>
                   e.candidates[i].fired \/ i \in I
<1> DEFINE f == [i \in DOMAIN e.candidates |->
                   [e.candidates[i] EXCEPT !.fired = @ \/ i \in I]]
<1>1. Fire(e, I).candidates = f /\ DOMAIN f = DOMAIN e.candidates
  BY DEF IsEntry, Fire
<1>2. ASSUME NEW i \in DOMAIN e.candidates
      PROVE  /\ f[i].identity = e.candidates[i].identity
             /\ f[i].fired <=> e.candidates[i].fired \/ i \in I
  <2>1. e.candidates[i] \in Candidate
    BY DEF IsEntry, IsCatalogue
  <2> QED
    BY <2>1 DEF Candidate
<1> HIDE DEF f
<1> QED
  BY <1>1, <1>2

\* An entry that keeps its candidates but for what has fired.
LEMMA SpentGrows ==
  ASSUME NEW o, NEW e,
         DOMAIN e.candidates = DOMAIN o.candidates,
         \A i \in DOMAIN o.candidates :
           /\ e.candidates[i].identity = o.candidates[i].identity
           /\ o.candidates[i].fired => e.candidates[i].fired
  PROVE  /\ Spent(o) \subseteq Spent(e)
         /\ Distinct(o) => Distinct(e)
BY DEF Spent, Distinct

LEMMA FiredEntry ==
  ASSUME NEW e, IsEntry(e), NEW I
  PROVE  /\ Spent(e) \subseteq Spent(Fire(e, I))
         /\ Distinct(e) => Distinct(Fire(e, I))
<1>1. PICK f : f = Fire(e, I)
  OBVIOUS
<1>2. /\ DOMAIN f.candidates = DOMAIN e.candidates
      /\ \A i \in DOMAIN e.candidates :
           /\ f.candidates[i].identity = e.candidates[i].identity
           /\ e.candidates[i].fired => f.candidates[i].fired
  BY <1>1, FireSpends
<1> QED
  BY <1>1, <1>2, SpentGrows

\* A bundle lists an identity once, and knows what had fired.
LEMMA CandidatesKnow ==
  ASSUME NEW bundle \in Bundles, NEW o, IsEntry(o), NEW e,
         e.candidates = Candidates(bundle, o)
  PROVE  /\ Distinct(e)
         /\ Spent(o) \cap Identities(e) \subseteq Spent(e)
<1>1. /\ DOMAIN e.candidates = Firsts(bundle)
      /\ \A i \in Firsts(bundle) :
           /\ e.candidates[i].identity = bundle[i].identity
           /\ e.candidates[i].fired <=>
                \E j \in DOMAIN o.candidates :
                  /\ o.candidates[j].identity = bundle[i].identity
                  /\ o.candidates[j].fired
  BY DEF Candidates
<1>2. ASSUME NEW i \in Firsts(bundle), NEW j \in Firsts(bundle),
             bundle[i].identity = bundle[j].identity
      PROVE  i = j
  <2>1. bundle \in Seq(Drafts)
    BY DraftsAssumption
  <2>2. DOMAIN bundle = 1..Len(bundle) /\ Len(bundle) \in Nat
    BY <2>1
  <2>3. i \in 1..Len(bundle) /\ j \in 1..Len(bundle)
    BY <2>2 DEF Firsts
  <2>4. i \notin 1..(j - 1) /\ j \notin 1..(i - 1)
    BY <1>2 DEF Firsts
  <2> QED
    BY <2>2, <2>3, <2>4
<1>3. Distinct(e)
  BY <1>1, <1>2 DEF Distinct
<1>4. ASSUME NEW x \in Spent(o), x \in Identities(e)
      PROVE  x \in Spent(e)
  <2>1. PICK j \in DOMAIN o.candidates :
          o.candidates[j].fired /\ o.candidates[j].identity = x
    BY DEF Spent
  <2>2. PICK i \in Firsts(bundle) : e.candidates[i].identity = x
    BY <1>1, <1>4 DEF Identities
  <2>3. e.candidates[i].fired
    BY <1>1, <2>1, <2>2
  <2> QED
    BY <1>1, <2>2, <2>3 DEF Spent
<1> QED
  BY <1>3, <1>4

-----------------------------------------------------------------------------
(***************************************************************************)
(* Every step continues the entry it changes                               *)
(***************************************************************************)
\* What a step makes of the entry of a request.
Advances(r) ==
  \E e : /\ requests' = [requests EXCEPT ![r] = e]
         /\ Continues(requests[r], e, Len(sequence[r]))
         /\ Distinct(e)
         /\ e.lastOffer <= Len(sequence[r])

LEMMA RegisterAdvances ==
  ASSUME HistoryInv, NEW r \in Requests, NEW bundle \in Bundles,
         RegisterBundle(r, bundle)
  PROVE  Advances(r)
<1> DEFINE o == requests[r]
           e == [o EXCEPT !.candidates = Candidates(bundle, o)]
<1>1. IsEntry(o) /\ o.lastOffer <= Len(sequence[r])
  BY DEF HistoryInv, Inv, Typed
<1>2. requests' = [requests EXCEPT ![r] = e]
  BY DEF RegisterBundle
<1>3. /\ e.candidates = Candidates(bundle, o) /\ e.lastOffer = o.lastOffer
      /\ e.pending = o.pending /\ e.steps = o.steps
  BY <1>1 DEF IsEntry
<1> HIDE DEF e, o
<1>4. Distinct(e) /\ Spent(o) \cap Identities(e) \subseteq Spent(e)
  BY <1>1, <1>3, CandidatesKnow
<1>5. KeepsProposal(o, e) /\ o.lastOffer <= o.lastOffer
  BY <1>1, <1>3, ContinuesItself DEF Continues, KeepsProposal
<1>6. Continues(o, e, Len(sequence[r]))
  BY <1>3, <1>4, <1>5 DEF Continues
<1> QED
  BY <1>1, <1>2, <1>3, <1>4, <1>6 DEF Advances, o

LEMMA OfferRepeatedAdvances ==
  ASSUME HistoryInv, NEW r \in Requests, OfferRepeated(r)
  PROVE  Advances(r)
<1>1. PICK u : u = SettleFromSequence(requests[r], sequence[r])
  OBVIOUS
<1>2. requests' = [requests EXCEPT ![r] = u]
  BY <1>1 DEF OfferRepeated
<1>3. /\ IsEntry(requests[r]) /\ sequence[r] \in Seq(Tokens)
      /\ Distinct(requests[r]) /\ requests[r].lastOffer <= Len(sequence[r])
  BY DEF HistoryInv, Inv, Typed
<1>4. /\ Continues(requests[r], u, Len(sequence[r]))
      /\ u.candidates = requests[r].candidates
      /\ u.lastOffer = requests[r].lastOffer
  BY <1>1, <1>3, SettledContinues
<1>5. Distinct(u)
  BY <1>3, <1>4 DEF Distinct
<1> QED
  BY <1>2, <1>3, <1>4, <1>5 DEF Advances

LEMMA OfferNothingAdvances ==
  ASSUME HistoryInv, NEW r \in Requests, OfferNothing(r)
  PROVE  Advances(r)
<1>1. PICK u : u = SettleFromSequence(requests[r], sequence[r])
  OBVIOUS
<1>2. PICK e : e = Scan(u, sequence[r])
  OBVIOUS
<1>3. requests' = [requests EXCEPT ![r] = e]
  BY <1>1, <1>2 DEF OfferNothing
<1>4. /\ IsEntry(requests[r]) /\ sequence[r] \in Seq(Tokens)
      /\ Distinct(requests[r]) /\ requests[r].lastOffer <= Len(sequence[r])
  BY DEF HistoryInv, Inv, Typed
<1>5. /\ IsEntry(u) /\ Continues(requests[r], u, Len(sequence[r]))
      /\ u.candidates = requests[r].candidates
      /\ u.lastOffer = requests[r].lastOffer
      /\ u.pending \in {NoPending, requests[r].pending}
  BY <1>1, <1>4, SettledContinues
<1>6. /\ e.steps = u.steps /\ e.lastOffer = u.lastOffer
      /\ e.pending = u.pending
  BY <1>2, <1>5, FireFacts DEF Scan
<1>7. Spent(u) \subseteq Spent(e) /\ (Distinct(u) => Distinct(e))
  BY <1>2, <1>5, FiredEntry DEF Scan
<1>8. Distinct(u) /\ Spent(u) = Spent(requests[r])
  BY <1>4, <1>5 DEF Distinct, Spent
<1>9. Continues(requests[r], e, Len(sequence[r]))
  <2>1. KeepsProposal(requests[r], e)
    BY <1>5, <1>6 DEF Continues, KeepsProposal
  <2> QED
    BY <1>5, <1>6, <1>7, <1>8, <2>1 DEF Continues
<1> QED
  BY <1>3, <1>4, <1>5, <1>6, <1>7, <1>8, <1>9 DEF Advances

\* A proposal is made by a candidate that had not fired, at a length that had no
\* offer.
LEMMA OfferProposalAdvances ==
  ASSUME HistoryInv, NEW r \in Requests, NEW limit \in 1..MaxDraftTokens,
         OfferProposal(r, limit)
  PROVE  Advances(r)
<1>1. PICK u : u = SettleFromSequence(requests[r], sequence[r])
  OBVIOUS
<1> DEFINE o == requests[r]
           n == Len(sequence[r])
           P == Proposable(u, sequence[r])
           i == Min(P)
           w == Scan(u, sequence[r])
           f == Fire(w, {i})
           p == [tokens |-> Continuation(sequence[r], u.candidates[i], limit),
                 at |-> n, index |-> i, identity |-> w.candidates[i].identity]
           e == [f EXCEPT !.lastOffer = n, !.pending = p]
<1>2. /\ u.lastOffer # n /\ P # {}
      /\ requests' = [requests EXCEPT ![r] = e]
  BY <1>1 DEF OfferProposal, Propose
<1>3. /\ IsEntry(o) /\ sequence[r] \in Seq(Tokens) /\ n \in Nat
      /\ Distinct(o) /\ o.lastOffer <= n /\ o.lastOffer \in Int
  BY DEF HistoryInv, Inv, Typed, IsEntry
<1>4. /\ IsEntry(u) /\ Continues(o, u, n) /\ u.pending = NoPending
      /\ u.candidates = o.candidates /\ u.lastOffer = o.lastOffer
  BY <1>1, <1>2, <1>3, SettledContinues, SettledEntry DEF HistoryInv
<1>5. P \subseteq DOMAIN u.candidates /\ P \in SUBSET Nat
  BY <1>4 DEF Proposable, Judged, IsEntry, IsCatalogue
<1>6. i \in P
  BY <1>2, <1>5, MinOfNaturals
<1> HIDE DEF i
<1>7. i \in DOMAIN u.candidates /\ ~u.candidates[i].fired
  BY <1>6 DEF Proposable, Judged
<1>8. /\ IsEntry(w) /\ w.steps = u.steps
      /\ DOMAIN w.candidates = DOMAIN u.candidates
      /\ w.candidates[i].identity = u.candidates[i].identity
      /\ Spent(u) \subseteq Spent(w) /\ (Distinct(u) => Distinct(w))
  BY <1>4, <1>7, FireFacts, FireSpends, FiredEntry DEF Scan
<1> HIDE DEF w
<1>9. /\ IsEntry(f) /\ f.steps = w.steps
      /\ DOMAIN f.candidates = DOMAIN w.candidates
      /\ f.candidates[i].identity = w.candidates[i].identity
      /\ f.candidates[i].fired
      /\ Spent(w) \subseteq Spent(f) /\ (Distinct(w) => Distinct(f))
  BY <1>7, <1>8, FireFacts, FireSpends, FiredEntry
<1> HIDE DEF f
<1>10. p.identity = w.candidates[i].identity
  OBVIOUS
<1> HIDE DEF p
<1>11. /\ e.candidates = f.candidates /\ e.steps = f.steps
       /\ e.lastOffer = n /\ e.pending = p
  BY <1>9 DEF IsEntry
<1> HIDE DEF e
<1>12. Distinct(e) /\ Spent(e) = Spent(f)
  BY <1>3, <1>4, <1>8, <1>9, <1>11 DEF Distinct, Spent
<1>13. u.candidates[i].identity \notin Spent(o)
  BY <1>3, <1>4, <1>7 DEF Spent, Distinct
<1>14. u.candidates[i].identity \in Spent(e)
  BY <1>7, <1>8, <1>9, <1>12 DEF Spent
<1>15. Spent(o) \subseteq Spent(e)
  BY <1>4, <1>8, <1>9, <1>12 DEF Spent
<1>16. o.lastOffer < n
  BY <1>2, <1>3, <1>4
<1>17. Continues(o, e, n)
  <2>1. KeepsProposal(o, e)
    BY <1>4, <1>8, <1>9, <1>11 DEF Continues, KeepsProposal
  <2> QED
    BY <1>3, <1>4, <1>8, <1>9, <1>10, <1>11, <1>13, <1>14, <1>15, <1>16, <2>1
       DEF Continues
<1>18. /\ requests' = [requests EXCEPT ![r] = e]
       /\ Continues(requests[r], e, Len(sequence[r]))
       /\ Distinct(e) /\ e.lastOffer <= Len(sequence[r])
  BY <1>2, <1>3, <1>11, <1>12, <1>17
<1> QED
  BY <1>18, Zenon DEF Advances

LEMMA ObserveAcceptanceAdvances ==
  ASSUME HistoryInv, NEW r \in Requests, ObserveAcceptance(r)
  PROVE  Advances(r)
<1> DEFINE o == requests[r]
<1>1. PICK n \in 0..Len(o.pending.tokens) :
        requests' = [requests EXCEPT ![r] = Settle(o, n)]
  BY ObserveAcceptanceFacts DEF HistoryInv
<1>2. /\ IsEntry(o) /\ o.pending # NoPending /\ Distinct(o)
      /\ o.lastOffer <= Len(sequence[r]) /\ o.lastOffer \in Int
  BY DEF HistoryInv, Inv, Typed, IsEntry, ObserveAcceptance, Waiting
<1>3. /\ Settle(o, n).pending = NoPending
      /\ Settle(o, n).candidates = o.candidates
      /\ Settle(o, n).lastOffer = o.lastOffer
      /\ KeepsProposal(o, Settle(o, n))
  BY <1>2, SettleFacts, SettleAddsStep DEF KeepsProposal
<1>4. Continues(o, Settle(o, n), Len(sequence[r])) /\ Distinct(Settle(o, n))
  BY <1>2, <1>3 DEF Continues, Distinct, Spent, Identities
<1> QED
  BY <1>1, <1>2, <1>3, <1>4 DEF Advances

-----------------------------------------------------------------------------
(***************************************************************************)
(* The theorem                                                             *)
(***************************************************************************)
\* The body of ReplacementForgetsNothing.
Remembers ==
  \A r \in Requests : (Active(r) /\ Active(r)') =>
    Continues(requests[r], requests'[r], Len(sequence[r]))

\* Every step of one request advances its entry, forgets entries, or leaves them.
LEMMA NextAdvances ==
  ASSUME HistoryInv, [Next]_vars
  PROVE  \/ \E r \in Requests : Advances(r)
         \/ \E R \in SUBSET Requests : Abandon(R)
         \/ requests' = requests
<1>1. ASSUME NEW r \in Requests, Emit(r)
      PROVE  requests' = requests
  BY <1>1 DEF Emit
<1>2. ASSUME NEW r \in Requests, NEW bundle \in Bundles,
             RegisterBundle(r, bundle)
      PROVE  Advances(r)
  BY <1>2, RegisterAdvances
<1>3. ASSUME NEW r \in Requests, OfferRepeated(r)
      PROVE  Advances(r)
  BY <1>3, OfferRepeatedAdvances
<1>4. ASSUME NEW r \in Requests, OfferNothing(r)
      PROVE  Advances(r)
  BY <1>4, OfferNothingAdvances
<1>5. ASSUME NEW r \in Requests, NEW limit \in 1..MaxDraftTokens,
             OfferProposal(r, limit)
      PROVE  Advances(r)
  BY <1>5, OfferProposalAdvances
<1>6. ASSUME NEW r \in Requests, ObserveAcceptance(r)
      PROVE  Advances(r)
  BY <1>6, ObserveAcceptanceAdvances
<1>7. ASSUME NEW r \in Requests, TakeOutcome(r)
      PROVE  Abandon({r})
  BY <1>7 DEF TakeOutcome
<1>8. CASE ClearAll
  BY <1>8 DEF ClearAll
<1>9. CASE UNCHANGED vars
  BY <1>9 DEF vars
<1> QED
  BY <1>1, <1>2, <1>3, <1>4, <1>5, <1>6, <1>7, <1>8, <1>9 DEF Next

\* A target's sequence never gets shorter.
LEMMA SequenceGrows ==
  ASSUME Inv, Inv', [Next]_vars, NEW r \in Requests
  PROVE  Len(sequence[r]) <= Len(sequence'[r])
<1>1. /\ sequence \in [Requests -> Seq(Tokens)]
      /\ Len(sequence[r]) \in Nat
  BY DEF Inv, Typed
<1>2. ASSUME NEW q \in Requests, NEW more \in Seq(Tokens),
             sequence' = [sequence EXCEPT ![q] = @ \o more]
      PROVE  Len(sequence[r]) <= Len(sequence'[r])
  <2>1. /\ Len(sequence[r] \o more) = Len(sequence[r]) + Len(more)
        /\ Len(more) \in Nat
    BY <1>1, ConcatProperties
  <2> QED
    BY <1>1, <1>2, <2>1
<1>3. ASSUME NEW q \in Requests, Emit(q)
      PROVE  Len(sequence[r]) <= Len(sequence'[r])
  <2>1. PICK t \in Tokens : sequence' = [sequence EXCEPT ![q] = Append(@, t)]
    BY <1>3 DEF Emit
  <2>2. <<t>> \in Seq(Tokens) /\ Append(sequence[q], t) = sequence[q] \o <<t>>
    BY <1>1
  <2> QED
    BY <1>2, <2>1, <2>2
<1>4. ASSUME NEW q \in Requests, ObserveAcceptance(q)
      PROVE  Len(sequence[r]) <= Len(sequence'[r])
  BY <1>2, <1>4, ObserveAcceptanceFacts
<1>5. CASE sequence' = sequence
  BY <1>1, <1>5
<1> QED
  BY <1>3, <1>4, <1>5
     DEF Next, RegisterBundle, OfferRepeated, OfferNothing, OfferProposal,
         TakeOutcome, ClearAll, Abandon, vars

LEMMA NextKeepsHistory ==
  ASSUME HistoryInv, Inv', [Next]_vars
  PROVE  HistoryInv' /\ Remembers
<1>1. /\ requests = [q \in Requests |-> requests[q]]
      /\ \A q \in Requests : /\ Len(sequence[q]) \in Nat
                             /\ Len(sequence'[q]) \in Nat
                             /\ Len(sequence[q]) <= Len(sequence'[q])
                             /\ IsEntry(requests[q]) /\ Distinct(requests[q])
                             /\ requests[q].lastOffer <= Len(sequence[q])
                             /\ requests[q].lastOffer \in Int
                             /\ requests'[q].lastOffer \in Int
  BY SequenceGrows DEF HistoryInv, Inv, Typed, IsEntry
<1>2. SUFFICES ASSUME NEW q \in Requests
               PROVE  /\ Distinct(requests'[q])
                      /\ requests'[q].lastOffer <= Len(sequence[q])
                      /\ (Active(q) /\ Active(q)') =>
                           Continues(requests[q], requests'[q], Len(sequence[q]))
  <2>1. \A q \in Requests : /\ Distinct(requests[q])'
                            /\ requests'[q].lastOffer <= Len(sequence'[q])
    BY <1>1, <1>2 DEF Distinct
  <2> QED
    BY <1>2, <2>1 DEF HistoryInv, Remembers
<1>3. CASE requests'[q] = requests[q]
  BY <1>1, <1>3, ContinuesItself
<1>4. ASSUME NEW r \in Requests, Advances(r)
      PROVE  /\ Distinct(requests'[q])
             /\ requests'[q].lastOffer <= Len(sequence[q])
             /\ Continues(requests[q], requests'[q], Len(sequence[q]))
  <2>1. PICK e : /\ requests' = [requests EXCEPT ![r] = e]
                 /\ Continues(requests[r], e, Len(sequence[r]))
                 /\ Distinct(e)
                 /\ e.lastOffer <= Len(sequence[r])
    BY <1>4 DEF Advances
  <2>2. requests'[q] = IF q = r THEN e ELSE requests[q]
    BY <1>1, <2>1
  <2> QED
    BY <1>1, <2>1, <2>2, ContinuesItself
<1>5. ASSUME NEW R \in SUBSET Requests, Abandon(R), q \in R
      PROVE  /\ Distinct(requests'[q])
             /\ requests'[q].lastOffer <= Len(sequence[q])
             /\ ~Active(q)'
  <2>1. requests'[q] = NoRequest
    BY <1>5 DEF Abandon
  <2>2. /\ NoRequest.candidates = <<>> /\ DOMAIN <<>> = {}
        /\ NoRequest.lastOffer = -1
    BY DEF NoRequest
  <2> QED
    BY <1>1, <2>1, <2>2 DEF Distinct, Active
<1>6. ASSUME NEW R \in SUBSET Requests, Abandon(R), q \notin R
      PROVE  requests'[q] = requests[q]
  BY <1>6 DEF Abandon
<1> QED
  BY <1>3, <1>4, <1>5, <1>6, NextAdvances

LEMMA InitEstablishesHistory ==
  ASSUME Init
  PROVE  HistoryInv
<1>1. /\ NoRequest.candidates = <<>> /\ DOMAIN <<>> = {}
      /\ NoRequest.lastOffer = -1
  BY DEF NoRequest
<1>2. Inv /\ \A r \in Requests : requests[r] = NoRequest
  BY InitEstablishesInv DEF Init
<1>3. \A r \in Requests : Len(sequence[r]) \in Nat
  BY <1>2 DEF Inv, Typed
<1> QED
  BY <1>1, <1>2, <1>3 DEF HistoryInv, Distinct

\* However bundles replace each other, an entry that lives keeps its steps, its
\* pending proposal (which stays until it is the next of its steps), its last
\* offer and what has fired; so every proposal is made by a candidate that had
\* not fired, at a length that had no offer, for any drafts, bundles and limits
\* (register_bundle, offer, _resolve_pending).
THEOREM ReplacementKeepsHistory == Spec => ReplacementForgetsNothing
<1>1. Init => HistoryInv
  BY InitEstablishesHistory
<1>2. HistoryInv /\ [Next]_vars => HistoryInv' /\ Remembers
  BY NextKeepsHistory, NextPreservesInv DEF HistoryInv
<1>3. Remembers <=>
        \A r \in Requests : (Active(r) /\ Active(r)') =>
          /\ KeepsProposal(requests[r], requests'[r])
          /\ requests[r].lastOffer <= requests'[r].lastOffer
          /\ Spent(requests[r]) \cap Identities(requests'[r])
               \subseteq Spent(requests'[r])
          /\ (Waiting(r)' /\ requests'[r].pending # requests[r].pending) =>
               /\ requests'[r].pending.identity \in
                    Spent(requests'[r]) \ Spent(requests[r])
               /\ requests[r].lastOffer < Len(sequence[r])
  BY DEF Remembers, Continues, Waiting
<1> QED
  BY <1>1, <1>2, <1>3, PTL DEF Spec, ReplacementForgetsNothing

-----------------------------------------------------------------------------
(***************************************************************************)
(* Credit: the invariant                                                   *)
(***************************************************************************)
\* The last position a step credits, or the one before its first.
EndOf(s) == s.at + s.accepted

\* The steps credit positions up to n, each one behind the step before it.
Ordered(steps, n) ==
  /\ \A k \in DOMAIN steps : EndOf(steps[k]) <= n
  /\ \A j, k \in DOMAIN steps : j < k => EndOf(steps[j]) <= steps[k].at

\* A draft of the step's identity goes on with the tokens the step credits.
Drafted(s, tokens) ==
  \E d \in Drafts :
    /\ d.identity = s.identity
    /\ Foretells(d, tokens, s.at, SubSeq(tokens, s.at + 1, s.at + s.accepted))

\* The steps of an entry credit what a draft foretold and the target wrote, and
\* while a proposal is pending, only tokens before it.
Credited(e, tokens) ==
  /\ e.pending = NoPending => Ordered(e.steps, Len(tokens))
  /\ e.pending # NoPending =>
       Ordered(e.steps, e.pending.at) /\ e.pending.at <= Len(tokens)
  /\ \A k \in DOMAIN e.steps : Drafted(e.steps[k], tokens)

CreditInv ==
  OriginInv /\ \A r \in Requests : Credited(requests[r], sequence[r])

-----------------------------------------------------------------------------
(***************************************************************************)
(* Steps and the positions they credit                                     *)
(***************************************************************************)
LEMMA StepFacts ==
  ASSUME NEW e, IsEntry(e)
  PROVE  /\ e.steps \in Seq(Step)
         /\ e.pending # NoPending =>
              e.pending.at \in Nat /\ e.pending.tokens \in Seq(Tokens)
         /\ \A k \in DOMAIN e.steps :
              /\ e.steps[k].at \in Nat /\ e.steps[k].accepted \in Nat
              /\ EndOf(e.steps[k]) \in Nat
<1>1. e.steps \in Seq(Step) /\ e.pending \in Proposal \cup {NoPending}
  BY DEF IsEntry
<1>2. \A s \in Step : /\ s.at \in Nat /\ s.accepted \in Nat /\ EndOf(s) \in Nat
  BY DEF Step, EndOf
<1>3. \A k \in DOMAIN e.steps : e.steps[k] \in Step
  BY <1>1
<1> QED
  BY <1>1, <1>2, <1>3 DEF Proposal

\* What is behind a position is behind every later one.
LEMMA OrderedLater ==
  ASSUME NEW e, IsEntry(e), NEW m \in Nat, NEW n \in Nat, m <= n,
         Ordered(e.steps, m)
  PROVE  Ordered(e.steps, n)
<1>1. \A k \in DOMAIN e.steps : EndOf(e.steps[k]) \in Nat
  BY StepFacts
<1> QED
  BY <1>1 DEF Ordered

\* A step whose proposal was made behind the others goes after them.
LEMMA OrderedAppend ==
  ASSUME NEW steps \in Seq(Step), NEW s \in Step, Ordered(steps, s.at),
         NEW n \in Nat, EndOf(s) <= n
  PROVE  Ordered(Append(steps, s), n)
<1> DEFINE after == Append(steps, s)
<1>1. /\ Len(steps) \in Nat /\ DOMAIN steps = 1..Len(steps)
      /\ DOMAIN after = 1..(Len(steps) + 1) /\ after[Len(steps) + 1] = s
      /\ \A k \in 1..Len(steps) : after[k] = steps[k] /\ steps[k] \in Step
  OBVIOUS
<1>2. \A t \in Step : t.at \in Nat /\ t.accepted \in Nat
  BY DEF Step
<1>3. ASSUME NEW k \in 1..Len(steps)
      PROVE  EndOf(steps[k]) <= s.at /\ EndOf(steps[k]) <= n
  <2>1. steps[k].at \in Nat /\ steps[k].accepted \in Nat
    BY <1>1, <1>2
  <2>2. EndOf(steps[k]) <= s.at
    BY <1>1 DEF Ordered
  <2> QED
    BY <1>2, <2>1, <2>2 DEF EndOf
<1> HIDE DEF after
<1>4. ASSUME NEW k \in DOMAIN after
      PROVE  EndOf(after[k]) <= n
  BY <1>1, <1>3
<1>5. ASSUME NEW j \in DOMAIN after, NEW k \in DOMAIN after, j < k
      PROVE  EndOf(after[j]) <= after[k].at
  <2>1. j \in 1..Len(steps)
    BY <1>1, <1>5
  <2>2. CASE k = Len(steps) + 1
    BY <1>1, <1>3, <2>1, <2>2
  <2>3. CASE k \in 1..Len(steps)
    BY <1>1, <1>5, <2>1, <2>3 DEF Ordered
  <2> QED
    BY <1>1, <2>2, <2>3
<1>6. Ordered(after, n)
  BY <1>4, <1>5 DEF Ordered
<1> QED
  BY <1>6 DEF after

-----------------------------------------------------------------------------
(***************************************************************************)
(* Steps and the tokens they credit                                        *)
(***************************************************************************)
\* The n elements of a sequence behind its first m.
LEMMA SliceFacts ==
  ASSUME NEW S, NEW s \in Seq(S), NEW m \in Nat, NEW n \in Nat, m + n <= Len(s)
  PROVE  /\ SubSeq(s, m + 1, m + n) \in Seq(S)
         /\ Len(SubSeq(s, m + 1, m + n)) = n
         /\ \A i \in 1..n : SubSeq(s, m + 1, m + n)[i] = s[m + i]
<1>1. Len(s) \in Nat
  OBVIOUS
<1> QED
  BY <1>1

\* A slice of a sequence is not changed by what comes after it.
LEMMA SliceIsKept ==
  ASSUME NEW S, NEW s \in Seq(S), NEW more \in Seq(S),
         NEW m \in Nat, NEW n \in Nat, m + n <= Len(s)
  PROVE  SubSeq(s \o more, m + 1, m + n) = SubSeq(s, m + 1, m + n)
<1>1. /\ s \o more \in Seq(S) /\ Len(s \o more) = Len(s) + Len(more)
      /\ Len(s) \in Nat /\ Len(more) \in Nat
      /\ \A i \in 1..Len(s) : (s \o more)[i] = s[i]
  BY ConcatProperties
<1>2. /\ SubSeq(s, m + 1, m + n) \in Seq(S)
      /\ Len(SubSeq(s, m + 1, m + n)) = n
      /\ \A i \in 1..n : SubSeq(s, m + 1, m + n)[i] = s[m + i]
  BY SliceFacts
<1>3. /\ SubSeq(s \o more, m + 1, m + n) \in Seq(S)
      /\ Len(SubSeq(s \o more, m + 1, m + n)) = n
      /\ \A i \in 1..n : SubSeq(s \o more, m + 1, m + n)[i] = (s \o more)[m + i]
  BY <1>1
<1>4. \A i \in 1..n : m + i \in 1..Len(s)
  BY <1>1
<1>5. \A i \in 1..n :
        SubSeq(s, m + 1, m + n)[i] = SubSeq(s \o more, m + 1, m + n)[i]
  BY <1>1, <1>2, <1>3, <1>4
<1> QED
  BY <1>2, <1>3, <1>5, SeqEqual

\* So what a step credited is there as it was.
LEMMA DraftedLater ==
  ASSUME NEW tokens \in Seq(Tokens), NEW more \in Seq(Tokens), NEW s,
         s.at \in Nat, s.accepted \in Nat, EndOf(s) <= Len(tokens),
         Drafted(s, tokens)
  PROVE  Drafted(s, tokens \o more)
<1>1. SubSeq(tokens \o more, s.at + 1, s.at + s.accepted) =
        SubSeq(tokens, s.at + 1, s.at + s.accepted)
  BY SliceIsKept DEF EndOf
<1>2. Len(tokens) \in Nat /\ s.at <= Len(tokens)
  BY DEF EndOf
<1>3. Take(tokens \o more, s.at) = Take(tokens, s.at)
  BY <1>2, SeenIsKept
<1> QED
  BY <1>1, <1>3 DEF Drafted, Foretells

LEMMA CreditedLater ==
  ASSUME NEW e, IsEntry(e), NEW tokens \in Seq(Tokens), NEW more \in Seq(Tokens),
         Credited(e, tokens)
  PROVE  /\ Ordered(e.steps, Len(tokens))
         /\ Credited(e, tokens \o more)
<1>1. /\ Len(tokens \o more) = Len(tokens) + Len(more)
      /\ Len(tokens) \in Nat /\ Len(more) \in Nat
      /\ Len(tokens \o more) \in Nat /\ Len(tokens) <= Len(tokens \o more)
  BY ConcatProperties
<1>2. e.pending # NoPending => e.pending.at \in Nat
  BY StepFacts
<1>3. Ordered(e.steps, Len(tokens))
  BY <1>1, <1>2, OrderedLater DEF Credited
<1>4. ASSUME NEW k \in DOMAIN e.steps
      PROVE  Drafted(e.steps[k], tokens \o more)
  <2>1. e.steps[k].at \in Nat /\ e.steps[k].accepted \in Nat
    BY StepFacts
  <2>2. EndOf(e.steps[k]) <= Len(tokens) /\ Drafted(e.steps[k], tokens)
    BY <1>3 DEF Ordered, Credited
  <2> QED
    BY <2>1, <2>2, DraftedLater
<1>5. Ordered(e.steps, Len(tokens \o more))
  BY <1>1, <1>3, OrderedLater
<1>6. e.pending # NoPending =>
        Ordered(e.steps, e.pending.at) /\ e.pending.at <= Len(tokens \o more)
  BY <1>1, <1>2 DEF Credited
<1> QED
  BY <1>3, <1>4, <1>5, <1>6 DEF Credited

\* A draft that goes on with some tokens goes on with the first of them.
LEMMA PrefixForetold ==
  ASSUME NEW d \in Drafts, NEW tokens \in Seq(Tokens), NEW at \in Nat,
         NEW long \in Seq(Tokens), NEW short \in Seq(Tokens),
         Begins(short, long), Foretells(d, tokens, at, long)
  PROVE  Foretells(d, tokens, at, short)
<1> DEFINE seen == Take(tokens, at)
           generated == Generated(seen, d.prompt)
           body == GeneratedBody(generated, d.boundary)
           draft == Take(d.tokens, MaxDraftTokens)
<1>1. /\ Occurrences(generated, d.boundary) # {} /\ Len(body) <= InjectWindow
      /\ Begins(body \o long, draft)
  BY DEF Foretells
<1>2. /\ seen \in Seq(Tokens) /\ draft \in Seq(Tokens)
      /\ d.boundary \in Seq(Tokens) /\ d.prompt \in Nat
  BY TakeFacts, DraftsAssumption, LimitsAssumption
<1> HIDE DEF seen, draft
<1>3. body \in Seq(Tokens)
  BY <1>1, <1>2, BodyIsSequence
<1> HIDE DEF body, generated
<1>4. /\ Len(body \o long) = Len(body) + Len(long)
      /\ \A i \in 1..(Len(body) + Len(long)) :
           (body \o long)[i] = IF i <= Len(body) THEN body[i]
                               ELSE long[i - Len(body)]
  BY <1>3, ConcatProperties
<1>5. /\ Len(body \o short) = Len(body) + Len(short)
      /\ \A i \in 1..(Len(body) + Len(short)) :
           (body \o short)[i] = IF i <= Len(body) THEN body[i]
                                ELSE short[i - Len(body)]
  BY <1>3, ConcatProperties
<1>6. /\ Len(body) \in Nat /\ Len(short) \in Nat /\ Len(long) \in Nat
      /\ Len(short) <= Len(long) /\ Len(draft) \in Nat
      /\ \A i \in 1..Len(short) : short[i] = long[i]
  BY <1>2, <1>3 DEF Begins
<1>7. /\ Len(body) + Len(long) <= Len(draft)
      /\ \A i \in 1..(Len(body) + Len(long)) : (body \o long)[i] = draft[i]
  BY <1>1, <1>4 DEF Begins
<1>8. ASSUME NEW i \in 1..(Len(body) + Len(short))
      PROVE  (body \o short)[i] = draft[i]
  <2>1. i \in 1..(Len(body) + Len(long))
    BY <1>6
  <2>2. CASE i <= Len(body)
    BY <1>4, <1>5, <1>7, <2>1, <2>2
  <2>3. CASE i > Len(body)
    <3>1. i - Len(body) \in 1..Len(short)
      BY <1>6, <2>3
    <3>2. short[i - Len(body)] = long[i - Len(body)]
      BY <1>6, <3>1
    <3> QED
      BY <1>4, <1>5, <1>6, <1>7, <2>1, <2>3, <3>2
  <2> QED
    BY <1>6, <2>2, <2>3
<1>9. Begins(body \o short, draft)
  BY <1>5, <1>6, <1>7, <1>8 DEF Begins
<1> QED
  BY <1>1, <1>9 DEF Foretells, body, generated, seen, draft

\* What a sequence has from a position on, when it is what was proposed there.
LEMMA WrittenBegins ==
  ASSUME NEW tokens \in Seq(Tokens), NEW proposed \in Seq(Tokens),
         NEW at \in Nat, NEW a \in 0..Len(proposed), at + a <= Len(tokens),
         \A i \in 1..a : tokens[at + i] = proposed[i]
  PROVE  /\ SubSeq(tokens, at + 1, at + a) \in Seq(Tokens)
         /\ Begins(SubSeq(tokens, at + 1, at + a), proposed)
<1>1. a \in Nat /\ a <= Len(proposed) /\ Len(proposed) \in Nat
  OBVIOUS
<1> DEFINE written == SubSeq(tokens, at + 1, at + a)
<1>2. /\ written \in Seq(Tokens) /\ Len(written) = a
      /\ \A i \in 1..a : written[i] = tokens[at + i]
  BY <1>1, SliceFacts
<1> HIDE DEF written
<1>3. \A i \in 1..a : written[i] = proposed[i]
  BY <1>2
<1>4. Begins(written, proposed)
  BY <1>1, <1>2, <1>3 DEF Begins
<1> QED
  BY <1>2, <1>4 DEF written

\* Settling credits the first tokens of the proposal, which the target wrote
\* behind every token credited before.
LEMMA SettleCredits ==
  ASSUME NEW e, IsEntry(e), e.pending # NoPending,
         NEW a \in 0..Len(e.pending.tokens), a \in Nat,
         NEW tokens \in Seq(Tokens), e.pending.at + a <= Len(tokens),
         \A i \in 1..a : tokens[e.pending.at + i] = e.pending.tokens[i],
         Credited(e, tokens), Extends(e.pending, tokens)
  PROVE  Credited(Settle(e, a), tokens)
<1> DEFINE p == e.pending
           s == VerificationStep(p, a)
           after == Append(e.steps, s)
           written == SubSeq(tokens, p.at + 1, p.at + a)
<1>1. /\ e.steps \in Seq(Step) /\ p.at \in Nat /\ p.tokens \in Seq(Tokens)
      /\ Len(tokens) \in Nat
  BY StepFacts
<1>2. s \in Step /\ Settle(e, a).steps = after
  BY SettleAddsStep
<1>3. Settle(e, a).pending = NoPending
  BY SettleFacts
<1>4. s.at = p.at /\ s.accepted = a /\ s.identity = p.identity
  BY DEF VerificationStep
<1>5. Ordered(after, Len(tokens))
  <2>1. Ordered(e.steps, s.at) /\ EndOf(s) <= Len(tokens)
    BY <1>4 DEF Credited, EndOf
  <2> HIDE DEF s
  <2> QED
    BY <1>1, <1>2, <2>1, OrderedAppend
<1>6. Drafted(s, tokens)
  <2>1. written \in Seq(Tokens) /\ Begins(written, p.tokens)
    <3>1. e.pending.at \in Nat /\ e.pending.tokens \in Seq(Tokens)
      BY <1>1
    <3> QED
      BY <3>1, WrittenBegins
  <2> HIDE DEF written
  <2>4. PICK d \in Drafts :
          d.identity = p.identity /\ Foretells(d, tokens, p.at, p.tokens)
    BY DEF Extends
  <2>5. Foretells(d, tokens, p.at, written)
    BY <1>1, <2>1, <2>4, PrefixForetold
  <2> QED
    BY <1>4, <2>4, <2>5 DEF Drafted, written
<1>7. ASSUME NEW k \in DOMAIN after
      PROVE  Drafted(after[k], tokens)
  <2>1. /\ Len(e.steps) \in Nat /\ DOMAIN e.steps = 1..Len(e.steps)
        /\ k \in 1..(Len(e.steps) + 1) /\ after[Len(e.steps) + 1] = s
        /\ \A j \in 1..Len(e.steps) : after[j] = e.steps[j]
    BY <1>1, <1>2
  <2> HIDE DEF after, s
  <2>2. CASE k = Len(e.steps) + 1
    BY <1>6, <2>1, <2>2
  <2>3. CASE k \in 1..Len(e.steps)
    BY <2>1, <2>3 DEF Credited
  <2> QED
    BY <2>1, <2>2, <2>3
<1> QED
  BY <1>2, <1>3, <1>5, <1>7 DEF Credited

\* The start of an offer credits what the target emitted of the proposal, which
\* lies between the proposal and the end of the sequence.
LEMMA SettledIsCredited ==
  ASSUME NEW e, IsEntry(e), NEW tokens \in Seq(Tokens), Credited(e, tokens),
         e.pending # NoPending => Extends(e.pending, tokens),
         NEW u, u = SettleFromSequence(e, tokens)
  PROVE  Credited(u, tokens)
<1>1. CASE ~Due(e, tokens)
  BY <1>1 DEF SettleFromSequence
<1>2. CASE Due(e, tokens)
  <2> DEFINE written == SubSeq(tokens, e.pending.at + 1, Len(tokens))
  <2>1. /\ e.pending # NoPending /\ e.pending.tokens \in Seq(Tokens)
        /\ e.pending.at \in Nat
    BY <1>2, StepFacts DEF Due
  <2>2. Len(tokens) > e.pending.at /\ Len(tokens) \in Nat
    BY <1>2 DEF Due
  <2>3. /\ written \in Seq(Tokens) /\ Len(written) = Len(tokens) - e.pending.at
        /\ \A i \in 1..Len(written) : written[i] = tokens[e.pending.at + i]
    <3>1. PICK n \in Nat : n = Len(tokens) - e.pending.at
      BY <2>1, <2>2
    <3>2. e.pending.at + n = Len(tokens)
      BY <2>1, <2>2, <3>1
    <3>3. /\ SubSeq(tokens, e.pending.at + 1, e.pending.at + n) \in Seq(Tokens)
          /\ Len(SubSeq(tokens, e.pending.at + 1, e.pending.at + n)) = n
          /\ \A i \in 1..n :
               SubSeq(tokens, e.pending.at + 1, e.pending.at + n)[i] =
                 tokens[e.pending.at + i]
      <4>1. e.pending.at + n <= Len(tokens)
        BY <2>2, <3>2
      <4> QED
        BY <2>1, <4>1, SliceFacts, Zenon
    <3> QED
      BY <3>1, <3>2, <3>3
  <2> HIDE DEF written
  <2>4. PICK a \in 0..Len(e.pending.tokens) :
          /\ a = CommonPrefixLength(e.pending.tokens, written)
          /\ a <= Len(written)
          /\ \A i \in 1..a : e.pending.tokens[i] = written[i]
    <3>1. /\ CommonPrefixLength(e.pending.tokens, written)
               \in 0..Len(e.pending.tokens)
          /\ CommonPrefixLength(e.pending.tokens, written) <= Len(written)
          /\ \A i \in 1..CommonPrefixLength(e.pending.tokens, written) :
               e.pending.tokens[i] = written[i]
      <4>1. e.pending.tokens \in Seq(Tokens) /\ written \in Seq(Tokens)
        BY <2>1, <2>3
      <4> HIDE <2>1, <2>3
      <4> QED
        BY <4>1, CommonPrefixBound
    <3> QED
      BY <3>1, Zenon
  <2>5. a \in Nat /\ e.pending.at + a <= Len(tokens)
    BY <2>1, <2>2, <2>3, <2>4
  <2>6. \A i \in 1..a : tokens[e.pending.at + i] = e.pending.tokens[i]
    BY <2>3, <2>4, <2>5
  <2>7. u = Settle(e, a)
    BY <1>2, <2>4 DEF SettleFromSequence, Emitted, written
  <2> QED
    BY <2>1, <2>5, <2>6, <2>7, SettleCredits
<1> QED
  BY <1>1, <1>2

-----------------------------------------------------------------------------
(***************************************************************************)
(* Every step credits what was emitted                                     *)
(***************************************************************************)
\* One entry changes, and its request's sequence at most grows.
LEMMA CreditedEntryChanged ==
  ASSUME CreditInv, OriginInv', NEW r \in Requests, NEW e,
         requests' = [requests EXCEPT ![r] = e],
         NEW more \in Seq(Tokens),
         sequence' = [sequence EXCEPT ![r] = @ \o more],
         Credited(e, sequence[r] \o more)
  PROVE  CreditInv'
<1>1. /\ requests = [q \in Requests |-> requests[q]]
      /\ sequence \in [Requests -> Seq(Tokens)]
  BY DEF CreditInv, OriginInv, Inv, Typed
<1>2. ASSUME NEW q \in Requests
      PROVE  Credited(requests'[q], sequence'[q])
  <2>1. CASE q = r
    BY <1>1, <2>1
  <2>2. CASE q # r
    BY <1>1, <2>2 DEF CreditInv
  <2> QED
    BY <2>1, <2>2
<1>3. \A q \in Requests : Credited(requests[q], sequence[q])'
  BY <1>2 DEF Credited, Ordered, Drafted, Foretells
<1> QED
  BY <1>3 DEF CreditInv

\* The sequence of a request stays as it is.
LEMMA CreditedEntryOnly ==
  ASSUME CreditInv, OriginInv', NEW r \in Requests, NEW e,
         requests' = [requests EXCEPT ![r] = e], sequence' = sequence,
         Credited(e, sequence[r])
  PROVE  CreditInv'
<1>1. sequence \in [Requests -> Seq(Tokens)]
  BY DEF CreditInv, OriginInv, Inv, Typed
<1>2. <<>> \in Seq(Tokens) /\ sequence[r] \o <<>> = sequence[r]
  BY <1>1, ConcatEmptySeq
<1>3. sequence' = [sequence EXCEPT ![r] = @ \o <<>>]
  BY <1>1, <1>2
<1> QED
  BY <1>2, <1>3, CreditedEntryChanged

LEMMA CreditTypes ==
  ASSUME CreditInv, NEW r \in Requests
  PROVE  /\ IsEntry(requests[r]) /\ sequence[r] \in Seq(Tokens)
         /\ requests = [q \in Requests |-> requests[q]]
         /\ Credited(requests[r], sequence[r])
         /\ requests[r].pending # NoPending =>
              /\ Extends(requests[r].pending, sequence[r])
              /\ requests[r].pending.at \in Nat
              /\ requests[r].pending.at <= Len(sequence[r])
<1>1. /\ IsEntry(requests[r]) /\ sequence[r] \in Seq(Tokens)
      /\ requests = [q \in Requests |-> requests[q]]
      /\ Credited(requests[r], sequence[r])
  BY DEF CreditInv, OriginInv, Inv, Typed
<1>2. requests[r].pending # NoPending => Extends(requests[r].pending, sequence[r])
  BY ExtendsMeaning DEF CreditInv, OriginInv, Waiting
<1> QED
  BY <1>1, <1>2, StepFacts DEF Credited

LEMMA EmitKeepsCredit ==
  ASSUME CreditInv, OriginInv', NEW r \in Requests, Emit(r)
  PROVE  CreditInv'
<1>1. PICK t \in Tokens : sequence' = [sequence EXCEPT ![r] = Append(@, t)]
  BY DEF Emit
<1>2. sequence[r] \in Seq(Tokens) /\ sequence \in [Requests -> Seq(Tokens)]
  BY DEF CreditInv, OriginInv, Inv, Typed
<1>3. <<t>> \in Seq(Tokens) /\ Append(sequence[r], t) = sequence[r] \o <<t>>
  BY <1>2
<1>4. sequence' = [sequence EXCEPT ![r] = @ \o <<t>>]
  BY <1>1, <1>3
<1>5. requests' = [requests EXCEPT ![r] = requests[r]]
  BY CreditTypes DEF Emit
<1>6. Credited(requests[r], sequence[r] \o <<t>>)
  BY <1>3, CreditTypes, CreditedLater
<1> QED
  BY <1>3, <1>4, <1>5, <1>6, CreditedEntryChanged

LEMMA RegisterKeepsCredit ==
  ASSUME CreditInv, OriginInv', NEW r \in Requests, NEW bundle \in Bundles,
         RegisterBundle(r, bundle)
  PROVE  CreditInv'
<1>1. PICK C : C = Candidates(bundle, requests[r])
  OBVIOUS
<1>2. PICK e : e = [requests[r] EXCEPT !.candidates = C]
  OBVIOUS
<1>3. requests' = [requests EXCEPT ![r] = e] /\ sequence' = sequence
  BY <1>1, <1>2 DEF RegisterBundle
<1>4. e.pending = requests[r].pending /\ e.steps = requests[r].steps
  BY <1>2, CreditTypes DEF IsEntry
<1>5. Credited(e, sequence[r])
  BY <1>4, CreditTypes DEF Credited
<1> QED
  BY <1>3, <1>5, CreditedEntryOnly

\* Every offer starts from an entry that credits what was emitted so far.
LEMMA OfferStartsCredited ==
  ASSUME CreditInv, NEW r \in Requests,
         NEW u, u = SettleFromSequence(requests[r], sequence[r])
  PROVE  /\ IsEntry(u) /\ Len(sequence[r]) \in Nat
         /\ Credited(u, sequence[r])
         /\ u.lastOffer # Len(sequence[r]) => u.pending = NoPending
<1>1. Credited(u, sequence[r])
  BY CreditTypes, SettledIsCredited
<1> QED
  BY <1>1, SettledEntry DEF CreditInv, OriginInv

LEMMA OfferRepeatedKeepsCredit ==
  ASSUME CreditInv, OriginInv', NEW r \in Requests, OfferRepeated(r)
  PROVE  CreditInv'
<1>1. PICK u : u = SettleFromSequence(requests[r], sequence[r])
  OBVIOUS
<1>2. requests' = [requests EXCEPT ![r] = u] /\ sequence' = sequence
  BY <1>1 DEF OfferRepeated
<1> QED
  BY <1>1, <1>2, OfferStartsCredited, CreditedEntryOnly

LEMMA OfferNothingKeepsCredit ==
  ASSUME CreditInv, OriginInv', NEW r \in Requests, OfferNothing(r)
  PROVE  CreditInv'
<1>1. PICK u : u = SettleFromSequence(requests[r], sequence[r])
  OBVIOUS
<1>2. PICK e : e = Scan(u, sequence[r])
  OBVIOUS
<1>3. requests' = [requests EXCEPT ![r] = e] /\ sequence' = sequence
  BY <1>1, <1>2 DEF OfferNothing
<1>4. IsEntry(u) /\ Credited(u, sequence[r])
  BY <1>1, OfferStartsCredited
<1>5. e.pending = u.pending /\ e.steps = u.steps
  BY <1>2, <1>4, FireFacts DEF Scan
<1>6. Credited(e, sequence[r])
  BY <1>4, <1>5 DEF Credited
<1> QED
  BY <1>3, <1>6, CreditedEntryOnly

\* A proposal is made when all the steps are behind it.
LEMMA OfferProposalKeepsCredit ==
  ASSUME CreditInv, OriginInv', NEW r \in Requests,
         NEW limit \in 1..MaxDraftTokens, OfferProposal(r, limit)
  PROVE  CreditInv'
<1>1. PICK u : u = SettleFromSequence(requests[r], sequence[r])
  OBVIOUS
<1>2. PICK scanned, i, proposed :
        /\ scanned = Scan(u, sequence[r])
        /\ i = Min(Proposable(u, sequence[r]))
        /\ proposed = Continuation(sequence[r], u.candidates[i], limit)
  OBVIOUS
<1>3. PICK e : e = Propose(scanned, i, Len(sequence[r]), proposed)
  OBVIOUS
<1>4. /\ requests' = [requests EXCEPT ![r] = e] /\ sequence' = sequence
      /\ u.lastOffer # Len(sequence[r])
  BY <1>1, <1>2, <1>3 DEF OfferProposal
<1>5. /\ IsEntry(u) /\ Len(sequence[r]) \in Nat
      /\ Credited(u, sequence[r]) /\ u.pending = NoPending
  BY <1>1, <1>4, OfferStartsCredited
<1>6. IsEntry(scanned) /\ scanned.steps = u.steps
  BY <1>2, <1>5, FireFacts DEF Scan
<1>7. PICK fired : fired = Fire(scanned, {i})
  OBVIOUS
<1>8. IsEntry(fired) /\ fired.steps = u.steps
  BY <1>6, <1>7, FireFacts
<1>9. e.steps = u.steps /\ e.pending.at = Len(sequence[r])
  BY <1>3, <1>7, <1>8 DEF Propose, IsEntry
<1>10. Credited(e, sequence[r])
  BY <1>5, <1>9 DEF Credited
<1> QED
  BY <1>4, <1>10, CreditedEntryOnly

\* A report of the engine credits tokens that the sequence grows by.
LEMMA ObserveAcceptanceKeepsCredit ==
  ASSUME CreditInv, OriginInv', NEW r \in Requests, ObserveAcceptance(r)
  PROVE  CreditInv'
<1> DEFINE o == requests[r]
           tokens == sequence[r]
<1>1. /\ IsEntry(o) /\ o.pending # NoPending /\ o.pending.at = Len(tokens)
      /\ tokens \in Seq(Tokens) /\ Len(tokens) \in Nat
      /\ Credited(o, tokens) /\ Extends(o.pending, tokens)
      /\ o.pending.at \in Nat /\ o.pending.tokens \in Seq(Tokens)
  BY CreditTypes, StepFacts DEF ObserveAcceptance, Waiting
<1>2. PICK n \in 0..Len(o.pending.tokens), more \in Seq(Tokens) :
        /\ requests' = [requests EXCEPT ![r] = Settle(o, n)]
        /\ sequence' = [sequence EXCEPT ![r] = @ \o more]
        /\ n <= Len(more)
        /\ \A i \in 1..n : more[i] = o.pending.tokens[i]
  <2>1. Inv
    BY DEF CreditInv, OriginInv
  <2>2. PICK n \in 0..Len(o.pending.tokens) :
          /\ requests' = [requests EXCEPT ![r] = Settle(o, n)]
          /\ \E more \in Seq(Tokens) :
               /\ sequence' = [sequence EXCEPT ![r] = @ \o more]
               /\ n <= Len(more)
               /\ \A i \in 1..n : more[i] = o.pending.tokens[i]
    BY <2>1, ObserveAcceptanceFacts, Zenon
  <2> QED
    BY <2>2, Zenon
<1> HIDE DEF o, tokens
<1>3. n \in Nat
  BY <1>1
<1>4. /\ tokens \o more \in Seq(Tokens)
      /\ Len(tokens \o more) = Len(tokens) + Len(more) /\ Len(more) \in Nat
      /\ \A i \in 1..Len(more) : (tokens \o more)[Len(tokens) + i] = more[i]
  <2>1. /\ tokens \o more \in Seq(Tokens)
        /\ Len(tokens \o more) = Len(tokens) + Len(more) /\ Len(more) \in Nat
    BY <1>1, ConcatProperties
  <2>2. \A i \in 1..Len(more) : (tokens \o more)[Len(tokens) + i] = more[i]
    BY <1>1
  <2> QED
    BY <2>1, <2>2
<1>5. o.pending.at + n <= Len(tokens \o more)
  BY <1>1, <1>2, <1>3, <1>4
<1>6. \A i \in 1..n : (tokens \o more)[o.pending.at + i] = o.pending.tokens[i]
  BY <1>1, <1>2, <1>3, <1>4
<1>7. Credited(o, tokens \o more)
  BY <1>1, CreditedLater
<1>8. Extends(o.pending, tokens \o more)
  BY <1>1, ExtendsIsKept
<1>9. Credited(Settle(o, n), tokens \o more)
  BY <1>1, <1>3, <1>4, <1>5, <1>6, <1>7, <1>8, SettleCredits
<1> QED
  BY <1>2, <1>9, CreditedEntryChanged DEF o, tokens

\* An entry without steps credits nothing.
LEMMA NoRequestCredited ==
  ASSUME NEW tokens \in Seq(Tokens)
  PROVE  Credited(NoRequest, tokens)
<1>1. /\ NoRequest.steps = <<>> /\ NoRequest.pending = NoPending
      /\ DOMAIN <<>> = {}
  BY DEF NoRequest
<1> QED
  BY <1>1 DEF Credited, Ordered

LEMMA AbandonKeepsCredit ==
  ASSUME CreditInv, OriginInv', NEW R \in SUBSET Requests, Abandon(R)
  PROVE  CreditInv'
<1>1. ASSUME NEW q \in Requests
      PROVE  Credited(requests'[q], sequence'[q])
  <2>1. /\ requests'[q] = IF q \in R THEN NoRequest ELSE requests[q]
        /\ sequence' = sequence
    BY DEF Abandon
  <2>2. Credited(requests[q], sequence[q]) /\ sequence[q] \in Seq(Tokens)
    BY CreditTypes
  <2> QED
    BY <2>1, <2>2, NoRequestCredited
<1>2. \A q \in Requests : Credited(requests[q], sequence[q])'
  BY <1>1 DEF Credited, Ordered, Drafted, Foretells
<1> QED
  BY <1>2 DEF CreditInv

LEMMA NextKeepsCredit ==
  ASSUME CreditInv, OriginInv', [Next]_vars
  PROVE  CreditInv'
<1>1. ASSUME NEW r \in Requests, Emit(r)
      PROVE  CreditInv'
  BY <1>1, EmitKeepsCredit
<1>2. ASSUME NEW r \in Requests, NEW bundle \in Bundles,
             RegisterBundle(r, bundle)
      PROVE  CreditInv'
  BY <1>2, RegisterKeepsCredit
<1>3. ASSUME NEW r \in Requests, OfferRepeated(r)
      PROVE  CreditInv'
  BY <1>3, OfferRepeatedKeepsCredit
<1>4. ASSUME NEW r \in Requests, OfferNothing(r)
      PROVE  CreditInv'
  BY <1>4, OfferNothingKeepsCredit
<1>5. ASSUME NEW r \in Requests, NEW limit \in 1..MaxDraftTokens,
             OfferProposal(r, limit)
      PROVE  CreditInv'
  BY <1>5, OfferProposalKeepsCredit
<1>6. ASSUME NEW r \in Requests, ObserveAcceptance(r)
      PROVE  CreditInv'
  BY <1>6, ObserveAcceptanceKeepsCredit
<1>7. ASSUME NEW R \in SUBSET Requests, Abandon(R)
      PROVE  CreditInv'
  BY <1>7, AbandonKeepsCredit
<1>8. CASE UNCHANGED vars
  <2>1. requests' = requests /\ sequence' = sequence
    BY <1>8 DEF vars
  <2>2. \A q \in Requests : Credited(requests[q], sequence[q])'
    BY <2>1 DEF CreditInv, Credited, Ordered, Drafted, Foretells
  <2> QED
    BY <2>2 DEF CreditInv
<1> QED
  BY <1>1, <1>2, <1>3, <1>4, <1>5, <1>6, <1>7, <1>8
     DEF Next, TakeOutcome, ClearAll

\* Steps that are behind each other credit no position twice.
LEMMA CreditMeaning ==
  ASSUME CreditInv
  PROVE  NoTokenCreditedTwice
<1> SUFFICES ASSUME NEW r \in Requests, NEW k \in DOMAIN requests[r].steps
             PROVE  LET steps == requests[r].steps
                    IN /\ CreditedAt(steps[k]) \subseteq DOMAIN sequence[r]
                       /\ \E d \in Drafts :
                            /\ d.identity = steps[k].identity
                            /\ Foretells(d, sequence[r], steps[k].at,
                                 SubSeq(sequence[r], steps[k].at + 1,
                                        steps[k].at + steps[k].accepted))
                       /\ \A j \in DOMAIN steps \ {k} :
                            CreditedAt(steps[j]) \cap CreditedAt(steps[k]) = {}
  BY DEF NoTokenCreditedTwice
<1> DEFINE steps == requests[r].steps
<1>1. /\ sequence[r] \in Seq(Tokens) /\ Len(sequence[r]) \in Nat
      /\ DOMAIN sequence[r] = 1..Len(sequence[r])
      /\ IsEntry(requests[r]) /\ Credited(requests[r], sequence[r])
      /\ Ordered(steps, Len(sequence[r]))
  BY CreditTypes, CreditedLater
<1>2. /\ DOMAIN steps \subseteq Nat
      /\ \A j \in DOMAIN steps : steps[j].at \in Nat /\ steps[j].accepted \in Nat
  BY <1>1, StepFacts
<1>3. Drafted(steps[k], sequence[r])
  BY <1>1 DEF Credited
<1> HIDE DEF steps
<1>4. k \in DOMAIN steps
  BY DEF steps
<1>5. CreditedAt(steps[k]) \subseteq DOMAIN sequence[r]
  BY <1>1, <1>2, <1>4 DEF CreditedAt, Ordered, EndOf
<1>6. ASSUME NEW j \in DOMAIN steps, j # k
      PROVE  CreditedAt(steps[j]) \cap CreditedAt(steps[k]) = {}
  <2>1. j < k \/ k < j
    BY <1>2, <1>4, <1>6
  <2> QED
    BY <1>1, <1>2, <1>4, <2>1 DEF CreditedAt, Ordered, EndOf
<1> QED
  BY <1>3, <1>5, <1>6 DEF Drafted, steps

\* However often the engine offers a length again, reports, or is offered for
\* late, every position that a step credits was written by the target as a draft
\* of the step's identity foretold, and no position is credited by two steps
\* (_resolve_from_sequence, observe_acceptance).
THEOREM CreditIsGivenOnce == Spec => []NoTokenCreditedTwice
<1>1. Init => CreditInv
  <2> SUFFICES ASSUME Init PROVE CreditInv
    OBVIOUS
  <2>1. OriginInv /\ \A r \in Requests : requests[r] = NoRequest
    BY InitEstablishesOrigin DEF Init
  <2>2. \A r \in Requests : sequence[r] \in Seq(Tokens)
    BY <2>1 DEF OriginInv, Inv, Typed
  <2> QED
    BY <2>1, <2>2, NoRequestCredited DEF CreditInv
<1>2. CreditInv /\ [Next]_vars => CreditInv'
  BY NextKeepsCredit, NextKeepsOrigin, NextPreservesInv DEF CreditInv, OriginInv
<1>3. CreditInv => NoTokenCreditedTwice
  BY CreditMeaning
<1> QED
  BY <1>1, <1>2, <1>3, PTL DEF Spec

-----------------------------------------------------------------------------
(***************************************************************************)
(* The SGLang worker: its steps are steps of the store                     *)
(***************************************************************************)
\* To forget requests that have nothing changes nothing.
LEMMA AbandonNothing ==
  ASSUME Inv, NEW R \in SUBSET Requests, Abandon(R),
         \A r \in R : ~Active(r)
  PROVE  UNCHANGED vars
<1>1. /\ requests = [r \in Requests |-> requests[r]]
      /\ \A r \in R : requests[r] = NoRequest
  BY DEF Inv, Typed, Active
<1>2. requests' = [r \in Requests |-> IF r \in R THEN NoRequest ELSE requests[r]]
  BY DEF Abandon
<1>3. \A r \in Requests : requests'[r] = requests[r]
  BY <1>1, <1>2
<1>4. requests' = requests
  BY <1>1, <1>2, <1>3
<1>5. NoRequest.pending = NoPending /\ Len(NoPending.tokens) = 0
  BY NoRequestFacts DEF NoPending
<1>6. {r \in R : Waiting(r)} = {}
  BY <1>1, <1>5 DEF Waiting
<1>7. PendingTokens(R) = {}
  <2>1. ASSUME NEW m \in R \X (1..MaxDraftTokens)
        PROVE  ~(m[2] <= Len(requests[m[1]].pending.tokens))
    <3>1. m[1] \in R /\ m[2] \in 1..MaxDraftTokens
      OBVIOUS
    <3>2. Len(requests[m[1]].pending.tokens) = 0
      BY <1>1, <1>5, <3>1
    <3> QED
      BY <3>1, <3>2, LimitsAssumption
  <2> QED
    BY <2>1 DEF PendingTokens
<1>8. stats \in Counters
  BY DEF Inv, Typed
<1>9. stats' = [stats EXCEPT !.unresolved = @ + 0, !.unresolvedTokens = @ + 0]
  BY <1>6, <1>7, FS_EmptySet DEF Abandon
<1>10. stats' = stats
  <2>1. /\ stats.unresolved + 0 = stats.unresolved
        /\ stats.unresolvedTokens + 0 = stats.unresolvedTokens
    BY <1>8 DEF Counters
  <2>2. stats' = [stats EXCEPT !.unresolved = stats.unresolved,
                               !.unresolvedTokens = stats.unresolvedTokens]
    BY <1>9, <2>1
  <2> QED
    BY <1>8, <2>2 DEF Counters
<1> QED
  BY <1>4, <1>10 DEF Abandon, vars

\* A handler forgets one request, or all, whether they are there or not.
LEMMA AbandonIsStoreStep ==
  ASSUME Inv, NEW R \in SUBSET Requests, Abandon(R),
         R = Requests \/ \E r \in Requests : R = {r}
  PROVE  [Next]_vars
<1>1. CASE \A r \in R : ~Active(r)
  BY <1>1, AbandonNothing
<1>2. CASE \E r \in R : Active(r)
  <2>1. CASE R = Requests
    BY <1>2, <2>1 DEF ClearAll, Next
  <2>2. ASSUME NEW r \in Requests, R = {r}
        PROVE  Next
    BY <1>2, <2>2 DEF TakeOutcome, Next
  <2> QED
    BY <2>1, <2>2
<1> QED
  BY <1>1, <1>2

-----------------------------------------------------------------------------
(***************************************************************************)
(* The invariant                                                           *)
(***************************************************************************)
WorkerTyped ==
  /\ deferred \in [Requests -> Payloads \cup {None}]
  /\ latest \in [Requests -> Payloads \cup {None}]
  /\ control \in Calls \cup {None}
  /\ worker \in Preparations \cup {None}
  /\ control # None /\ control.op = "replace" => Counted(control.payload)

\* The bundle of r is where OnlyLatestBundle says it is.
Kept(r) ==
  IF latest[r] = None THEN deferred[r] = None /\ ~Active(r)
  ELSE IF deferred[r] # None THEN deferred[r] = latest[r] /\ ~Active(r)
  ELSE Identities(requests[r]) = PayloadIdentities(latest[r])

\* The handler under way is about r.
Concerns(r) == control # None /\ (control.op = "clear" \/ control.request = r)

\* The worker has popped the payload of r, and not registered it yet.
Popped(r) == worker # None /\ r \in DOMAIN worker.popped

\* What a handler has done when it is half-way.
HalfDone(r) ==
  /\ control.op \in {"defer", "replace"} => control.payload = latest[r]
  /\ control.op \in {"defer", "clear"} => ~Active(r)
  /\ control.op \in {"replace", "remove"} => deferred[r] = None

Promised(r) ==
  IF Concerns(r) THEN HalfDone(r)
  ELSE IF Popped(r)
       THEN /\ worker.popped[r] = latest[r] /\ r \in worker.left
            /\ deferred[r] = None /\ ~Active(r)
       ELSE Kept(r)

\* One handler at a time.
Serial == control = None \/ worker = None

WorkerInv ==
  /\ Inv /\ WorkerTyped
  /\ Serial
  /\ \A r \in Requests : Promised(r)

-----------------------------------------------------------------------------
(***************************************************************************)
(* Types                                                                   *)
(***************************************************************************)
LEMMA CallFacts ==
  ASSUME NEW c \in Calls
  PROVE  /\ c # None
         /\ c.op \in {"defer", "replace", "remove", "clear"}
         /\ c.op # "clear" => c.request \in Requests
         /\ c.op \in {"defer", "replace"} => c.payload \in Payloads
BY NoneAssumption DEF Calls

LEMMA PreparationFacts ==
  ASSUME NEW w \in Preparations
  PROVE  /\ w # None
         /\ w.left \in SUBSET Requests
         /\ w = [left |-> w.left, popped |-> w.popped]
         /\ DOMAIN w.popped \in SUBSET Requests
         /\ w.popped \in [DOMAIN w.popped -> Payloads]
<1>1. PICK R \in SUBSET Requests : w.popped \in [R -> Payloads]
  BY DEF Preparations
<1> QED
  BY <1>1, NoneAssumption DEF Preparations

\* A popped payload or none.
LEMMA IsPreparation ==
  ASSUME NEW left \in SUBSET Requests, NEW R \in SUBSET Requests,
         NEW popped \in [R -> Payloads]
  PROVE  [left |-> left, popped |-> popped] \in Preparations
<1>1. [R -> Payloads] \in {[S -> Payloads] : S \in SUBSET Requests}
  OBVIOUS
<1>2. popped \in UNION {[S -> Payloads] : S \in SUBSET Requests}
  BY <1>1
<1> QED
  BY <1>2 DEF Preparations

LEMMA InitEstablishesWorkerTyped ==
  ASSUME WorkerInit
  PROVE  WorkerTyped
BY DEF WorkerInit, WorkerTyped

LEMMA WorkerNextPreservesTypes ==
  ASSUME WorkerTyped, [WorkerNext]_workerVars
  PROVE  WorkerTyped'
<1> USE DEF WorkerTyped
<1>1. ASSUME NEW r \in Requests, NEW payload \in Payloads, BeginDefer(r, payload)
      PROVE  WorkerTyped'
  BY <1>1 DEF BeginDefer, Call, Calls
<1>2. ASSUME NEW r \in Requests, NEW payload \in Payloads,
             BeginReplace(r, payload)
      PROVE  WorkerTyped'
  BY <1>2 DEF BeginReplace, Call, Calls, Withdraw
<1>3. ASSUME NEW r \in Requests, BeginRemove(r)
      PROVE  WorkerTyped'
  BY <1>3 DEF BeginRemove, Call, Calls, Withdraw
<1>4. ASSUME NEW r \in Requests, RegisterDeferred(r)
      PROVE  WorkerTyped'
  <2> DEFINE popped == [q \in DOMAIN worker.popped \ {r} |-> worker.popped[q]]
  <2>1. worker \in Preparations
    BY <1>4 DEF RegisterDeferred
  <2>2. /\ worker.left \in SUBSET Requests
        /\ worker = [left |-> worker.left, popped |-> worker.popped]
        /\ DOMAIN worker.popped \in SUBSET Requests
        /\ worker.popped \in [DOMAIN worker.popped -> Payloads]
    BY <2>1, PreparationFacts
  <2>3. /\ DOMAIN worker.popped \ {r} \in SUBSET Requests
        /\ popped \in [DOMAIN worker.popped \ {r} -> Payloads]
    BY <2>2
  <2>4. worker' = [worker EXCEPT !.popped = popped]
    BY <1>4 DEF RegisterDeferred
  <2> HIDE DEF popped
  <2>5. worker' = [left |-> worker.left, popped |-> popped]
    BY <2>2, <2>4
  <2>6. worker' \in Preparations
    BY <2>2, <2>3, <2>5, IsPreparation
  <2> QED
    BY <1>4, <2>6 DEF RegisterDeferred
<1>5. ASSUME NEW r \in Requests, OfferTo(r)
      PROVE  WorkerTyped'
  <2>1. worker \in Preparations
    BY <1>5 DEF OfferTo
  <2>2. /\ worker.left \in SUBSET Requests
        /\ worker = [left |-> worker.left, popped |-> worker.popped]
        /\ DOMAIN worker.popped \in SUBSET Requests
        /\ worker.popped \in [DOMAIN worker.popped -> Payloads]
    BY <2>1, PreparationFacts
  <2>3. worker' = [worker EXCEPT !.left = worker.left \ {r}]
    BY <1>5 DEF OfferTo
  <2>4. worker' = [left |-> worker.left \ {r}, popped |-> worker.popped]
    BY <2>2, <2>3
  <2>5. worker' \in Preparations
    BY <2>2, <2>4, IsPreparation
  <2> QED
    BY <1>5, <2>5 DEF OfferTo
<1>6. ASSUME NEW r \in Requests, Extend(r)
      PROVE  WorkerTyped'
  BY <1>6 DEF Extend
<1>7. ASSUME NEW batch \in SUBSET Requests, BeginPrepare(batch)
      PROVE  WorkerTyped'
  <2> DEFINE R == {q \in batch : deferred[q] # None}
             popped == [r \in R |-> deferred[r]]
  <2>1. R \in SUBSET Requests /\ popped \in [R -> Payloads]
    OBVIOUS
  <2>2. worker' = [left |-> batch, popped |-> popped]
    BY <1>7 DEF BeginPrepare
  <2> HIDE DEF R, popped
  <2>3. worker' \in Preparations
    BY <2>1, <2>2, IsPreparation
  <2> QED
    BY <1>7, <2>3 DEF BeginPrepare, Withdraw
<1>8. CASE FinishDefer
  <2>1. control.payload \in Payloads
    BY <1>8, CallFacts DEF FinishDefer
  <2> QED
    BY <1>8, <2>1 DEF FinishDefer
<1>9. CASE FinishReplace
  BY <1>9 DEF FinishReplace
<1>10. CASE FinishRemove
  BY <1>10 DEF FinishRemove, Forget
<1>11. CASE BeginClearPool
  BY <1>11 DEF BeginClearPool, Call, Calls
<1>12. CASE FinishClearPool
  BY <1>12 DEF FinishClearPool, Forget, Withdraw
<1>13. CASE FinishPrepare
  BY <1>13 DEF FinishPrepare
<1>14. CASE UNCHANGED workerVars
  BY <1>14 DEF workerVars
<1> QED
  BY <1>1, <1>2, <1>3, <1>4, <1>5, <1>6, <1>7, <1>8, <1>9, <1>10, <1>11,
     <1>12, <1>13, <1>14 DEF WorkerNext

-----------------------------------------------------------------------------
(***************************************************************************)
(* The worker implements the store                                         *)
(***************************************************************************)
LEMMA WorkerStepIsStoreStep ==
  ASSUME Inv, WorkerTyped, [WorkerNext]_workerVars
  PROVE  [Next]_vars
<1> USE DEF storeVars, vars
<1>1. ASSUME NEW r \in Requests, NEW payload \in Payloads, BeginDefer(r, payload)
      PROVE  [Next]_vars
  BY <1>1, AbandonIsStoreStep DEF BeginDefer
<1>2. ASSUME NEW r \in Requests, NEW payload \in Payloads,
             BeginReplace(r, payload)
      PROVE  [Next]_vars
  BY <1>2 DEF BeginReplace
<1>3. ASSUME NEW r \in Requests, BeginRemove(r)
      PROVE  [Next]_vars
  BY <1>3 DEF BeginRemove
<1>4. ASSUME NEW r \in Requests, RegisterDeferred(r)
      PROVE  [Next]_vars
  <2>1. worker.popped[r] \in Payloads
    BY <1>4, PreparationFacts DEF RegisterDeferred, WorkerTyped
  <2>2. Resolve(worker.popped[r], PromptLength) \in Bundles
    BY <2>1, PayloadsAssumption
  <2> QED
    BY <1>4, <2>2 DEF RegisterDeferred, Next
<1>5. ASSUME NEW r \in Requests, OfferTo(r)
      PROVE  [Next]_vars
  <2>1. MaxDraftTokens \in 1..MaxDraftTokens
    BY LimitsAssumption
  <2> QED
    BY <1>5, <2>1 DEF OfferTo, Next
<1>6. ASSUME NEW r \in Requests, Extend(r)
      PROVE  [Next]_vars
  BY <1>6 DEF Extend, Next
<1>7. ASSUME NEW batch \in SUBSET Requests, BeginPrepare(batch)
      PROVE  [Next]_vars
  BY <1>7 DEF BeginPrepare
<1>8. CASE FinishDefer
  BY <1>8 DEF FinishDefer
<1>9. CASE FinishReplace
  <2>1. /\ control.request \in Requests
        /\ control.payload \in Payloads /\ Counted(control.payload)
    BY <1>9, CallFacts DEF FinishReplace, WorkerTyped
  <2>2. control.payload \in Bundles
    BY <2>1, PayloadsAssumption
  <2> QED
    BY <1>9, <2>1, <2>2 DEF FinishReplace, Next
<1>10. CASE FinishRemove
  <2>1. control.request \in Requests
    BY <1>10, CallFacts DEF FinishRemove, WorkerTyped
  <2> QED
    BY <1>10, <2>1, AbandonIsStoreStep DEF FinishRemove
<1>11. CASE BeginClearPool
  BY <1>11, AbandonIsStoreStep DEF BeginClearPool
<1>12. CASE FinishClearPool
  BY <1>12 DEF FinishClearPool
<1>13. CASE FinishPrepare
  BY <1>13 DEF FinishPrepare
<1>14. CASE UNCHANGED workerVars
  BY <1>14 DEF workerVars
<1> QED
  BY <1>1, <1>2, <1>3, <1>4, <1>5, <1>6, <1>7, <1>8, <1>9, <1>10, <1>11,
     <1>12, <1>13, <1>14 DEF WorkerNext

\* Whatever control calls arrive, and even when they overlap a preparation, the
\* worker uses its store as the store may be used: what it promises about
\* proposals it promises to the worker (_register_control, _prepare_draft_tokens,
\* _remove_external_corpus, _clear_cache_pool).
THEOREM WorkerImplementsStore == WorkerSpec => Spec /\ ImplementsLedger
<1>1. WorkerInit => Init /\ Inv /\ WorkerTyped
  BY InitEstablishesInv, InitEstablishesWorkerTyped DEF WorkerInit
<1>2. Inv /\ WorkerTyped /\ [WorkerNext]_workerVars
        => (Inv /\ WorkerTyped)' /\ [Next]_vars
  BY WorkerStepIsStoreStep, NextPreservesInv, WorkerNextPreservesTypes
<1> QED
  BY <1>1, <1>2, StoreImplementsLedger, PTL DEF WorkerSpec, Spec

\* So what the worker offers to the verifier extends a registered draft, whether
\* its payload was deferred or not.
THEOREM WorkerProposalsExtendDrafts == WorkerSpec => []ProposalExtendsDraft
BY WorkerImplementsStore, ProposalsExtendDrafts, PTL

-----------------------------------------------------------------------------
(***************************************************************************)
(* Identities                                                              *)
(***************************************************************************)
\* A bundle lists the candidates it names, each once.
LEMMA RegisteredIdentities ==
  ASSUME Inv, NEW r \in Requests, NEW bundle \in Bundles,
         RegisterBundle(r, bundle)
  PROVE  /\ Identities(requests'[r]) = PayloadIdentities(bundle)
         /\ \A q \in Requests \ {r} : requests'[q] = requests[q]
<1> DEFINE C == Candidates(bundle, requests[r])
<1>1. requests' = [requests EXCEPT ![r] = [requests[r] EXCEPT !.candidates = C]]
  BY DEF RegisterBundle
<1>2. /\ requests = [q \in Requests |-> requests[q]]
      /\ DOMAIN requests[r] = {"candidates", "lastOffer", "pending", "steps"}
  BY DEF Inv, Typed, IsEntry
<1>3. /\ DOMAIN C = Firsts(bundle)
      /\ \A i \in Firsts(bundle) : C[i].identity = bundle[i].identity
  BY DEF Candidates
<1> HIDE DEF C
<1>4. /\ requests'[r].candidates = C
      /\ \A q \in Requests \ {r} : requests'[q] = requests[q]
  BY <1>1, <1>2
<1>5. Identities(requests'[r]) = {bundle[i].identity : i \in Firsts(bundle)}
  BY <1>3, <1>4 DEF Identities
<1>6. ASSUME NEW i \in DOMAIN bundle
      PROVE  \E j \in Firsts(bundle) : bundle[j].identity = bundle[i].identity
  <2> DEFINE S == {j \in DOMAIN bundle : bundle[j].identity = bundle[i].identity}
  <2>1. bundle \in Seq(Drafts)
    BY DraftsAssumption
  <2>2. DOMAIN bundle = 1..Len(bundle) /\ Len(bundle) \in Nat
    BY <2>1
  <2>3. S \in SUBSET Nat /\ i \in S
    BY <2>2
  <2>4. Min(S) \in S /\ \A n \in S : Min(S) <= n
    BY <2>3, MinOfNaturals
  <2>5. PICK j \in S : \A n \in S : j <= n
    BY <2>4
  <2>6. \A k \in 1..(j - 1) : k \in DOMAIN bundle /\ k \notin S
    BY <2>2, <2>5
  <2>7. \A k \in 1..(j - 1) : bundle[k].identity # bundle[j].identity
    BY <2>5, <2>6
  <2> QED
    BY <2>5, <2>7 DEF Firsts
<1>7. Firsts(bundle) \subseteq DOMAIN bundle
  BY DEF Firsts
<1> QED
  BY <1>4, <1>5, <1>6, <1>7 DEF PayloadIdentities

\* To resolve a payload changes no identity.
LEMMA ResolvedIdentities ==
  ASSUME NEW payload \in Payloads
  PROVE  PayloadIdentities(Resolve(payload, PromptLength)) =
           PayloadIdentities(payload)
<1>1. DOMAIN Resolve(payload, PromptLength) = DOMAIN payload
  BY DEF Resolve
<1>2. ASSUME NEW i \in DOMAIN payload
      PROVE  Resolve(payload, PromptLength)[i].identity = payload[i].identity
  <2>1. "identity" \in DOMAIN payload[i]
    BY PayloadsAssumption
  <2> QED
    BY <2>1 DEF Resolve
<1> QED
  BY <1>1, <1>2 DEF PayloadIdentities

\* To fire candidates changes no identity.
LEMMA FireIdentities ==
  ASSUME NEW e, IsEntry(e), NEW I
  PROVE  Identities(Fire(e, I)) = Identities(e)
<1> DEFINE f == [i \in DOMAIN e.candidates |->
                   [e.candidates[i] EXCEPT !.fired = @ \/ i \in I]]
<1>1. DOMAIN f = DOMAIN e.candidates
  OBVIOUS
<1>2. ASSUME NEW i \in DOMAIN e.candidates
      PROVE  f[i].identity = e.candidates[i].identity
  <2>1. e.candidates[i] \in Candidate
    BY DEF IsEntry, IsCatalogue
  <2> QED
    BY <2>1 DEF Candidate
<1>3. DOMAIN e = {"candidates", "lastOffer", "pending", "steps"}
  BY DEF IsEntry
<1>4. Fire(e, I).candidates = f
  BY <1>3 DEF Fire
<1> HIDE DEF f
<1> QED
  BY <1>1, <1>2, <1>4 DEF Identities

\* An offer settles, fires and proposes; the entry goes on listing what it did.
LEMMA OfferIdentities ==
  ASSUME Inv, NEW r \in Requests,
         OfferRepeated(r) \/ OfferNothing(r) \/ OfferProposal(r, MaxDraftTokens)
  PROVE  /\ Active(r)
         /\ Identities(requests'[r]) = Identities(requests[r])
         /\ \A q \in Requests \ {r} : requests'[q] = requests[q]
<1>1. PICK u, v : /\ u = SettleFromSequence(requests[r], sequence[r])
                  /\ v = CreditFromSequence(stats, requests[r], sequence[r])
  OBVIOUS
<1>2. /\ requests = [q \in Requests |-> requests[q]]
      /\ IsEntry(requests[r]) /\ sequence[r] \in Seq(Tokens) /\ stats \in Counters
  BY DEF Inv, Typed
<1>3. IsEntry(u) /\ u.candidates = requests[r].candidates
  BY <1>1, <1>2, SettleFromSequenceFacts
<1>4. Identities(u) = Identities(requests[r])
  BY <1>3 DEF Identities
<1>5. /\ IsEntry(Scan(u, sequence[r]))
      /\ Identities(Scan(u, sequence[r])) = Identities(u)
  BY <1>3, FireFacts, FireIdentities DEF Scan
<1>6. ASSUME NEW i, NEW at, NEW proposed
      PROVE  Identities(Propose(Scan(u, sequence[r]), i, at, proposed)) =
               Identities(u)
  <2> DEFINE e == Scan(u, sequence[r])
  <2>1. /\ IsEntry(Fire(e, {i}))
        /\ Identities(Fire(e, {i})) = Identities(u)
    BY <1>5, FireFacts, FireIdentities
  <2>2. Propose(e, i, at, proposed).candidates = Fire(e, {i}).candidates
    <3>1. DOMAIN Fire(e, {i}) = {"candidates", "lastOffer", "pending", "steps"}
      BY <2>1 DEF IsEntry
    <3> QED
      BY <3>1 DEF Propose
  <2> QED
    BY <2>1, <2>2 DEF Identities
<1>7. PICK e : /\ requests' = [requests EXCEPT ![r] = e]
               /\ Identities(e) = Identities(u)
  BY <1>1, <1>5, <1>6 DEF OfferRepeated, OfferNothing, OfferProposal
<1>8. Active(r)
  BY DEF OfferRepeated, OfferNothing, OfferProposal
<1> QED
  BY <1>2, <1>4, <1>7, <1>8

-----------------------------------------------------------------------------
(***************************************************************************)
(* A request has the bundle of its last replacement                        *)
(***************************************************************************)
\* What a step that leaves a request alone keeps.
LEMMA PromisedUnchanged ==
  ASSUME NEW r \in Requests, Promised(r),
         requests'[r] = requests[r], deferred'[r] = deferred[r],
         latest'[r] = latest[r],
         ~Concerns(r), ~Concerns(r)',
         Popped(r)' <=> Popped(r),
         Popped(r) => /\ worker'.popped[r] = worker.popped[r]
                      /\ r \in worker.left => r \in worker'.left
  PROVE  Promised(r)'
BY DEF Promised, Kept, Active

\* A call finds nothing else under way.
LEMMA CallBegins ==
  ASSUME WorkerInv, Concurrent = FALSE, NEW c \in Calls, Call(c)
  PROVE  /\ control = None /\ worker = None
         /\ control' = c /\ c # None
         /\ \A q \in Requests : ~Concerns(q) /\ ~Popped(q)
BY CallFacts DEF WorkerInv, Call, Concerns, Popped

\* When a handler is under way, no preparation is, and nothing is popped.
LEMMA CallUnderWay ==
  ASSUME WorkerInv, control # None
  PROVE  /\ worker = None /\ control \in Calls
         /\ \A q \in Requests : ~Popped(q)
BY DEF WorkerInv, Serial, WorkerTyped, Popped

\* The functions of a typed state.
LEMMA WorkerFunctions ==
  ASSUME WorkerInv
  PROVE  /\ requests = [r \in Requests |-> requests[r]]
         /\ deferred = [r \in Requests |-> deferred[r]]
         /\ latest = [r \in Requests |-> latest[r]]
BY DEF WorkerInv, Inv, Typed, WorkerTyped

LEMMA BeginDeferKeepsPromise ==
  ASSUME WorkerInv, Concurrent = FALSE, NEW r \in Requests,
         NEW payload \in Payloads, BeginDefer(r, payload)
  PROVE  Serial' /\ \A q \in Requests : Promised(q)'
<1> DEFINE c == [op |-> "defer", request |-> r, payload |-> payload]
<1>1. c \in Calls /\ Call(c)
  BY DEF BeginDefer, Calls
<1>2. c.op = "defer" /\ c.request = r /\ c.payload = payload
  OBVIOUS
<1> HIDE DEF c
<1>3. /\ control = None /\ worker = None
      /\ control' = c /\ c # None
      /\ \A q \in Requests : ~Concerns(q) /\ ~Popped(q)
  BY <1>1, CallBegins
<1>4. /\ worker' = worker /\ deferred' = deferred
      /\ latest' = [latest EXCEPT ![r] = payload]
      /\ requests' = [q \in Requests |->
                        IF q \in {r} THEN NoRequest ELSE requests[q]]
  BY DEF BeginDefer, Abandon
<1>5. latest'[r] = payload /\ \A q \in Requests \ {r} : latest'[q] = latest[q]
  BY <1>4, WorkerFunctions
<1>6. Promised(r)'
  <2>1. Concerns(r)'
    BY <1>2, <1>3 DEF Concerns
  <2>2. HalfDone(r)'
    BY <1>2, <1>3, <1>4, <1>5 DEF HalfDone, Active
  <2> QED
    BY <2>1, <2>2 DEF Promised
<1>7. ASSUME NEW q \in Requests \ {r}
      PROVE  Promised(q)'
  <2>1. ~Concerns(q)'
    BY <1>2, <1>3 DEF Concerns
  <2>2. Popped(q)' <=> Popped(q)
    BY <1>4 DEF Popped
  <2>3. requests'[q] = requests[q] /\ deferred'[q] = deferred[q]
    BY <1>4
  <2> QED
    BY <1>3, <1>5, <2>1, <2>2, <2>3, PromisedUnchanged DEF WorkerInv
<1> QED
  BY <1>3, <1>4, <1>6, <1>7 DEF Serial

LEMMA BeginReplaceKeepsPromise ==
  ASSUME WorkerInv, Concurrent = FALSE, NEW r \in Requests,
         NEW payload \in Payloads, BeginReplace(r, payload)
  PROVE  Serial' /\ \A q \in Requests : Promised(q)'
<1> DEFINE c == [op |-> "replace", request |-> r, payload |-> payload]
<1>1. c \in Calls /\ Call(c)
  BY DEF BeginReplace, Calls
<1>2. c.op = "replace" /\ c.request = r /\ c.payload = payload
  OBVIOUS
<1> HIDE DEF c
<1>3. /\ control = None /\ worker = None
      /\ control' = c /\ c # None
      /\ \A q \in Requests : ~Concerns(q) /\ ~Popped(q)
  BY <1>1, CallBegins
<1>4. /\ worker' = worker /\ requests' = requests
      /\ latest' = [latest EXCEPT ![r] = payload]
      /\ deferred' = [q \in Requests |-> IF q \in {r} THEN None ELSE deferred[q]]
  BY DEF BeginReplace, Withdraw, storeVars
<1>5. latest'[r] = payload /\ \A q \in Requests \ {r} : latest'[q] = latest[q]
  BY <1>4, WorkerFunctions
<1>6. Promised(r)'
  <2>1. Concerns(r)'
    BY <1>2, <1>3 DEF Concerns
  <2>2. HalfDone(r)'
    BY <1>2, <1>3, <1>4, <1>5 DEF HalfDone
  <2> QED
    BY <2>1, <2>2 DEF Promised
<1>7. ASSUME NEW q \in Requests \ {r}
      PROVE  Promised(q)'
  <2>1. ~Concerns(q)'
    BY <1>2, <1>3 DEF Concerns
  <2>2. Popped(q)' <=> Popped(q)
    BY <1>4 DEF Popped
  <2>3. requests'[q] = requests[q] /\ deferred'[q] = deferred[q]
    BY <1>4
  <2> QED
    BY <1>3, <1>5, <2>1, <2>2, <2>3, PromisedUnchanged DEF WorkerInv
<1> QED
  BY <1>3, <1>4, <1>6, <1>7 DEF Serial

LEMMA BeginRemoveKeepsPromise ==
  ASSUME WorkerInv, Concurrent = FALSE, NEW r \in Requests, BeginRemove(r)
  PROVE  Serial' /\ \A q \in Requests : Promised(q)'
<1> DEFINE c == [op |-> "remove", request |-> r]
<1>1. c \in Calls /\ Call(c)
  BY DEF BeginRemove, Calls
<1>2. c.op = "remove" /\ c.request = r
  OBVIOUS
<1> HIDE DEF c
<1>3. /\ control = None /\ worker = None
      /\ control' = c /\ c # None
      /\ \A q \in Requests : ~Concerns(q) /\ ~Popped(q)
  BY <1>1, CallBegins
<1>4. /\ worker' = worker /\ requests' = requests /\ latest' = latest
      /\ deferred' = [q \in Requests |-> IF q \in {r} THEN None ELSE deferred[q]]
  BY DEF BeginRemove, Withdraw, storeVars
<1>5. Promised(r)'
  <2>1. Concerns(r)'
    BY <1>2, <1>3 DEF Concerns
  <2>2. HalfDone(r)'
    BY <1>2, <1>3, <1>4 DEF HalfDone
  <2> QED
    BY <2>1, <2>2 DEF Promised
<1>6. ASSUME NEW q \in Requests \ {r}
      PROVE  Promised(q)'
  <2>1. ~Concerns(q)'
    BY <1>2, <1>3 DEF Concerns
  <2>2. Popped(q)' <=> Popped(q)
    BY <1>4 DEF Popped
  <2>3. deferred'[q] = deferred[q]
    BY <1>4
  <2> QED
    BY <1>3, <1>4, <2>1, <2>2, <2>3, PromisedUnchanged DEF WorkerInv
<1> QED
  BY <1>3, <1>4, <1>5, <1>6 DEF Serial

LEMMA BeginClearPoolKeepsPromise ==
  ASSUME WorkerInv, Concurrent = FALSE, BeginClearPool
  PROVE  Serial' /\ \A q \in Requests : Promised(q)'
<1> DEFINE c == [op |-> "clear"]
<1>1. c \in Calls /\ Call(c) /\ c.op = "clear"
  BY DEF BeginClearPool, Calls
<1> HIDE DEF c
<1>2. /\ worker = None /\ control' = c /\ c # None /\ worker' = worker
  BY <1>1, CallBegins DEF BeginClearPool
<1>3. ASSUME NEW q \in Requests
      PROVE  Promised(q)'
  <2>1. Concerns(q)'
    BY <1>1, <1>2 DEF Concerns
  <2>2. requests'[q] = NoRequest
    BY DEF BeginClearPool, Abandon
  <2>3. HalfDone(q)'
    BY <1>1, <1>2, <2>2 DEF HalfDone, Active
  <2> QED
    BY <2>1, <2>3 DEF Promised
<1> QED
  BY <1>2, <1>3 DEF Serial

\* A handler under way is about one request, which ends as it was meant to.
LEMMA FinishDeferKeepsPromise ==
  ASSUME WorkerInv, FinishDefer
  PROVE  Serial' /\ \A q \in Requests : Promised(q)'
<1>1. PICK r \in Requests, payload \in Payloads :
        /\ control # None /\ control.op = "defer"
        /\ control.request = r /\ control.payload = payload
  BY CallUnderWay, CallFacts DEF FinishDefer
<1>2. worker = None /\ \A q \in Requests : ~Popped(q)
  BY <1>1, CallUnderWay
<1>3. /\ control' = None /\ worker' = worker /\ requests' = requests
      /\ latest' = latest
      /\ deferred' = [deferred EXCEPT ![r] = payload]
  BY <1>1 DEF FinishDefer, storeVars
<1>4. \A q \in Requests : ~Concerns(q)' /\ ~Popped(q)'
  BY <1>2, <1>3 DEF Concerns, Popped
<1>5. /\ deferred'[r] = payload
      /\ \A q \in Requests \ {r} : deferred'[q] = deferred[q]
  BY <1>3, WorkerFunctions
<1>6. Promised(r)'
  <2>1. Concerns(r) /\ Promised(r)
    BY <1>1 DEF Concerns, WorkerInv
  <2>2. payload = latest[r] /\ ~Active(r)
    BY <1>1, <2>1 DEF Promised, HalfDone
  <2>3. Kept(r)'
    BY <1>3, <1>5, <2>2, NoneAssumption DEF Kept, Active
  <2> QED
    BY <1>4, <2>3 DEF Promised
<1>7. ASSUME NEW q \in Requests \ {r}
      PROVE  Promised(q)'
  <2>1. ~Concerns(q) /\ Promised(q)
    BY <1>1 DEF Concerns, WorkerInv
  <2> QED
    BY <1>2, <1>3, <1>4, <1>5, <2>1, PromisedUnchanged
<1> QED
  BY <1>3, <1>6, <1>7 DEF Serial

LEMMA FinishReplaceKeepsPromise ==
  ASSUME WorkerInv, FinishReplace
  PROVE  Serial' /\ \A q \in Requests : Promised(q)'
<1>1. PICK r \in Requests, payload \in Payloads :
        /\ control # None /\ control.op = "replace"
        /\ control.request = r /\ control.payload = payload
  BY CallUnderWay, CallFacts DEF FinishReplace
<1>2. worker = None /\ \A q \in Requests : ~Popped(q)
  BY <1>1, CallUnderWay
<1>3. /\ control' = None /\ worker' = worker /\ latest' = latest
      /\ deferred' = deferred /\ RegisterBundle(r, payload)
  BY <1>1 DEF FinishReplace
<1>4. \A q \in Requests : ~Concerns(q)' /\ ~Popped(q)'
  BY <1>2, <1>3 DEF Concerns, Popped
<1>5. payload \in Bundles
  BY <1>1, PayloadsAssumption DEF WorkerInv, WorkerTyped
<1>6. /\ Identities(requests'[r]) = PayloadIdentities(payload)
      /\ \A q \in Requests \ {r} : requests'[q] = requests[q]
  BY <1>3, <1>5, RegisteredIdentities DEF WorkerInv
<1>7. Promised(r)'
  <2>1. Concerns(r) /\ Promised(r)
    BY <1>1 DEF Concerns, WorkerInv
  <2>2. payload = latest[r] /\ deferred[r] = None
    BY <1>1, <2>1 DEF Promised, HalfDone
  <2>3. Kept(r)'
    BY <1>3, <1>6, <2>2, NoneAssumption DEF Kept
  <2> QED
    BY <1>4, <2>3 DEF Promised
<1>8. ASSUME NEW q \in Requests \ {r}
      PROVE  Promised(q)'
  <2>1. ~Concerns(q) /\ Promised(q)
    BY <1>1 DEF Concerns, WorkerInv
  <2> QED
    BY <1>2, <1>3, <1>4, <1>6, <2>1, PromisedUnchanged
<1> QED
  BY <1>3, <1>7, <1>8 DEF Serial

LEMMA FinishRemoveKeepsPromise ==
  ASSUME WorkerInv, FinishRemove
  PROVE  Serial' /\ \A q \in Requests : Promised(q)'
<1>1. PICK r \in Requests : /\ control # None /\ control.op = "remove"
                            /\ control.request = r
  BY CallUnderWay, CallFacts DEF FinishRemove
<1>2. worker = None /\ \A q \in Requests : ~Popped(q)
  BY <1>1, CallUnderWay
<1>3. /\ control' = None /\ worker' = worker /\ deferred' = deferred
      /\ requests' = [q \in Requests |->
                        IF q \in {r} THEN NoRequest ELSE requests[q]]
      /\ latest' = [q \in Requests |-> IF q \in {r} THEN None ELSE latest[q]]
  BY <1>1 DEF FinishRemove, Abandon, Forget
<1>4. \A q \in Requests : ~Concerns(q)' /\ ~Popped(q)'
  BY <1>2, <1>3 DEF Concerns, Popped
<1>5. Promised(r)'
  <2>1. Concerns(r) /\ Promised(r)
    BY <1>1 DEF Concerns, WorkerInv
  <2>2. deferred[r] = None
    BY <1>1, <2>1 DEF Promised, HalfDone
  <2>3. Kept(r)'
    BY <1>3, <2>2 DEF Kept, Active
  <2> QED
    BY <1>4, <2>3 DEF Promised
<1>6. ASSUME NEW q \in Requests \ {r}
      PROVE  Promised(q)'
  <2>1. ~Concerns(q) /\ Promised(q)
    BY <1>1 DEF Concerns, WorkerInv
  <2>2. requests'[q] = requests[q] /\ latest'[q] = latest[q]
    BY <1>3
  <2> QED
    BY <1>2, <1>3, <1>4, <2>1, <2>2, PromisedUnchanged
<1> QED
  BY <1>3, <1>5, <1>6 DEF Serial

LEMMA FinishClearPoolKeepsPromise ==
  ASSUME WorkerInv, FinishClearPool
  PROVE  Serial' /\ \A q \in Requests : Promised(q)'
<1>1. control # None /\ control.op = "clear" /\ worker = None
  BY CallUnderWay DEF FinishClearPool
<1>2. control' = None /\ worker' = worker /\ requests' = requests
  BY DEF FinishClearPool, storeVars
<1>3. ASSUME NEW q \in Requests
      PROVE  Promised(q)'
  <2>1. Concerns(q) /\ Promised(q)
    BY <1>1 DEF Concerns, WorkerInv
  <2>2. ~Active(q)
    BY <1>1, <2>1 DEF Promised, HalfDone
  <2>3. latest'[q] = None /\ deferred'[q] = None
    BY DEF FinishClearPool, Withdraw, Forget
  <2>4. Kept(q)'
    BY <1>2, <2>2, <2>3 DEF Kept, Active
  <2>5. ~Concerns(q)' /\ ~Popped(q)'
    BY <1>1, <1>2 DEF Concerns, Popped
  <2> QED
    BY <2>4, <2>5 DEF Promised
<1> QED
  BY <1>2, <1>3 DEF Serial

-----------------------------------------------------------------------------
LEMMA BeginPrepareKeepsPromise ==
  ASSUME WorkerInv, Concurrent = FALSE, NEW batch \in SUBSET Requests,
         BeginPrepare(batch)
  PROVE  Serial' /\ \A q \in Requests : Promised(q)'
<1> DEFINE R == {q \in batch : deferred[q] # None}
           popped == [q \in R |-> deferred[q]]
<1>1. /\ worker = None /\ control = None /\ control' = control
      /\ requests' = requests /\ latest' = latest
      /\ worker' = [left |-> batch, popped |-> popped]
      /\ deferred' = [q \in Requests |-> IF q \in batch THEN None ELSE deferred[q]]
  BY DEF BeginPrepare, Withdraw, storeVars
<1>2. /\ worker'.left = batch /\ worker'.popped = popped
      /\ DOMAIN popped = R /\ \A q \in R : popped[q] = deferred[q]
  BY <1>1
<1>3. worker' \in Preparations
  <2>1. R \in SUBSET Requests /\ popped \in [R -> Payloads]
    BY DEF WorkerInv, WorkerTyped
  <2> HIDE DEF R, popped
  <2> QED
    BY <1>1, <2>1, IsPreparation
<1> HIDE DEF popped
<1>4. worker' # None
  BY <1>3, PreparationFacts
<1>5. \A q \in Requests : /\ ~Concerns(q) /\ ~Concerns(q)' /\ ~Popped(q)
                          /\ Popped(q)' <=> q \in R
  BY <1>1, <1>2, <1>4 DEF Concerns, Popped
<1>6. ASSUME NEW q \in Requests, q \in R
      PROVE  Promised(q)'
  <2>1. Kept(q)
    BY <1>5, <1>6 DEF WorkerInv, Promised
  <2>2. deferred[q] = latest[q] /\ ~Active(q)
    BY <1>6, <2>1 DEF Kept
  <2> QED
    BY <1>1, <1>2, <1>5, <1>6, <2>2 DEF Promised, Active
<1>7. ASSUME NEW q \in Requests, q \notin R
      PROVE  Promised(q)'
  <2>1. deferred'[q] = deferred[q]
    BY <1>1, <1>7
  <2> QED
    BY <1>1, <1>5, <1>7, <2>1, PromisedUnchanged DEF WorkerInv
<1> QED
  BY <1>1, <1>6, <1>7 DEF Serial

LEMMA RegisterDeferredKeepsPromise ==
  ASSUME WorkerInv, NEW r \in Requests, RegisterDeferred(r)
  PROVE  Serial' /\ \A q \in Requests : Promised(q)'
<1> DEFINE popped == [q \in DOMAIN worker.popped \ {r} |-> worker.popped[q]]
<1>1. /\ worker \in Preparations /\ worker # None /\ control = None
      /\ r \in DOMAIN worker.popped
  BY DEF RegisterDeferred, WorkerInv, WorkerTyped, Serial
<1>2. /\ worker = [left |-> worker.left, popped |-> worker.popped]
      /\ worker.popped[r] \in Payloads
  BY <1>1, PreparationFacts
<1>3. /\ control' = control /\ deferred' = deferred /\ latest' = latest
      /\ RegisterBundle(r, Resolve(worker.popped[r], PromptLength))
      /\ worker' = [worker EXCEPT !.popped = popped]
  BY DEF RegisterDeferred
<1>4. /\ DOMAIN popped = DOMAIN worker.popped \ {r}
      /\ \A q \in DOMAIN worker.popped \ {r} : popped[q] = worker.popped[q]
  OBVIOUS
<1> HIDE DEF popped
<1>5. worker'.left = worker.left /\ worker'.popped = popped
  BY <1>2, <1>3
<1>6. worker' # None
  <2>1. /\ worker.left \in SUBSET Requests
        /\ DOMAIN worker.popped \in SUBSET Requests
        /\ worker.popped \in [DOMAIN worker.popped -> Payloads]
    BY <1>1, PreparationFacts
  <2>2. popped \in [DOMAIN worker.popped \ {r} -> Payloads]
    BY <2>1 DEF popped
  <2>3. worker' = [left |-> worker.left, popped |-> popped]
    BY <1>2, <1>3
  <2>4. worker' \in Preparations
    BY <2>1, <2>2, <2>3, IsPreparation
  <2> QED
    BY <2>4, PreparationFacts
<1>7. /\ Identities(requests'[r]) = PayloadIdentities(worker.popped[r])
      /\ \A q \in Requests \ {r} : requests'[q] = requests[q]
  <2>1. Resolve(worker.popped[r], PromptLength) \in Bundles
    BY <1>2, PayloadsAssumption
  <2> QED
    BY <1>2, <1>3, <2>1, RegisteredIdentities, ResolvedIdentities DEF WorkerInv
<1>8. \A q \in Requests : ~Concerns(q) /\ ~Concerns(q)'
  BY <1>1, <1>3 DEF Concerns
<1>9. Promised(r)'
  <2>1. Popped(r) /\ ~Popped(r)'
    BY <1>1, <1>4, <1>5 DEF Popped
  <2>2. worker.popped[r] = latest[r] /\ deferred[r] = None
    BY <1>8, <2>1 DEF WorkerInv, Promised
  <2>3. Kept(r)'
    BY <1>2, <1>3, <1>7, <2>2, NoneAssumption DEF Kept
  <2> QED
    BY <1>8, <2>1, <2>3 DEF Promised
<1>10. ASSUME NEW q \in Requests \ {r}
       PROVE  Promised(q)'
  <2>1. Popped(q)' <=> Popped(q)
    BY <1>1, <1>4, <1>5, <1>6 DEF Popped
  <2>2. Popped(q) => worker'.popped[q] = worker.popped[q]
    BY <1>4, <1>5 DEF Popped
  <2> QED
    BY <1>3, <1>5, <1>7, <1>8, <2>1, <2>2, PromisedUnchanged DEF WorkerInv
<1> QED
  BY <1>1, <1>3, <1>9, <1>10 DEF Serial

LEMMA OfferToKeepsPromise ==
  ASSUME WorkerInv, NEW r \in Requests, OfferTo(r)
  PROVE  Serial' /\ \A q \in Requests : Promised(q)'
<1>1. /\ worker \in Preparations /\ worker # None /\ control = None
      /\ DOMAIN worker.popped = {}
  BY DEF OfferTo, WorkerInv, WorkerTyped, Serial
<1>2. /\ control' = control /\ deferred' = deferred /\ latest' = latest
      /\ worker' = [worker EXCEPT !.left = @ \ {r}]
  BY DEF OfferTo
<1>3. worker'.popped = worker.popped
  BY <1>1, <1>2, PreparationFacts
<1>4. \A q \in Requests : /\ ~Concerns(q) /\ ~Concerns(q)'
                          /\ ~Popped(q) /\ ~Popped(q)'
  BY <1>1, <1>2, <1>3 DEF Concerns, Popped
<1>5. CASE requests' = requests
  BY <1>1, <1>2, <1>4, <1>5, PromisedUnchanged DEF WorkerInv, Serial
<1>6. CASE OfferRepeated(r) \/ OfferNothing(r) \/ OfferProposal(r, MaxDraftTokens)
  <2>1. /\ Active(r)
        /\ Identities(requests'[r]) = Identities(requests[r])
        /\ \A q \in Requests \ {r} : requests'[q] = requests[q]
    BY <1>6, OfferIdentities DEF WorkerInv
  <2>2. Promised(r)'
    <3>1. Kept(r)
      BY <1>4 DEF WorkerInv, Promised
    <3>2. Kept(r)'
      BY <1>2, <2>1, <3>1 DEF Kept
    <3> QED
      BY <1>4, <3>2 DEF Promised
  <2>3. ASSUME NEW q \in Requests \ {r}
        PROVE  Promised(q)'
    BY <1>2, <1>4, <2>1, PromisedUnchanged DEF WorkerInv
  <2> QED
    BY <1>1, <1>2, <2>2, <2>3 DEF Serial
<1> QED
  BY <1>5, <1>6 DEF OfferTo, storeVars

LEMMA QuietKeepsPromise ==
  ASSUME WorkerInv, requests' = requests, deferred' = deferred,
         latest' = latest, control' = control, worker' = worker
  PROVE  Serial' /\ \A q \in Requests : Promised(q)'
BY DEF WorkerInv, Serial, Promised, Concerns, HalfDone, Popped, Kept, Active

\* Nothing is popped any more when no request is left.
LEMMA FinishPrepareKeepsPromise ==
  ASSUME WorkerInv, FinishPrepare
  PROVE  Serial' /\ \A q \in Requests : Promised(q)'
<1>1. /\ worker # None /\ worker.left = {} /\ worker' = None
      /\ requests' = requests /\ deferred' = deferred
      /\ latest' = latest /\ control' = control
  BY DEF FinishPrepare, storeVars
<1>2. control = None
  BY <1>1 DEF WorkerInv, Serial
<1>3. \A q \in Requests : ~Concerns(q) /\ ~Concerns(q)' /\ ~Popped(q)'
  BY <1>1, <1>2 DEF Concerns, Popped
<1>4. \A q \in Requests : ~Popped(q)
  BY <1>1, <1>3 DEF WorkerInv, Promised
<1> QED
  BY <1>1, <1>2, <1>3, <1>4, PromisedUnchanged DEF WorkerInv, Serial

-----------------------------------------------------------------------------
LEMMA WorkerNextKeepsPromise ==
  ASSUME WorkerInv, Concurrent = FALSE, [WorkerNext]_workerVars
  PROVE  Serial' /\ \A q \in Requests : Promised(q)'
<1>1. ASSUME NEW r \in Requests, Extend(r)
      PROVE  Serial' /\ \A q \in Requests : Promised(q)'
  BY <1>1, QuietKeepsPromise DEF Extend, Emit
<1>2. CASE UNCHANGED workerVars
  BY <1>2, QuietKeepsPromise DEF workerVars, storeVars
<1> QED
  BY <1>1, <1>2, BeginDeferKeepsPromise, BeginReplaceKeepsPromise,
     BeginRemoveKeepsPromise, BeginClearPoolKeepsPromise,
     FinishDeferKeepsPromise, FinishReplaceKeepsPromise,
     FinishRemoveKeepsPromise, FinishClearPoolKeepsPromise,
     BeginPrepareKeepsPromise, RegisterDeferredKeepsPromise,
     OfferToKeepsPromise, FinishPrepareKeepsPromise DEF WorkerNext

\* When one handler runs at a time, then between two of them a request has the
\* bundle of its last replacement, deferred or in the store, and nothing once it
\* was cleared: for any requests, payloads and limits, and whatever calls come
\* between two preparations (_register_control, _remove_external_corpus,
\* _clear_cache_pool, _prepare_draft_tokens).
THEOREM LatestBundleIsKept ==
  ASSUME Concurrent = FALSE
  PROVE  WorkerSpec => []OnlyLatestBundle
<1>1. WorkerInit => WorkerInv
  <2>1. ASSUME WorkerInit
        PROVE  WorkerInv
    <3>1. Inv /\ WorkerTyped
      BY <2>1, InitEstablishesInv, InitEstablishesWorkerTyped DEF WorkerInit
    <3>2. Serial /\ \A q \in Requests : Promised(q)
      BY <2>1 DEF WorkerInit, Init, Serial, Promised, Concerns, Popped, Kept, Active
    <3> QED
      BY <3>1, <3>2 DEF WorkerInv
  <2> QED
    BY <2>1
<1>2. WorkerInv /\ [WorkerNext]_workerVars => WorkerInv'
  <2>1. ASSUME WorkerInv, [WorkerNext]_workerVars
        PROVE  WorkerInv'
    <3>1. Inv' /\ WorkerTyped'
      BY <2>1, WorkerStepIsStoreStep, NextPreservesInv, WorkerNextPreservesTypes
         DEF WorkerInv
    <3>2. Serial' /\ \A q \in Requests : Promised(q)'
      BY <2>1, WorkerNextKeepsPromise
    <3> QED
      BY <3>1, <3>2 DEF WorkerInv
  <2> QED
    BY <2>1
<1>3. WorkerInv => OnlyLatestBundle
  <2>1. ASSUME WorkerInv, Idle
        PROVE  \A r \in Requests : Kept(r)
    BY <2>1 DEF WorkerInv, Promised, Concerns, Popped, Idle
  <2> QED
    BY <2>1 DEF OnlyLatestBundle, Kept
<1> QED
  BY <1>1, <1>2, <1>3, PTL DEF WorkerSpec
=============================================================================
