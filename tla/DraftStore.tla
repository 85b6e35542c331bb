------------------------------ MODULE DraftStore ------------------------------
(***************************************************************************)
(* BoundaryDraftStore (drafts/store.py): the request-scoped, thread-safe   *)
(* store an engine asks for draft tokens. Clients register bundles of      *)
(* candidate drafts; the engine offers its current token sequence and may  *)
(* get one candidate's continuation as a proposal; the proposal is pending *)
(* until the sequence grows past it (or the engine calls back), which      *)
(* credits the accepted prefix; clearing a request hands back its outcome. *)
(*                                                                         *)
(* Every method runs under the store's one RLock, so each is one action.   *)
(* The target model is the environment: it appends any token it likes.     *)
(***************************************************************************)
EXTENDS DraftMatching, FiniteSets

CONSTANTS
  Requests,          (* request IDs                                           *)
  Tokens,            (* vocabulary                                            *)
  Drafts,            (* the drafts clients can register: records with the     *)
                     (* identity, tokens, boundary and prompt fields          *)
  Bundles,           (* the bundles they register: sequences of Drafts        *)
  Prompts,           (* the token sequences a request can start from          *)
  MaxDraftTokens,    (* the store's max_draft_tokens                          *)
  InjectWindow,      (* the store's inject_window                             *)
  MaxSequence,       (* bound: no target sequence grows longer than this      *)
  MaxRegistrations   (* bound: register_bundle calls in one behaviour         *)

ASSUME LimitsAssumption ==
  /\ MaxDraftTokens \in Nat \ {0}
  /\ InjectWindow \in Nat
  /\ MaxSequence \in Nat
  /\ MaxRegistrations \in Nat

\* What DraftBundle, DraftRequest and _candidate reject is never registered: an
\* empty bundle, a draft without tokens or without boundary tokens.
ASSUME DraftsAssumption ==
  /\ IsFiniteSet(Requests)
  /\ Prompts \subseteq Seq(Tokens)
  /\ \A d \in Drafts :
       /\ d.tokens \in Seq(Tokens) /\ d.tokens # <<>>
       /\ d.boundary \in Seq(Tokens) /\ d.boundary # <<>>
       /\ d.prompt \in Nat
  /\ Bundles \subseteq Seq(Drafts) \ {<<>>}

VARIABLES
  sequence,   (* the target's token sequence of each request, prompt included *)
  requests,   (* _requests: the entry of each request, or NoRequest           *)
  stats       (* the store's cumulative counters                              *)

vars == <<sequence, requests, stats>>

-----------------------------------------------------------------------------
\* A pending proposal always has tokens, so no tokens stands for None.
NoPending == [tokens |-> <<>>, at |-> 0, index |-> 0, identity |-> "none"]

\* _request never stores an entry without candidates, so the entry with none
\* stands for a request that is not in the dictionary.
NoRequest == [candidates |-> <<>>, lastOffer |-> -1,
              pending |-> NoPending, steps |-> <<>>]

Active(r) == requests[r] # NoRequest

Waiting(r) == requests[r].pending # NoPending

\* The identities an entry lists.
Identities(entry) ==
  {entry.candidates[i].identity : i \in DOMAIN entry.candidates}

ZeroStats ==
  [registrations |-> 0, registeredCandidates |-> 0,
   injections |-> 0, proposedTokens |-> 0,
   divergent |-> 0, stale |-> 0, fallbacks |-> 0, resolved |-> 0,
   unresolved |-> 0, unresolvedTokens |-> 0, accepted |-> 0, rejected |-> 0]

Init ==
  /\ sequence \in [Requests -> Prompts]
  /\ requests = [r \in Requests |-> NoRequest]
  /\ stats = ZeroStats

-----------------------------------------------------------------------------
(***************************************************************************)
(* The target model (environment).                                         *)
(***************************************************************************)
Emit(r) ==
  /\ Len(sequence[r]) < MaxSequence
  /\ \E t \in Tokens :
       sequence' = [sequence EXCEPT ![r] = Append(@, t)]
  /\ UNCHANGED <<requests, stats>>

-----------------------------------------------------------------------------
(***************************************************************************)
(* register_bundle                                                         *)
(***************************************************************************)
\* The positions of a bundle that survive deduplication by identity.
Firsts(bundle) ==
  {i \in DOMAIN bundle :
     \A j \in 1..(i - 1) : bundle[j].identity # bundle[i].identity}

\* Variant of Candidates: a replacement forgets what has fired.
CandidatesAfresh(bundle, previous) ==
  [i \in Firsts(bundle) |->
     [identity |-> bundle[i].identity,
      tokens   |-> Take(bundle[i].tokens, MaxDraftTokens),
      boundary |-> bundle[i].boundary,
      prompt   |-> bundle[i].prompt,
      fired    |-> FALSE]]

\* A candidate keeps the fired flag of the entry it replaces, and only of it.
\* Candidates are indexed by their position in the bundle: the first is 1.
Candidates(bundle, previous) ==
  [i \in Firsts(bundle) |->
     [identity |-> bundle[i].identity,
      tokens   |-> Take(bundle[i].tokens, MaxDraftTokens),
      boundary |-> bundle[i].boundary,
      prompt   |-> bundle[i].prompt,
      fired    |-> \E j \in DOMAIN previous.candidates :
                     /\ previous.candidates[j].identity = bundle[i].identity
                     /\ previous.candidates[j].fired]]

CountRegistration(bundle) ==
  [stats EXCEPT !.registrations = @ + 1,
                !.registeredCandidates = @ + Cardinality(Firsts(bundle))]

\* Variant of RegisterBundle: the new entry carries over the fired flags only.
RegisterAfresh(r, bundle) ==
  /\ stats.registrations < MaxRegistrations
  /\ requests' = [requests EXCEPT ![r] =
       [NoRequest EXCEPT !.candidates = Candidates(bundle, requests[r])]]
  /\ stats' = CountRegistration(bundle)
  /\ UNCHANGED sequence

RegisterBundle(r, bundle) ==
  /\ stats.registrations < MaxRegistrations
  /\ requests' = [requests EXCEPT ![r].candidates =
                                  Candidates(bundle, requests[r])]
  /\ stats' = CountRegistration(bundle)
  /\ UNCHANGED sequence
-----------------------------------------------------------------------------
(***************************************************************************)
(* Settling a pending proposal                                             *)
(***************************************************************************)
\* DraftVerificationStep. `at`, the length its proposal was made at, is history
\* that the properties read; the code's step has no such field.
VerificationStep(pending, accepted) ==
  [identity |-> pending.identity, index |-> pending.index,
   drafted |-> Len(pending.tokens), accepted |-> accepted, at |-> pending.at]

\* Variant of Settle: the proposal stays pending.
SettleAndKeep(entry, accepted) ==
  [entry EXCEPT !.steps = Append(@, VerificationStep(entry.pending, accepted))]

\* _resolve_pending on the entry: one verification step, nothing pending.
Settle(entry, accepted) ==
  [entry EXCEPT !.steps = Append(@, VerificationStep(entry.pending, accepted)),
                !.pending = NoPending]

\* _resolve_pending on the counters.
Credit(s, entry, accepted) ==
  [s EXCEPT !.resolved = @ + 1,
            !.accepted = @ + accepted,
            !.rejected = @ + (Len(entry.pending.tokens) - accepted)]

\* _resolve_from_sequence applies: the target has moved past the proposal.
Due(entry, tokens) ==
  /\ entry.pending # NoPending
  /\ Len(tokens) > entry.pending.at

\* Variant of Emitted: every token since the proposal counts as accepted.
EmittedSince(entry, tokens) == Len(tokens) - entry.pending.at

\* How many of the pending tokens the target emitted.
Emitted(entry, tokens) ==
  CommonPrefixLength(entry.pending.tokens,
                     SubSeq(tokens, entry.pending.at + 1, Len(tokens)))

\* _resolve_from_sequence.
SettleFromSequence(entry, tokens) ==
  IF Due(entry, tokens) THEN Settle(entry, Emitted(entry, tokens)) ELSE entry

CreditFromSequence(s, entry, tokens) ==
  IF Due(entry, tokens) THEN Credit(s, entry, Emitted(entry, tokens)) ELSE s

-----------------------------------------------------------------------------
(***************************************************************************)
(* offer                                                                   *)
(***************************************************************************)
\* The unfired candidates of an entry with a given verdict.
Judged(entry, tokens, verdicts) ==
  {i \in DOMAIN entry.candidates :
     /\ ~entry.candidates[i].fired
     /\ Verdict(tokens, entry.candidates[i], InjectWindow) \in verdicts}

Proposable(entry, tokens) == Judged(entry, tokens, {"proposable"})

\* The candidates the loop of `offer` has looked at when it returns.
Examined(entry, tokens) ==
  {i \in DOMAIN entry.candidates :
     \A j \in Proposable(entry, tokens) : i <= j}

\* Those it retires on the way: out of the window, diverged, already written.
Retired(entry, tokens, verdicts) ==
  Judged(entry, tokens, verdicts) \cap Examined(entry, tokens)

Fire(entry, indices) ==
  [entry EXCEPT !.candidates =
     [i \in DOMAIN entry.candidates |->
        [entry.candidates[i] EXCEPT !.fired = @ \/ i \in indices]]]

\* What the scan does to an entry and to the counters, proposal apart.
Scan(entry, tokens) ==
  Fire(entry, Retired(entry, tokens, {"stale", "divergent", "exhausted"}))

CountScan(s, entry, tokens) ==
  [s EXCEPT !.stale = @ + Cardinality(Retired(entry, tokens, {"stale"})),
            !.divergent =
               @ + Cardinality(Retired(entry, tokens, {"divergent"}))]

\* The entry and the counters after candidate i proposes `proposed`.
Propose(entry, i, at, proposed) ==
  [Fire(entry, {i}) EXCEPT
     !.lastOffer = at,
     !.pending = [tokens   |-> proposed,
                  at       |-> at,
                  index    |-> i,
                  identity |-> entry.candidates[i].identity]]

CountProposal(s, i, proposed) ==
  [s EXCEPT !.injections = @ + 1,
            !.proposedTokens = @ + Len(proposed),
            !.fallbacks = @ + (IF i > 1 THEN 1 ELSE 0)]

\* The engine offers its sequence again at a length it has had a proposal for.
OfferRepeated(r) ==
  LET entry   == SettleFromSequence(requests[r], sequence[r])
      counted == CreditFromSequence(stats, requests[r], sequence[r])
  IN /\ Active(r)
     /\ entry.lastOffer = Len(sequence[r])
     /\ requests' = [requests EXCEPT ![r] = entry]
     /\ stats' = counted
     /\ UNCHANGED sequence

\* No candidate can propose: the scan retires what it must and offers nothing.
OfferNothing(r) ==
  LET entry   == SettleFromSequence(requests[r], sequence[r])
      counted == CreditFromSequence(stats, requests[r], sequence[r])
  IN /\ Active(r)
     /\ entry.lastOffer # Len(sequence[r])
     /\ Proposable(entry, sequence[r]) = {}
     /\ requests' = [requests EXCEPT ![r] = Scan(entry, sequence[r])]
     /\ stats' = CountScan(counted, entry, sequence[r])
     /\ UNCHANGED sequence

\* The first candidate that can, proposes up to `limit` tokens.
OfferProposal(r, limit) ==
  LET entry    == SettleFromSequence(requests[r], sequence[r])
      counted  == CreditFromSequence(stats, requests[r], sequence[r])
      first    == Min(Proposable(entry, sequence[r]))
      proposed == Continuation(sequence[r], entry.candidates[first], limit)
  IN /\ Active(r)
     /\ entry.lastOffer # Len(sequence[r])
     /\ Proposable(entry, sequence[r]) # {}
     /\ requests' = [requests EXCEPT ![r] =
                       Propose(Scan(entry, sequence[r]), first,
                               Len(sequence[r]), proposed)]
     /\ stats' = CountProposal(CountScan(counted, entry, sequence[r]),
                               first, proposed)
     /\ UNCHANGED sequence

-----------------------------------------------------------------------------
(***************************************************************************)
(* observe_acceptance: an engine with a verification callback reports that *)
(* the target accepted n of the pending tokens and added one of its own.   *)
(***************************************************************************)
ObserveAcceptance(r) ==
  /\ Waiting(r)
  /\ requests[r].pending.at = Len(sequence[r])
  /\ \E n \in 0..Len(requests[r].pending.tokens), t \in Tokens :
       /\ Len(sequence[r]) + n < MaxSequence
       /\ sequence' = [sequence EXCEPT ![r] =
                         @ \o Append(Take(requests[r].pending.tokens, n), t)]
       /\ requests' = [requests EXCEPT ![r] = Settle(@, n)]
       /\ stats' = Credit(stats, requests[r], n)

-----------------------------------------------------------------------------
(***************************************************************************)
(* take_outcome / clear, and clear_all                                     *)
(***************************************************************************)
\* One mark per drafted token, of a set of requests, that has no verdict yet.
PendingTokens(R) ==
  {m \in R \X (1..MaxDraftTokens) :
     m[2] <= Len(requests[m[1]].pending.tokens)}

\* Variant of Abandon: what was pending is dropped without a trace.
AbandonSilently(R) ==
  /\ requests' = [r \in Requests |->
                    IF r \in R THEN NoRequest ELSE requests[r]]
  /\ UNCHANGED <<sequence, stats>>

Abandon(R) ==
  /\ requests' = [r \in Requests |->
                    IF r \in R THEN NoRequest ELSE requests[r]]
  /\ stats' = [stats EXCEPT
       !.unresolved = @ + Cardinality({r \in R : Waiting(r)}),
       !.unresolvedTokens = @ + Cardinality(PendingTokens(R))]
  /\ UNCHANGED sequence

TakeOutcome(r) == Active(r) /\ Abandon({r})

ClearAll == (\E r \in Requests : Active(r)) /\ Abandon(Requests)

-----------------------------------------------------------------------------
Next ==
  \/ \E r \in Requests :
       \/ Emit(r)
       \/ \E bundle \in Bundles : RegisterBundle(r, bundle)
       \/ OfferRepeated(r)
       \/ OfferNothing(r)
       \/ \E limit \in 1..MaxDraftTokens : OfferProposal(r, limit)
       \/ ObserveAcceptance(r)
       \/ TakeOutcome(r)
  \/ ClearAll

Spec == Init /\ [][Next]_vars

-----------------------------------------------------------------------------
(***************************************************************************)
(* Properties                                                              *)
(***************************************************************************)
Candidate ==
  [identity : {d.identity : d \in Drafts}, tokens : Seq(Tokens),
   boundary : Seq(Tokens), prompt : Nat, fired : BOOLEAN]

\* Types of every variable: entries of _RequestDraft, _CandidateDraft,
\* _PendingProposal and DraftVerificationStep, and counters that are naturals.
TypeOK ==
  /\ sequence \in [Requests -> Seq(Tokens)]
  /\ \A r \in Requests :
       /\ DOMAIN requests[r] =
            {"candidates", "lastOffer", "pending", "steps"}
       /\ DOMAIN requests[r].candidates \subseteq Nat
       /\ \A i \in DOMAIN requests[r].candidates :
            requests[r].candidates[i] \in Candidate
       /\ requests[r].lastOffer \in Nat \cup {-1}
       /\ requests[r].pending.tokens \in Seq(Tokens)
       /\ Len(requests[r].pending.tokens) <= MaxDraftTokens
       /\ requests[r].pending.at \in Nat
       /\ \A k \in DOMAIN requests[r].steps :
            /\ requests[r].steps[k].drafted \in 1..MaxDraftTokens
            /\ requests[r].steps[k].accepted \in
                 0..requests[r].steps[k].drafted
  /\ stats \in [DOMAIN ZeroStats -> Nat]

\* Every proposal and every drafted token is in exactly one place: verified,
\* handed back unresolved, or pending (_resolve_pending, take_outcome and
\* clear_all against the counters of `offer`).
LedgerBalanced ==
  /\ stats.injections = stats.resolved + stats.unresolved
                        + Cardinality({r \in Requests : Waiting(r)})
  /\ stats.proposedTokens = stats.accepted + stats.rejected
                            + stats.unresolvedTokens
                            + Cardinality(PendingTokens(Requests))

\* The draft goes on with `next` after the first `at` of the target's tokens:
\* what the target generated there since the draft's boundary, followed by
\* `next`, is an initial part of the draft, cut to max_draft_tokens. The boundary
\* is a generated one, never one of the prompt.
Foretells(d, tokens, at, next) ==
  LET generated == Generated(Take(tokens, at), d.prompt)
      body      == GeneratedBody(generated, d.boundary)
  IN /\ Occurrences(generated, d.boundary) # {}
     /\ Len(body) <= InjectWindow
     /\ Begins(body \o next, Take(d.tokens, MaxDraftTokens))

\* What `offer` returned continues what the target wrote after the boundary: a
\* draft that was registered under the proposal's identity goes on with it.
ProposalExtendsDraft ==
  \A r \in Requests : Waiting(r) =>
    \E d \in Drafts :
      /\ d.identity = requests[r].pending.identity
      /\ Foretells(d, sequence[r], requests[r].pending.at,
                   requests[r].pending.tokens)

\* The identities of an entry that have fired.
Spent(entry) ==
  {entry.candidates[i].identity :
     i \in {j \in DOMAIN entry.candidates : entry.candidates[j].fired}}

\* The proposal of an entry stays as it is, or becomes its next step.
KeepsProposal(entry, next) ==
  \/ /\ next.steps = entry.steps
     /\ entry.pending # NoPending => next.pending = entry.pending
  \/ /\ entry.pending # NoPending
     /\ \E n \in 0..Len(entry.pending.tokens) :
          next.steps = Append(entry.steps, VerificationStep(entry.pending, n))

\* However bundles replace each other while an entry lives, it forgets neither
\* its steps, nor a pending proposal (which stays until it is one of the steps),
\* nor the length of its last offer, nor which of the candidates it still lists
\* have fired. So every proposal is made by a candidate that had not fired, at a
\* length that had no offer (register_bundle).
ReplacementForgetsNothing ==
  [][\A r \in Requests : (Active(r) /\ Active(r)') =>
       /\ KeepsProposal(requests[r], requests'[r])
       /\ requests[r].lastOffer <= requests'[r].lastOffer
       /\ Spent(requests[r]) \cap Identities(requests'[r])
            \subseteq Spent(requests'[r])
       /\ (Waiting(r)' /\ requests'[r].pending # requests[r].pending) =>
            /\ requests'[r].pending.identity \in
                 Spent(requests'[r]) \ Spent(requests[r])
            /\ requests[r].lastOffer < Len(sequence[r])]_vars

\* The positions of the target's sequence that a step credits.
CreditedAt(step) == (step.at + 1)..(step.at + step.accepted)

\* Token by token, what the steps of an entry credit is right: a credited
\* position is one the target has written, after the boundary it generated for
\* a draft of the step's identity, and so after the prompt; the tokens there are
\* those the draft goes on with; and no position is credited by two steps, and
\* so to two proposals (_resolve_from_sequence, observe_acceptance).
NoTokenCreditedTwice ==
  \A r \in Requests : \A k \in DOMAIN requests[r].steps :
    LET steps == requests[r].steps
    IN /\ CreditedAt(steps[k]) \subseteq DOMAIN sequence[r]
       /\ \E d \in Drafts :
            /\ d.identity = steps[k].identity
            /\ Foretells(d, sequence[r], steps[k].at,
                         SubSeq(sequence[r], steps[k].at + 1,
                                steps[k].at + steps[k].accepted))
       /\ \A j \in DOMAIN steps \ {k} :
            CreditedAt(steps[j]) \cap CreditedAt(steps[k]) = {}

\* The store keeps what VerificationLedger promises about proposals.
Ledger ==
  INSTANCE VerificationLedger WITH
    outstanding <- [r \in Requests |-> Len(requests[r].pending.tokens)],
    proposals   <- stats.injections,
    drafted     <- stats.proposedTokens,
    verified    <- stats.resolved,
    accepted    <- stats.accepted,
    rejected    <- stats.rejected,
    abandoned   <- stats.unresolved,
    lost        <- stats.unresolvedTokens

ImplementsLedger == Ledger!Spec

=============================================================================
