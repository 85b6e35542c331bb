-------------------------- MODULE VerificationLedger --------------------------
(***************************************************************************)
(* What a draft store promises about its proposals, whatever its           *)
(* candidates and boundaries are: a request has at most one proposal       *)
(* outstanding; every proposal ends exactly once, verified with a count    *)
(* between nothing and all of its tokens, or handed back unresolved; and   *)
(* the totals say which (docs/architecture.md, DraftVerificationOutcome).  *)
(***************************************************************************)
EXTENDS Integers, FiniteSets

CONSTANTS Requests,        (* request IDs, a finite set of them      *)
          MaxDraftTokens   (* the length of the longest proposal     *)

VARIABLES
  outstanding,   (* tokens of the outstanding proposal of a request, or 0 *)
  proposals, drafted,              (* made: proposals and their tokens    *)
  verified, accepted, rejected,    (* ended with a verdict, and its split *)
  abandoned, lost                  (* ended without one, and their tokens *)

vars == <<outstanding, proposals, drafted, verified, accepted, rejected,
          abandoned, lost>>

Init ==
  /\ outstanding = [r \in Requests |-> 0]
  /\ proposals = 0 /\ drafted = 0
  /\ verified = 0 /\ accepted = 0 /\ rejected = 0
  /\ abandoned = 0 /\ lost = 0

Waiting(R) == {r \in R : outstanding[r] > 0}

\* One mark per outstanding token of the requests R.
OutstandingTokens(R) ==
  {m \in R \X (1..MaxDraftTokens) : m[2] <= outstanding[m[1]]}

\* The next proposal of r, of n tokens, or none when n = 0.
Draft(r, n) ==
  /\ outstanding' = [outstanding EXCEPT ![r] = n]
  /\ proposals' = proposals + (IF n > 0 THEN 1 ELSE 0)
  /\ drafted' = drafted + n

\* A request with nothing outstanding gets a proposal.
Propose(r, n) ==
  /\ outstanding[r] = 0
  /\ n > 0
  /\ Draft(r, n)
  /\ UNCHANGED <<verified, accepted, rejected, abandoned, lost>>

\* The target accepted a tokens of the outstanding proposal; the same step may
\* make the next one.
Settle(r, a, n) ==
  /\ outstanding[r] > 0
  /\ a <= outstanding[r]
  /\ Draft(r, n)
  /\ verified' = verified + 1
  /\ accepted' = accepted + a
  /\ rejected' = rejected + (outstanding[r] - a)
  /\ UNCHANGED <<abandoned, lost>>

\* The requests R end, whatever they had outstanding.
Abandon(R) ==
  /\ outstanding' = [r \in Requests |-> IF r \in R THEN 0 ELSE outstanding[r]]
  /\ abandoned' = abandoned + Cardinality(Waiting(R))
  /\ lost' = lost + Cardinality(OutstandingTokens(R))
  /\ UNCHANGED <<proposals, drafted, verified, accepted, rejected>>

Next ==
  \/ \E r \in Requests, n \in 0..MaxDraftTokens :
       \/ Propose(r, n)
       \/ \E a \in 0..MaxDraftTokens : Settle(r, a, n)
  \/ \E R \in SUBSET Requests : Abandon(R)

Spec == Init /\ [][Next]_vars

-----------------------------------------------------------------------------
TypeOK ==
  /\ outstanding \in [Requests -> 0..MaxDraftTokens]
  /\ proposals \in Nat /\ drafted \in Nat
  /\ verified \in Nat /\ accepted \in Nat /\ rejected \in Nat
  /\ abandoned \in Nat /\ lost \in Nat

\* Nothing is counted twice and nothing is lost: every proposal, and every one
\* of its tokens, has been verified, has been handed back, or is outstanding.
Balanced ==
  /\ proposals = verified + abandoned + Cardinality(Waiting(Requests))
  /\ drafted = accepted + rejected + lost
               + Cardinality(OutstandingTokens(Requests))
=============================================================================
