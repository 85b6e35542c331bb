-------------------------- MODULE VLLMProposerProofs --------------------------
(***************************************************************************)
(* The vLLM integration: whatever the calls and however often requests are *)
(* restarted, a clear finds every bundle; and a request is only offered    *)
(* its own drafts and those of an ID that its internal ID begins with.     *)
(***************************************************************************)
EXTENDS VLLMProposer, TLAPS

Labels == {"idle", "trying", "sleeping", "registered", "conflict", "failed",
           "taking", "cleared"}

Typed ==
  /\ owner \in [InternalIds -> Requests \cup {None}]
  /\ starts \in [Requests -> Nat]
  /\ aliases \in [Requests -> InternalIds \cup {None}]
  /\ store \in [InternalIds -> Submissions \cup {None}]
  /\ pc \in [Calls -> Labels]
  /\ taken \in [Calls -> InternalIds \cup {None}]
  /\ before \in [Calls -> SUBSET Submissions]

\* A clear that has begun looks for a known ID.
Sought == \A c \in Clears : pc[c] = "taking" => taken[c] \in InternalIds

\* What a clear has to remove had been registered, and is in the store only where
\* some clear is about to remove it.
Removing ==
  \A c \in Clears :
    /\ \A s \in before[c] : pc[s] = "registered"
    /\ pc[c] \in {"taking", "cleared"} =>
         \A i \in InternalIds : store[i] \in before[c] => BeingCleared(i)

Inv == Typed /\ Sought /\ EntriesAreReachable /\ Removing

\* What the assumption says of a call and of the IDs.
LEMMA CallFacts ==
  /\ None \notin Calls /\ None \notin InternalIds
  /\ Submissions \subseteq Calls /\ Clears \subseteq Calls
  /\ \A c \in Calls : /\ Request(c) \in Requests
                      /\ Request(c) \in InternalIds
                      /\ c \in Submissions <=> c \notin Clears
BY CallsAssumption, NoneAssumption
   DEF Submissions, Clears, Request, InternalIds, Internal

LEMMA InitEstablishesInv == Init => Inv
<1> SUFFICES ASSUME Init PROVE Inv
  OBVIOUS
<1>1. Typed
  BY DEF Init, Typed, Labels
<1> QED
  BY <1>1, CallFacts DEF Init, Inv, Sought, EntriesAreReachable, Removing

\* Steps that leave aliases, store and clears alone.
LEMMA OthersPreserveInv ==
  ASSUME Inv, Typed', UNCHANGED <<aliases, store, taken, before>>,
         \A c \in Calls : pc'[c] = pc[c] \/
           (c \in Submissions /\ pc[c] # "registered")
  PROVE  Inv'
<1>1. \A i : BeingCleared(i) => BeingCleared(i)'
  BY CallFacts DEF BeingCleared
<1>2. Sought' /\ EntriesAreReachable'
  BY <1>1, CallFacts DEF Inv, Sought, EntriesAreReachable, Request
<1>3. Removing'
  BY <1>1, CallFacts DEF Inv, Typed, Removing
<1> QED
  BY <1>2, <1>3 DEF Inv

LEMMA StartPreservesInv ==
  ASSUME Inv, NEW r \in Requests, Start(r)
  PROVE  Inv'
<1>1. Typed'
  <2>1. starts[r] \in Nat /\ starts' = [starts EXCEPT ![r] = starts[r] + 1]
    BY DEF Inv, Typed, Start
  <2>2. starts' \in [Requests -> Nat]
    BY <2>1 DEF Inv, Typed
  <2>3. \E i : owner' = [owner EXCEPT ![i] = r]
    BY DEF Start
  <2> QED
    BY <2>2, <2>3 DEF Inv, Typed, Start
<1> QED
  BY <1>1, OthersPreserveInv DEF Start

LEMMA EndPreservesInv ==
  ASSUME Inv, NEW i \in InternalIds, End(i)
  PROVE  Inv'
<1>1. Typed'
  BY DEF Inv, Typed, End
<1> QED
  BY <1>1, OthersPreserveInv DEF End

\* The steps of a submission that does not register.
LEMMA WaitingPreservesInv ==
  ASSUME Inv, NEW c \in Submissions,
         BeginSubmit(c) \/ NotActive(c) \/ Ambiguous(c) \/ Awake(c)
  PROVE  Inv'
<1>1. PICK label \in Labels : pc' = [pc EXCEPT ![c] = label]
  BY DEF BeginSubmit, NotActive, Ambiguous, Awake, Answer, Goto, Labels
<1>2. /\ pc[c] # "registered"
      /\ UNCHANGED <<owner, starts, aliases, store, taken, before>>
  BY DEF BeginSubmit, NotActive, Ambiguous, Awake, runner
<1>3. Typed'
  BY <1>1, <1>2 DEF Inv, Typed
<1> QED
  BY <1>1, <1>2, <1>3, OthersPreserveInv DEF Inv, Typed

LEMMA RegisterPreservesInv ==
  ASSUME Inv, NEW c \in Submissions, Register(c)
  PROVE  Inv'
<1> DEFINE r == Request(c)
<1>1. PICK i \in Matches(r) : /\ store' = Registered(c, i)
                              /\ aliases' = [aliases EXCEPT ![r] = i]
  BY DEF Register
<1>2. i \in InternalIds /\ r \in Requests /\ c \in Calls
  BY <1>1, CallFacts DEF Matches, Active
<1>3. /\ pc[c] = "trying" /\ pc' = [pc EXCEPT ![c] = "registered"]
      /\ UNCHANGED <<owner, starts, taken, before>>
  BY DEF Register, Answer, Goto, runner
<1>4. \A j \in InternalIds :
        /\ j = i => store'[j] = c
        /\ j # i => store'[j] = IF j = aliases[r] THEN None ELSE store[j]
  BY <1>1 DEF Registered
<1>5. Typed'
  BY <1>1, <1>2, <1>3 DEF Inv, Typed, Registered, Labels
<1>6. \A j : BeingCleared(j)' <=> BeingCleared(j)
  BY <1>3, CallFacts DEF BeingCleared, Inv, Typed
<1>7. Sought'
  BY <1>3, CallFacts DEF Inv, Typed, Sought
<1>8. EntriesAreReachable'
  <2> SUFFICES ASSUME NEW j \in InternalIds, store'[j] # None
               PROVE  aliases'[Request(store'[j])] = j \/ BeingCleared(j)'
    BY DEF EntriesAreReachable, Request
  <2>1. CASE j = i
    BY <1>1, <1>2, <1>4, <2>1 DEF Inv, Typed
  <2>2. CASE j # i
    <3>1. store'[j] = store[j] /\ j # aliases[r] /\ store[j] \in Submissions
      BY <1>4, <2>2 DEF Inv, Typed
    <3>2. aliases[Request(store[j])] = j \/ BeingCleared(j)
      BY <3>1, CallFacts DEF Inv, EntriesAreReachable
    <3> QED
      BY <1>1, <1>2, <1>6, <3>1, <3>2, CallFacts DEF Inv, Typed
  <2> QED
    BY <2>1, <2>2
<1>9. Removing'
  <2> SUFFICES ASSUME NEW k \in Clears
               PROVE  /\ \A s \in before'[k] : pc'[s] = "registered"
                      /\ pc'[k] \in {"taking", "cleared"} =>
                           \A j \in InternalIds :
                             store'[j] \in before'[k] => BeingCleared(j)'
    BY DEF Removing
  <2>1. c \notin before[k] /\ None \notin before[k]
    BY <1>3, CallFacts DEF Inv, Typed, Removing
  <2>2. pc'[k] = pc[k] /\ before'[k] = before[k]
    BY <1>3, CallFacts DEF Inv, Typed
  <2>3. \A s \in before[k] : pc'[s] = "registered"
    BY <1>3, <2>1, CallFacts DEF Inv, Typed, Removing
  <2>4. \A j \in InternalIds : store'[j] \in before[k] => store'[j] = store[j]
    BY <1>4, <2>1
  <2> QED
    BY <1>6, <2>2, <2>3, <2>4 DEF Inv, Removing
<1> QED
  BY <1>5, <1>7, <1>8, <1>9 DEF Inv

LEMMA BeginClearPreservesInv ==
  ASSUME Inv, NEW c \in Clears, BeginClear(c)
  PROVE  Inv'
<1> DEFINE r == Request(c)
           B == {s \in Submissions : Request(s) = r /\ pc[s] = "registered"}
<1>0. PICK i \in InternalIds :
        i = IF aliases[r] = None THEN r ELSE aliases[r]
  BY CallFacts DEF Inv, Typed
<1>1. /\ c \in Calls /\ r \in Requests /\ pc[c] = "idle"
      /\ taken' = [taken EXCEPT ![c] = i]
      /\ aliases' = [aliases EXCEPT ![r] = None]
      /\ before' = [before EXCEPT ![c] = B]
      /\ pc' = [pc EXCEPT ![c] = "taking"]
      /\ UNCHANGED <<owner, starts, store>>
  BY <1>0, CallFacts DEF BeginClear, Goto, runner
<1>2. Typed'
  BY <1>1 DEF Inv, Typed, Labels
<1>3. /\ \A j : BeingCleared(j) => BeingCleared(j)'
      /\ BeingCleared(i)'
  <2>1. taken'[c] = i /\ pc'[c] = "taking"
    BY <1>1 DEF Inv, Typed
  <2>2. \A k \in Clears : pc[k] = "taking" =>
          pc'[k] = "taking" /\ taken'[k] = taken[k]
    BY <1>1, CallFacts DEF Inv, Typed
  <2> QED
    BY <2>1, <2>2 DEF BeingCleared
<1>4. Sought'
  BY <1>1, CallFacts DEF Inv, Typed, Sought
<1>5. ASSUME NEW j \in InternalIds, store[j] # None
      PROVE  /\ Request(store[j]) = r => BeingCleared(j)'
             /\ Request(store[j]) # r =>
                  aliases'[Request(store[j])] = j \/ BeingCleared(j)'
  <2>1. store[j] \in Submissions /\ Request(store[j]) \in Requests
    BY <1>5, CallFacts DEF Inv, Typed
  <2>2. aliases[Request(store[j])] = j \/ BeingCleared(j)
    BY <1>5 DEF Inv, EntriesAreReachable
  <2>3. aliases[r] = j => i = j
    BY <1>0, CallFacts
  <2>4. CASE Request(store[j]) = r
    BY <1>3, <2>2, <2>3, <2>4
  <2>5. CASE Request(store[j]) # r
    <3>1. aliases'[Request(store[j])] = aliases[Request(store[j])]
      BY <1>1, <2>1, <2>5 DEF Inv, Typed
    <3> QED
      BY <1>3, <2>2, <2>5, <3>1
  <2> QED
    BY <2>4, <2>5
<1>6. EntriesAreReachable'
  BY <1>1, <1>5 DEF EntriesAreReachable, Request
<1>7. Removing'
  <2> SUFFICES ASSUME NEW k \in Clears
               PROVE  /\ \A s \in before'[k] : pc'[s] = "registered"
                      /\ pc'[k] \in {"taking", "cleared"} =>
                           \A j \in InternalIds :
                             store'[j] \in before'[k] => BeingCleared(j)'
    BY DEF Removing
  <2>1. CASE k = c
    <3>1. before'[k] = B
      BY <1>1, <2>1 DEF Inv, Typed
    <3>2. \A s \in B : pc'[s] = "registered"
      BY <1>1, CallFacts DEF Inv, Typed
    <3>3. \A j \in InternalIds : store[j] \in B => BeingCleared(j)'
      BY <1>5, CallFacts
    <3> QED
      BY <1>1, <3>1, <3>2, <3>3
  <2>2. CASE k # c
    <3>1. before'[k] = before[k] /\ pc'[k] = pc[k]
      BY <1>1, <2>2, CallFacts DEF Inv, Typed
    <3>2. \A s \in before[k] : pc'[s] = "registered"
      BY <1>1, CallFacts DEF Inv, Typed, Removing
    <3> QED
      BY <1>1, <1>3, <3>1, <3>2 DEF Inv, Removing
  <2> QED
    BY <2>1, <2>2
<1> QED
  BY <1>2, <1>4, <1>6, <1>7 DEF Inv

LEMMA TakeOutcomePreservesInv ==
  ASSUME Inv, NEW c \in Clears, TakeOutcome(c)
  PROVE  Inv'
<1> DEFINE i == taken[c]
<1>1. /\ c \in Calls /\ i \in InternalIds /\ pc[c] = "taking"
      /\ store' = [store EXCEPT ![i] = None]
      /\ taken' = [taken EXCEPT ![c] = None]
      /\ pc' = [pc EXCEPT ![c] = "cleared"]
      /\ UNCHANGED <<owner, starts, aliases, before>>
  BY CallFacts DEF Inv, Sought, TakeOutcome, Goto, runner
<1>2. Typed'
  BY <1>1 DEF Inv, Typed, Labels
<1>3. \A j : (BeingCleared(j) /\ j # i) => BeingCleared(j)'
  BY <1>1, CallFacts DEF BeingCleared, Inv, Typed
<1>4. /\ store'[i] = None
      /\ \A j \in InternalIds : j # i => store'[j] = store[j]
  BY <1>1 DEF Inv, Typed
<1>5. Sought'
  BY <1>1, CallFacts DEF Inv, Typed, Sought
<1>6. EntriesAreReachable'
  BY <1>1, <1>3, <1>4 DEF Inv, EntriesAreReachable, Request
<1>7. Removing'
  <2>1. ASSUME NEW k \in Clears
        PROVE  /\ before'[k] = before[k] /\ None \notin before[k]
               /\ \A s \in before[k] : pc'[s] = "registered"
               /\ pc[k] \in {"taking", "cleared"}
                    <=> pc'[k] \in {"taking", "cleared"}
    BY <1>1, CallFacts DEF Inv, Typed, Removing
  <2> QED
    BY <1>3, <1>4, <2>1 DEF Inv, Removing
<1> QED
  BY <1>2, <1>5, <1>6, <1>7 DEF Inv

LEMMA NextPreservesInv == Inv /\ [Next]_vars => Inv'
<1> SUFFICES ASSUME Inv, [Next]_vars PROVE Inv'
  OBVIOUS
<1>1. CASE \E r \in Requests : Start(r)
  BY <1>1, StartPreservesInv
<1>2. CASE \E i \in InternalIds : End(i)
  BY <1>2, EndPreservesInv
<1>3. CASE \E c \in Submissions : BeginSubmit(c) \/ Submit(c)
  BY <1>3, WaitingPreservesInv, RegisterPreservesInv DEF Submit
<1>4. CASE \E c \in Clears : BeginClear(c) \/ TakeOutcome(c)
  BY <1>4, BeginClearPreservesInv, TakeOutcomePreservesInv
<1>5. CASE UNCHANGED vars
  <2>1. Typed'
    BY <1>5 DEF vars, runner, Inv, Typed
  <2> QED
    BY <1>5, <2>1, OthersPreserveInv DEF vars, runner
<1> QED
  BY <1>1, <1>2, <1>3, <1>4, <1>5 DEF Next

LEMMA InvHolds == Spec => []Inv
BY InitEstablishesInv, NextPreservesInv, PTL DEF Spec

-----------------------------------------------------------------------------
\* Whatever the worker's store holds, a clear of its request finds
\* (register_draft_bundle, clear_request).
THEOREM EntriesStayReachable == Spec => []EntriesAreReachable
<1>1. Inv => EntriesAreReachable
  BY DEF Inv
<1> QED
  BY <1>1, InvHolds, PTL

\* A clear leaves nothing that had been registered before it (clear_request).
THEOREM ClearsRemoveEarlier == Spec => []ClearRemovesEarlier
<1>1. Inv => ClearRemovesEarlier
  BY DEF Inv, Removing, ClearRemovesEarlier
<1> QED
  BY <1>1, InvHolds, PTL

-----------------------------------------------------------------------------
(***************************************************************************)
(* _worker_request_id has only the text to go by: a bundle is under an ID  *)
(* that begins with the ID of its request, and that is all.                *)
(***************************************************************************)
Owned ==
  /\ \A i \in InternalIds : owner[i] # None => i \in Internal(owner[i])
  /\ \A i \in InternalIds : store[i] # None => IsPrefix(Request(store[i]), i)

\* Every ID begins with itself.
LEMMA IdBeginsItself ==
  ASSUME NEW r \in Requests
  PROVE  IsPrefix(r, r)
<1>1. r \in Seq(Nat)
  BY CallsAssumption
<1> QED
  BY <1>1 DEF IsPrefix

LEMMA StepKeepsOwned ==
  ASSUME Inv, Owned, [Next]_vars
  PROVE  Owned'
<1>1. CASE \E r \in Requests : Start(r)
  <2>1. PICK r \in Requests : Start(r)
    BY <1>1
  <2>2. starts[r] \in Nat /\ Attempts[r] \in Nat /\ starts[r] < Attempts[r]
    BY <2>1, CallsAssumption DEF Start, Inv, Typed
  <2>3. starts'[r] = starts[r] + 1
    BY <2>1 DEF Start, Inv, Typed
  <2>4. PICK i \in {r, Append(r, starts'[r])} : owner' = [owner EXCEPT ![i] = r]
    BY <2>1 DEF Start
  <2>5. i \in Internal(r)
    BY <2>2, <2>3, <2>4 DEF Internal
  <2> QED
    BY <2>1, <2>4, <2>5 DEF Start, Owned, Inv, Typed, Request
<1>2. CASE \E i \in InternalIds : End(i)
  BY <1>2 DEF End, Owned, Inv, Typed, Request
<1>3. CASE \E c \in Submissions : Register(c)
  <2>1. PICK c \in Submissions : Register(c)
    BY <1>3
  <2>2. PICK i \in Matches(Request(c)) : store' = Registered(c, i)
    BY <2>1 DEF Register
  <2>3. IsPrefix(Request(c), i)
    BY <2>2, CallFacts, IdBeginsItself DEF Matches
  <2> QED
    BY <2>1, <2>2, <2>3 DEF Register, Registered, Owned, Request, runner
<1>4. CASE \E c \in Submissions :
             BeginSubmit(c) \/ NotActive(c) \/ Ambiguous(c) \/ Awake(c)
  BY <1>4 DEF BeginSubmit, NotActive, Ambiguous, Awake, runner, Owned, Request
<1>5. CASE \E c \in Clears : BeginClear(c)
  BY <1>5 DEF BeginClear, runner, Owned, Request
<1>6. CASE \E c \in Clears : TakeOutcome(c)
  BY <1>6 DEF TakeOutcome, runner, Owned, Request, Inv, Typed
<1>7. CASE UNCHANGED vars
  BY <1>7 DEF vars, runner, Owned, Request
<1> QED
  BY <1>1, <1>2, <1>3, <1>4, <1>5, <1>6, <1>7 DEF Next, Submit

\* For all IDs, related ones included: a request is only offered drafts of its own
\* and those of a request whose ID its internal ID begins with, however often it
\* is restarted (_worker_request_id, propose).
THEOREM DraftsAreMistakenByIdOnly == Spec => []DraftsFollowIds
<1>1. Init => Owned
  BY DEF Init, Owned
<1>2. Inv /\ Owned /\ [Next]_vars => Owned'
  BY StepKeepsOwned
<1>3. Owned => DraftsFollowIds
  BY DEF Owned, DraftsFollowIds, Offered, Active, Mistakable
<1> QED
  BY <1>1, <1>2, <1>3, InvHolds, PTL DEF Spec

\* A request that no other request's ID begins.
Unmistakable(q) == \A r \in Requests : Mistakable(r, q) => r = q

\* Such a request never shares proposal state, whatever the IDs of the others.
THEOREM UnmistakableIsNeverServedOthers ==
  Spec => [](\A s \in Offered :
               Unmistakable(s.request) => s.drafts = s.request)
<1> DEFINE Own == \A s \in Offered :
                    Unmistakable(s.request) => s.drafts = s.request
<1>1. Inv /\ DraftsFollowIds => Own
  <2> SUFFICES ASSUME Inv, DraftsFollowIds, NEW s \in Offered,
                      Unmistakable(s.request)
               PROVE  s.drafts = s.request
    OBVIOUS
  <2>1. s.drafts \in Requests
    BY CallFacts DEF Offered, Active, Inv, Typed
  <2> QED
    BY <2>1 DEF DraftsFollowIds, Unmistakable
<1> QED
  BY <1>1, InvHolds, DraftsAreMistakenByIdOnly, PTL
=============================================================================
