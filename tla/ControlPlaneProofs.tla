-------------------------- MODULE ControlPlaneProofs --------------------------
(***************************************************************************)
(* Theorems about control_plane.py. The service (ControlPlane) fences late *)
(* updates and loses no update, for any calls, requests, drafts and        *)
(* tombstone capacity. The routes behind it (SnapshotFork) continue the    *)
(* Actor where it is and answer 200 only to what earned it, for any        *)
(* snapshots, engines and streams.                                         *)
(***************************************************************************)
EXTENDS ControlPlane, SnapshotFork, LibraryLemmas, FiniteSetTheorems

\* Entombing a request keeps the tombstones distinct and bounded, and adds
\* nobody else.
LEMMA EntombedFacts ==
  ASSUME TypeOK, NEW r \in Requests, NEW e, e = Entombed(r)
  PROVE  /\ e \in Seq(Requests)
         /\ Len(e) <= MaxClosed
         /\ \A i, j \in DOMAIN e : e[i] = e[j] => i = j
         /\ \A i \in DOMAIN e :
              e[i] = r \/ \E k \in DOMAIN tombstones : tombstones[k] = e[i]
<1> DEFINE t == tombstones
<1>1. /\ t \in Seq(Requests) /\ Len(t) <= MaxClosed
      /\ \A i, j \in DOMAIN t : t[i] = t[j] => i = j
  BY DEF TypeOK
<1>2. PICK u : u = RemoveFirst(t, r)
  OBVIOUS
<1>3. /\ u \in Seq(Requests)
      /\ Len(u) <= Len(t)
      /\ \A i \in DOMAIN u : u[i] # r /\ \E k \in DOMAIN t : t[k] = u[i]
      /\ \A i, j \in DOMAIN u : u[i] = u[j] => i = j
  BY <1>1, <1>2, RemoveFirstFacts
<1>4. PICK all : all = Append(u, r)
  OBVIOUS
<1>5. /\ all \in Seq(Requests) /\ Len(all) = Len(u) + 1
      /\ all[Len(u) + 1] = r /\ \A i \in 1..Len(u) : all[i] = u[i]
      /\ DOMAIN all = 1..(Len(u) + 1) /\ DOMAIN u = 1..Len(u)
      /\ Len(u) \in Nat
  BY <1>3, <1>4
<1>6. \A i, j \in DOMAIN all : all[i] = all[j] => i = j
  BY <1>3, <1>5
<1>7. \A i \in DOMAIN all : all[i] = r \/ \E k \in DOMAIN t : t[k] = all[i]
  BY <1>3, <1>5
<1>8. e = IF Len(all) > MaxClosed THEN Tail(all) ELSE all
  BY <1>2, <1>4 DEF Entombed
<1>9. CASE Len(all) > MaxClosed
  <2>1. all # <<>>
    BY <1>5
  <2>2. /\ e \in Seq(Requests) /\ Len(e) = Len(all) - 1
        /\ \A i \in 1..Len(e) : e[i] = all[i + 1]
    BY <1>5, <1>8, <1>9, <2>1, HeadTailProperties
  <2>3. DOMAIN e = 1..Len(u)
    BY <1>5, <2>2
  <2>4. Len(e) <= MaxClosed
    BY <1>1, <1>3, <1>5, <2>2, CallsAssumption
  <2>5. \A i \in DOMAIN e : i + 1 \in DOMAIN all /\ e[i] = all[i + 1]
    BY <1>5, <2>2, <2>3
  <2>6. \A i, j \in DOMAIN e : e[i] = e[j] => i = j
    <3> SUFFICES ASSUME NEW i \in DOMAIN e, NEW j \in DOMAIN e, e[i] = e[j]
                 PROVE  i = j
      OBVIOUS
    <3>1. i + 1 = j + 1
      BY <1>6, <2>5
    <3> QED
      BY <1>5, <2>3, <3>1
  <2> QED
    BY <1>7, <2>2, <2>4, <2>5, <2>6
<1>10. CASE ~(Len(all) > MaxClosed)
  BY <1>5, <1>6, <1>7, <1>8, <1>10, CallsAssumption
<1> QED
  BY <1>9, <1>10

\* A merge of typed drafts is made of typed drafts.
LEMMA CombinedTyped ==
  ASSUME NEW s \in ControlState
  PROVE  /\ DOMAIN Combined(s) \subseteq Nat
         /\ \A i \in DOMAIN Combined(s) : Combined(s)[i] \in Draft
<1> DEFINE all == s.external \o s.self
           same(i) == {d \in Range(all) : SameDraft(d, all[i])}
<1>1. all \in Seq(Draft)
  <2>1. s.external \in Seq(Draft) /\ s.self \in Seq(Draft)
    BY DEF ControlState
  <2> QED
    BY <2>1
<1> HIDE DEF all
<1>2. DOMAIN all \subseteq Nat /\ \A i \in DOMAIN all : all[i] \in Draft
  BY <1>1
<1>3. \A i \in DOMAIN all : same(i) \in SUBSET Draft
  BY <1>2 DEF Range
<1>4. ASSUME NEW draft \in Draft, NEW alike \in SUBSET Draft
      PROVE  Merged(draft, alike) \in Draft
  <2>1. UNION {d.sources : d \in alike} \in SUBSET Sources
    BY DEF Draft
  <2> QED
    BY <2>1 DEF Merged, Draft
<1>5. /\ DOMAIN Combined(s) \subseteq DOMAIN all
      /\ \A i \in DOMAIN Combined(s) : Combined(s)[i] = Merged(all[i], same(i))
  BY DEF Combined, all
<1> HIDE DEF same
<1> QED
  BY <1>2, <1>3, <1>4, <1>5

-----------------------------------------------------------------------------
(***************************************************************************)
(* The inductive invariant.                                                *)
(***************************************************************************)
\* A state object belongs to the request of the update that created it; the one
\* in the dictionary is open; a call that has not begun has touched nothing.
Objects ==
  /\ \A r \in Requests : states[r] # NoCall =>
       /\ states[r] \in Updates /\ Request(states[r]) = r
       /\ pc[states[r]] # "idle" /\ ~control[states[r]].closed
  /\ \A c \in Calls : local[c] # NoCall =>
       /\ local[c] \in Updates /\ Request(local[c]) = Request(c)
       /\ pc[local[c]] # "idle"
  /\ \A c \in Calls : pc[c] = "idle" =>
       control[c] = Fresh /\ local[c] = NoCall
  /\ \A c \in Calls : pc[c] = "waiting" => local[c] # NoCall
  /\ \A c \in Updates : pc[c] \in {"building", "calling"} => local[c] # NoCall

\* A state's lock is held by exactly the call that is in the feedback channel
\* through it.
Locks ==
  /\ \A c \in Calls : (pc[c] = "calling" /\ local[c] # NoCall) =>
       control[local[c]].holder = c
  /\ \A s \in Calls : control[s].holder # NoCall =>
       pc[control[s].holder] = "calling" /\ local[control[s].holder] = s

\* A state that is no longer in the dictionary is closed, and while an update is
\* in the channel through a closed state, a clear waits for its lock.
Fences ==
  /\ \A c \in Calls : local[c] # NoCall =>
       states[Request(c)] = local[c] \/ control[local[c]].closed
  /\ \A s \in Calls : (control[s].closed /\ control[s].holder \in Updates) =>
       \E k \in Clears : local[k] = s /\ pc[k] = "waiting"

\* What is registered for a request that is not open is about to be cleared, or
\* its clear failed.
Swept ==
  \A r \in Requests : (states[r] = NoCall /\ registered[r] # Nothing) =>
    \E k \in Clears : /\ Request(k) = r
                      /\ pc[k] \in {"waiting", "calling", "broken"}

Inv == TypeOK /\ OpenIsNotTombstoned /\ Objects /\ Locks /\ Fences /\ Swept

\* What the assumption says of a call.
LEMMA CallFacts ==
  /\ NoCall \notin Calls
  /\ Updates \subseteq Calls /\ Clears \subseteq Calls
  /\ \A c \in Calls : /\ Request(c) \in Requests
                      /\ c \in Updates \/ c \in Clears
                      /\ ~(c \in Updates /\ c \in Clears)
                      /\ Payload[c].drafts \in Seq(Draft)
BY CallsAssumption DEF Updates, Clears, Request

LEMMA InitEstablishesInv == Init => Inv
<1> SUFFICES ASSUME Init PROVE Inv
  OBVIOUS
<1>1. Fresh \in ControlState /\ Fresh.holder = NoCall /\ ~Fresh.closed
  BY DEF Fresh, ControlState
<1>2. TypeOK
  BY <1>1, CallsAssumption DEF Init, TypeOK, Finished, Nothing
<1>3. OpenIsNotTombstoned /\ Swept
  BY DEF Init, OpenIsNotTombstoned, Swept
<1>4. Objects
  BY CallFacts DEF Init, Objects
<1>5. Locks /\ Fences
  BY <1>1 DEF Init, Locks, Fences
<1> QED
  BY <1>2, <1>3, <1>4, <1>5 DEF Inv

LEMMA AdmitPreservesInv ==
  ASSUME Inv, NEW c \in Updates, Admit(c)
  PROVE  Inv'
<1> USE CallFacts DEF Inv
<1>1. TypeOK'
  BY DEF TypeOK, ControlState, Finished, Admit, Goto, Tombstoned
<1>2. OpenIsNotTombstoned'
  BY DEF TypeOK, OpenIsNotTombstoned, Tombstoned, Admit, Goto
<1>3. Objects'
  BY DEF TypeOK, Objects, Fresh, Admit, Goto, Tombstoned
<1>4. Locks'
  BY DEF TypeOK, Objects, Locks, Fresh, ControlState, Admit, Goto, Tombstoned
<1>5. Fences'
  BY DEF TypeOK, Objects, Locks, Fences, Fresh, ControlState, Admit, Goto, Tombstoned
<1>6. Swept'
  BY DEF TypeOK, Objects, Locks, Fences, Swept, Admit, Goto, Tombstoned
<1> QED
  BY <1>1, <1>2, <1>3, <1>4, <1>5, <1>6 DEF Inv

LEMMA RefusePreservesInv ==
  ASSUME Inv, NEW c \in Updates, Refuse(c)
  PROVE  Inv'
<1> USE CallFacts DEF Inv
<1>1. TypeOK'
  BY DEF TypeOK, ControlState, Finished, Refuse, Goto
<1>2. OpenIsNotTombstoned'
  BY DEF TypeOK, OpenIsNotTombstoned, Tombstoned, Refuse, Goto
<1>3. Objects'
  BY DEF TypeOK, Objects, Fresh, Refuse, Goto
<1>4. Locks'
  BY DEF TypeOK, Objects, Locks, Fresh, ControlState, Refuse, Goto
<1>5. Fences'
  BY DEF TypeOK, Objects, Locks, Fences, Fresh, ControlState, Refuse, Goto
<1>6. Swept'
  BY DEF TypeOK, Objects, Locks, Fences, Swept, Refuse, Goto
<1> QED
  BY <1>1, <1>2, <1>3, <1>4, <1>5, <1>6 DEF Inv

LEMMA BuildPreservesInv ==
  ASSUME Inv, NEW c \in Updates, Build(c)
  PROVE  Inv'
<1> USE CallFacts DEF Inv
<1>1. TypeOK'
  BY DEF TypeOK, ControlState, Finished, Build, Goto
<1>2. OpenIsNotTombstoned'
  BY DEF TypeOK, OpenIsNotTombstoned, Tombstoned, Build, Goto
<1>3. Objects'
  BY DEF TypeOK, Objects, Fresh, Build, Goto
<1>4. Locks'
  BY DEF TypeOK, Objects, Locks, Fresh, ControlState, Build, Goto
<1>5. Fences'
  BY DEF TypeOK, Objects, Locks, Fences, Fresh, ControlState, Build, Goto
<1>6. Swept'
  BY DEF TypeOK, Objects, Locks, Fences, Swept, Build, Goto
<1> QED
  BY <1>1, <1>2, <1>3, <1>4, <1>5, <1>6 DEF Inv

LEMMA AcquirePreservesInv ==
  ASSUME Inv, NEW c \in Updates, Acquire(c)
  PROVE  Inv'
<1> USE CallFacts DEF Inv
<1> DEFINE s == local[c]
           n == Updated(control[s], c)
<1>1. /\ c \in Calls /\ s \in Calls /\ pc[c] = "waiting" /\ pc[s] # "idle"
      /\ control[s].holder = NoCall /\ ~control[s].closed
      /\ control[s] \in ControlState
      /\ states[Request(c)] = s
  BY DEF TypeOK, Objects, Acquire, Open
<1>2. control' = [control EXCEPT ![s] = n]
  BY DEF Acquire
<1>3. n \in ControlState /\ n.closed = control[s].closed /\ n.holder = c
  BY <1>1 DEF ControlState, Updated
<1>4. /\ pc' = [pc EXCEPT ![c] = "calling"]
      /\ UNCHANGED <<states, tombstones, local, registered>>
  BY DEF Acquire, Goto
<1> HIDE DEF n
<1>5. TypeOK'
  BY <1>1, <1>2, <1>3, <1>4 DEF TypeOK
<1>6. OpenIsNotTombstoned'
  BY <1>4 DEF OpenIsNotTombstoned, Tombstoned
<1>7. Objects'
  BY <1>1, <1>2, <1>3, <1>4 DEF TypeOK, Objects
<1>8. Locks'
  BY <1>1, <1>2, <1>3, <1>4 DEF TypeOK, Objects, Locks
<1>9. Fences'
  BY <1>1, <1>2, <1>3, <1>4 DEF TypeOK, Objects, Locks, Fences
<1>10. Swept'
  BY <1>1, <1>4 DEF TypeOK, Swept
<1> QED
  BY <1>5, <1>6, <1>7, <1>8, <1>9, <1>10

LEMMA RejectLatePreservesInv ==
  ASSUME Inv, NEW c \in Updates, RejectLate(c)
  PROVE  Inv'
<1> USE CallFacts DEF Inv
<1>1. TypeOK'
  BY DEF TypeOK, ControlState, Finished, RejectLate, Goto, Open
<1>2. OpenIsNotTombstoned'
  BY DEF TypeOK, OpenIsNotTombstoned, Tombstoned, RejectLate, Goto, Open
<1>3. Objects'
  BY DEF TypeOK, Objects, Fresh, RejectLate, Goto, Open
<1>4. Locks'
  BY DEF TypeOK, Objects, Locks, Fresh, ControlState, RejectLate, Goto, Open
<1>5. Fences'
  BY DEF TypeOK, Objects, Locks, Fences, Fresh, ControlState, RejectLate, Goto, Open
<1>6. Swept'
  BY DEF TypeOK, Objects, Locks, Fences, Swept, RejectLate, Goto, Open
<1> QED
  BY <1>1, <1>2, <1>3, <1>4, <1>5, <1>6 DEF Inv

\* Leaving the feedback channel releases the lock and changes nothing else.
LEMMA LeaveFacts ==
  ASSUME Inv, NEW c \in Calls, NEW label, Leave(c, label), pc[c] = "calling"
  PROVE  /\ pc' = [pc EXCEPT ![c] = label]
         /\ control' \in [Calls -> ControlState]
         /\ \A s \in Calls :
              /\ control'[s].closed = control[s].closed
              /\ s # local[c] => control'[s] = control[s]
              /\ s = local[c] => control'[s].holder = NoCall
<1> USE CallFacts DEF Inv
<1>1. control \in [Calls -> ControlState] /\ local[c] \in Calls \cup {NoCall}
  BY DEF TypeOK
<1>2. CASE local[c] = NoCall
  BY <1>1, <1>2 DEF Leave, Goto
<1>3. CASE local[c] # NoCall
  <2> DEFINE n == [control[local[c]] EXCEPT !.holder = NoCall]
  <2>1. /\ n \in ControlState /\ n.holder = NoCall
        /\ n.closed = control[local[c]].closed
    BY <1>1, <1>3 DEF ControlState
  <2>2. control' = [control EXCEPT ![local[c]] = n]
    BY <1>1, <1>3 DEF Leave
  <2> HIDE DEF n
  <2> QED
    BY <1>1, <1>3, <2>1, <2>2 DEF Leave, Goto
<1> QED
  BY <1>2, <1>3

LEMMA SubmitPreservesInv ==
  ASSUME Inv, NEW c \in Updates, Submit(c)
  PROVE  Inv'
<1> USE CallFacts DEF Inv
<1>1. PICK label \in {"returned", "broken"} :
      /\ Leave(c, label)
      /\ registered' \in
           {registered,
            [registered EXCEPT ![Request(c)] = Combined(control[local[c]])]}
  BY DEF Submit
<1>2. /\ c \in Calls /\ pc[c] = "calling"
      /\ UNCHANGED <<states, tombstones, local>>
      /\ label \in Finished /\ label # "idle" /\ label # "calling"
  BY DEF Submit, Finished
<1>3. /\ pc' = [pc EXCEPT ![c] = label]
      /\ control' \in [Calls -> ControlState]
      /\ \A s \in Calls :
           /\ control'[s].closed = control[s].closed
           /\ s # local[c] => control'[s] = control[s]
           /\ s = local[c] => control'[s].holder = NoCall
  BY <1>1, <1>2, LeaveFacts
<1>4. \A r \in Requests :
        /\ DOMAIN registered'[r] \subseteq Nat
        /\ \A i \in DOMAIN registered'[r] : registered'[r][i] \in Draft
  <2>1. control[local[c]] \in ControlState
    BY <1>2 DEF TypeOK, Objects
  <2>2. /\ DOMAIN Combined(control[local[c]]) \subseteq Nat
        /\ \A i \in DOMAIN Combined(control[local[c]]) :
             Combined(control[local[c]])[i] \in Draft
    BY <2>1, CombinedTyped
  <2> QED
    BY <1>1, <1>2, <2>2 DEF TypeOK
<1>5. TypeOK'
  BY <1>1, <1>2, <1>3, <1>4 DEF TypeOK
<1>6. OpenIsNotTombstoned'
  BY <1>2 DEF OpenIsNotTombstoned, Tombstoned
<1>7. Objects'
  BY <1>2, <1>3 DEF TypeOK, Objects
<1>8. Locks'
  <2>1. ASSUME NEW d \in Calls, pc'[d] = "calling", local'[d] # NoCall
        PROVE  control'[local'[d]].holder = d
    <3>1. d # c /\ pc[d] = "calling" /\ local[d] \in Calls
          /\ local'[d] = local[d]
      BY <1>2, <1>3, <2>1 DEF TypeOK
    <3>2. control[local[d]].holder = d
      BY <2>1, <3>1 DEF Locks
    <3>3. local[d] # local[c]
      BY <1>2, <3>1, <3>2 DEF Locks
    <3> QED
      BY <1>3, <3>1, <3>2, <3>3
  <2>2. ASSUME NEW s \in Calls, control'[s].holder # NoCall
        PROVE  /\ pc'[control'[s].holder] = "calling"
               /\ local'[control'[s].holder] = s
    BY <1>2, <1>3, <2>2 DEF TypeOK, Locks, ControlState
  <2> QED
    BY <2>1, <2>2 DEF Locks
<1>9. Fences'
  BY <1>2, <1>3 DEF TypeOK, Objects, Locks, Fences
<1>10. Swept'
  <2>1. ASSUME NEW k \in Clears
        PROVE  pc'[k] = pc[k]
    BY <1>2, <1>3, <2>1 DEF TypeOK, Updates
  <2>2. ASSUME NEW r \in Requests, states'[r] = NoCall, registered'[r] # Nothing
        PROVE  \E k \in Clears : /\ Request(k) = r
                                 /\ pc[k] \in {"waiting", "calling", "broken"}
    <3>1. CASE r = Request(c)
      <4>1. local[c] # NoCall /\ local[c] \in Calls
        BY <1>2 DEF TypeOK, Objects
      <4>2. control[local[c]].closed
        BY <1>2, <2>2, <3>1, <4>1 DEF Fences
      <4>3. control[local[c]].holder = c
        BY <1>2, <4>1 DEF Locks
      <4>4. PICK k \in Clears : local[k] = local[c] /\ pc[k] = "waiting"
        BY <4>1, <4>2, <4>3 DEF Fences
      <4>5. Request(k) = Request(c)
        BY <1>2, <4>1, <4>4 DEF Objects, Clears
      <4> QED
        BY <3>1, <4>4, <4>5
    <3>2. CASE r # Request(c)
      <4>1. registered'[r] = registered[r] /\ states[r] = NoCall
        BY <1>1, <1>2, <2>2, <3>2 DEF TypeOK
      <4> QED
        BY <2>2, <4>1 DEF Swept
    <3> QED
      BY <3>1, <3>2
  <2> QED
    BY <2>1, <2>2 DEF Swept
<1> QED
  BY <1>5, <1>6, <1>7, <1>8, <1>9, <1>10

LEMMA BeginClearPreservesInv ==
  ASSUME Inv, NEW c \in Clears, BeginClear(c)
  PROVE  Inv'
<1> USE CallFacts DEF Inv
<1> DEFINE r == Request(c)
           s == states[r]
<1>1. /\ c \in Calls /\ r \in Requests /\ pc[c] = "idle"
      /\ s \in Calls \cup {NoCall}
      /\ states' = [states EXCEPT ![r] = NoCall]
      /\ local' = [local EXCEPT ![c] = s]
      /\ pc' = [pc EXCEPT ![c] = IF s = NoCall THEN "calling" ELSE "waiting"]
      /\ tombstones' = Entombed(r)
      /\ UNCHANGED registered
  BY DEF TypeOK, BeginClear, Goto
<1>2. /\ control' \in [Calls -> ControlState]
      /\ \A t \in Calls :
           /\ control'[t].holder = control[t].holder
           /\ control'[t].closed = (control[t].closed \/ t = s)
           /\ t # s => control'[t] = control[t]
  <2>1. control \in [Calls -> ControlState]
    BY DEF TypeOK
  <2>2. CASE s = NoCall
    BY <1>1, <2>1, <2>2 DEF BeginClear, ControlState
  <2>3. CASE s # NoCall
    <3> DEFINE n == [control[s] EXCEPT !.closed = TRUE]
    <3>1. /\ n \in ControlState /\ n.closed = TRUE
          /\ n.holder = control[s].holder
      BY <1>1, <2>1, <2>3 DEF ControlState
    <3>2. control' = [control EXCEPT ![s] = n]
      BY <2>1, <2>3 DEF BeginClear
    <3> HIDE DEF n
    <3> QED
      BY <1>1, <2>1, <2>3, <3>1, <3>2 DEF ControlState
  <2> QED
    BY <2>2, <2>3
<1>3. /\ tombstones' \in Seq(Requests)
      /\ Len(tombstones') <= MaxClosed
      /\ \A i, j \in DOMAIN tombstones' :
           tombstones'[i] = tombstones'[j] => i = j
      /\ \A i \in DOMAIN tombstones' :
           \/ tombstones'[i] = r
           \/ \E k \in DOMAIN tombstones : tombstones[k] = tombstones'[i]
  BY <1>1, EntombedFacts
<1>4. TypeOK'
  BY <1>1, <1>2, <1>3 DEF TypeOK, Finished
<1>5. OpenIsNotTombstoned'
  BY <1>1, <1>3 DEF TypeOK, OpenIsNotTombstoned, Tombstoned
<1>6. Objects'
  BY <1>1, <1>2 DEF TypeOK, Objects
<1>7. Locks'
  BY <1>1, <1>2, SMTT(30) DEF TypeOK, Objects, Locks, Fresh
<1>8. Fences'
  <2>1. ASSUME NEW d \in Calls, local'[d] # NoCall
        PROVE  states'[Request(d)] = local'[d] \/ control'[local'[d]].closed
    <3>1. CASE d = c
      BY <1>1, <1>2, <2>1, <3>1 DEF TypeOK
    <3>2. CASE d # c
      <4>1. local[d] \in Calls /\ local'[d] = local[d]
        BY <1>1, <2>1, <3>2 DEF TypeOK
      <4>2. states[Request(d)] = local[d] \/ control[local[d]].closed
        BY <4>1 DEF Fences
      <4>3. CASE control[local[d]].closed
        BY <1>2, <4>1, <4>3
      <4>4. CASE states[Request(d)] = local[d] /\ Request(d) = r
        BY <1>2, <4>1, <4>4
      <4>5. CASE states[Request(d)] = local[d] /\ Request(d) # r
        BY <1>1, <4>1, <4>5 DEF TypeOK
      <4> QED
        BY <4>2, <4>3, <4>4, <4>5
    <3> QED
      BY <3>1, <3>2
  <2>2. ASSUME NEW t \in Calls, control'[t].closed, control'[t].holder \in Updates
        PROVE  \E k \in Clears : local'[k] = t /\ pc'[k] = "waiting"
    <3>1. CASE t = s
      BY <1>1, <3>1 DEF TypeOK
    <3>2. CASE t # s
      <4>1. PICK k \in Clears : local[k] = t /\ pc[k] = "waiting"
        BY <1>2, <2>2, <3>2 DEF Fences
      <4>2. k # c
        BY <1>1, <4>1
      <4> QED
        BY <1>1, <4>1, <4>2 DEF TypeOK
    <3> QED
      BY <3>1, <3>2
  <2> QED
    BY <2>1, <2>2 DEF Fences
<1>9. Swept'
  BY <1>1 DEF TypeOK, Objects, Swept
<1> QED
  BY <1>4, <1>5, <1>6, <1>7, <1>8, <1>9

LEMMA AcquireClearPreservesInv ==
  ASSUME Inv, NEW c \in Clears, AcquireClear(c)
  PROVE  Inv'
<1> USE CallFacts DEF Inv
<1> DEFINE s == local[c]
           n == [control[s] EXCEPT !.holder = c]
<1>1. /\ c \in Calls /\ s \in Calls /\ pc[c] = "waiting" /\ pc[s] # "idle"
      /\ control[s].holder = NoCall
      /\ control[s] \in ControlState
  BY DEF TypeOK, Objects, AcquireClear
<1>2. control' = [control EXCEPT ![s] = n]
  BY <1>1 DEF TypeOK, ControlState, AcquireClear
<1>3. n \in ControlState /\ n.closed = control[s].closed /\ n.holder = c
  BY <1>1 DEF ControlState
<1>4. /\ pc' = [pc EXCEPT ![c] = "calling"]
      /\ UNCHANGED <<states, tombstones, local, registered>>
  BY DEF AcquireClear, Goto
<1> HIDE DEF n
<1>5. TypeOK'
  BY <1>1, <1>2, <1>3, <1>4 DEF TypeOK
<1>6. OpenIsNotTombstoned'
  BY <1>4 DEF OpenIsNotTombstoned, Tombstoned
<1>7. Objects'
  BY <1>1, <1>2, <1>3, <1>4 DEF TypeOK, Objects
<1>8. Locks'
  BY <1>1, <1>2, <1>3, <1>4 DEF TypeOK, Objects, Locks
<1>9. Fences'
  BY <1>1, <1>2, <1>3, <1>4 DEF TypeOK, Objects, Locks, Fences
<1>10. Swept'
  BY <1>1, <1>4 DEF TypeOK, Swept
<1> QED
  BY <1>5, <1>6, <1>7, <1>8, <1>9, <1>10

LEMMA ClearFeedbackPreservesInv ==
  ASSUME Inv, NEW c \in Clears, ClearFeedback(c)
  PROVE  Inv'
<1> USE CallFacts DEF Inv
<1>1. PICK label \in {"returned", "broken"} :
      /\ Leave(c, label)
      /\ registered' \in {registered, [registered EXCEPT ![Request(c)] = Nothing]}
      /\ label = "returned" =>
           registered' = [registered EXCEPT ![Request(c)] = Nothing]
  BY DEF ClearFeedback
<1>2. /\ c \in Calls /\ pc[c] = "calling"
      /\ UNCHANGED <<states, tombstones, local>>
      /\ label \in Finished /\ label # "idle" /\ label # "calling"
  BY DEF ClearFeedback, Finished
<1>3. /\ pc' = [pc EXCEPT ![c] = label]
      /\ control' \in [Calls -> ControlState]
      /\ \A s \in Calls :
           /\ control'[s].closed = control[s].closed
           /\ s # local[c] => control'[s] = control[s]
           /\ s = local[c] => control'[s].holder = NoCall
  BY <1>1, <1>2, LeaveFacts
<1>4. \A r \in Requests :
        /\ DOMAIN registered'[r] \subseteq Nat
        /\ \A i \in DOMAIN registered'[r] : registered'[r][i] \in Draft
  BY <1>1, <1>2 DEF TypeOK, Nothing
<1>5. TypeOK'
  BY <1>1, <1>2, <1>3, <1>4 DEF TypeOK
<1>6. OpenIsNotTombstoned'
  BY <1>2 DEF OpenIsNotTombstoned, Tombstoned
<1>7. Objects'
  BY <1>2, <1>3 DEF TypeOK, Objects
<1>8. Locks'
  BY <1>2, <1>3 DEF TypeOK, Objects, Locks
<1>9. Fences'
  BY <1>2, <1>3 DEF TypeOK, Objects, Locks, Fences
<1>10. Swept'
  BY <1>1, <1>2, <1>3 DEF TypeOK, Objects, Locks, Fences, Swept
<1> QED
  BY <1>5, <1>6, <1>7, <1>8, <1>9, <1>10

LEMMA NextPreservesInv == Inv /\ [Next]_vars => Inv'
<1> SUFFICES ASSUME Inv, [Next]_vars PROVE Inv'
  OBVIOUS
<1>1. ASSUME NEW c \in Updates,
             Admit(c) \/ Refuse(c) \/ Build(c) \/ Acquire(c) \/ RejectLate(c)
               \/ Submit(c)
      PROVE  Inv'
  BY <1>1, AdmitPreservesInv, RefusePreservesInv, BuildPreservesInv,
     AcquirePreservesInv, RejectLatePreservesInv, SubmitPreservesInv
<1>2. ASSUME NEW c \in Clears,
             BeginClear(c) \/ AcquireClear(c) \/ ClearFeedback(c)
      PROVE  Inv'
  BY <1>2, BeginClearPreservesInv, AcquireClearPreservesInv,
     ClearFeedbackPreservesInv
<1>3. CASE UNCHANGED vars
  BY <1>3 DEF vars, Inv, TypeOK, OpenIsNotTombstoned, Tombstoned, Objects,
              Locks, Fences, Swept
<1> QED
  BY <1>1, <1>2, <1>3 DEF Next

\* Inv holds throughout (fairness plays no part).
LEMMA InvHolds == Spec => []Inv
BY InitEstablishesInv, NextPreservesInv, PTL DEF Spec

-----------------------------------------------------------------------------
\* Every behaviour of the control plane is well typed; in particular it never
\* keeps more than max_closed_requests tombstones.
THEOREM ControlPlaneTyped == Spec => []TypeOK
<1>1. Inv => TypeOK
  BY DEF Inv
<1> QED
  BY <1>1, InvHolds, PTL

\* No request is in _states and in _closed_requests at once.
THEOREM OpenRequestsAreNotTombstoned == Spec => []OpenIsNotTombstoned
<1>1. Inv => OpenIsNotTombstoned
  BY DEF Inv
<1> QED
  BY <1>1, InvHolds, PTL

\* Nothing is registered for a request whose clears have all returned and that
\* has not been opened again, whatever was in flight and whichever tombstones
\* have been evicted (`clear`, _ensure_open).
THEOREM ClearedRequestsStayCleared == Spec => []LateUpdatesFenced
<1>1. Inv => LateUpdatesFenced
  <2> SUFFICES ASSUME Inv, NEW r \in Requests, states[r] = NoCall,
                      \A c \in Begun(r, {"clear"}) : pc[c] = "returned"
               PROVE  registered[r] = Nothing
    BY DEF LateUpdatesFenced
  <2>1. SUFFICES ASSUME registered[r] # Nothing
                 PROVE  FALSE
    OBVIOUS
  <2>2. PICK k \in Clears : /\ Request(k) = r
                           /\ pc[k] \in {"waiting", "calling", "broken"}
    BY <2>1 DEF Inv, Swept
  <2>3. k \in Begun(r, {"clear"})
    BY <2>2 DEF Begun, Clears
  <2> QED
    BY <2>2, <2>3
<1> QED
  BY <1>1, InvHolds, PTL

-----------------------------------------------------------------------------
(***************************************************************************)
(* No update is lost: what the channel holds is the merge of the last      *)
(* drafts of both sides.                                                   *)
(***************************************************************************)
\* A bundle says what a sequence of drafts says: each content once, with the
\* sources of all who proposed it. (The conclusion of NoUpdateLost.)
Reflects(bundle, all) ==
  /\ ContentsOf(bundle) = ContentsOf(all)
  /\ Cardinality(DOMAIN bundle) = Cardinality(ContentsOf(bundle))
  /\ \A i \in DOMAIN bundle, j \in DOMAIN all :
       bundle[i].content = all[j].content
         => all[j].sources \subseteq bundle[i].sources

DraftsOf(s) == s.external \o s.self

\* A function that tells the members of its finite domain apart has as many values.
LEMMA DistinctContentsCount ==
  ASSUME NEW b, IsFiniteSet(DOMAIN b),
         \A i, j \in DOMAIN b : b[i].content = b[j].content => i = j
  PROVE  Cardinality(DOMAIN b) = Cardinality(ContentsOf(b))
<1> DEFINE f == [i \in DOMAIN b |-> b[i].content]
<1>1. f \in Injection(DOMAIN b, ContentsOf(b))
  <2>1. f \in [DOMAIN b -> ContentsOf(b)]
    BY DEF ContentsOf
  <2>2. IsInjective(f)
    BY DEF IsInjective
  <2> QED
    BY <2>1, <2>2 DEF Injection
<1>2. f \in Surjection(DOMAIN b, ContentsOf(b))
  BY DEF Surjection, ContentsOf
<1>3. ExistsBijection(DOMAIN b, ContentsOf(b))
  BY <1>1, <1>2 DEF ExistsBijection, Bijection
<1> QED
  BY <1>3, FS_Bijection, Zenon

\* _combined says what the candidates and the fork's draft say.
LEMMA CombinedReflects ==
  ASSUME NEW s \in ControlState
  PROVE  Reflects(Combined(s), DraftsOf(s))
<1> DEFINE all == DraftsOf(s)
           firsts == {i \in DOMAIN all :
                        \A j \in 1..(i - 1) : ~SameDraft(all[j], all[i])}
           same(i) == {d \in Range(all) : SameDraft(d, all[i])}
           b == Combined(s)
<1>1. all \in Seq(Draft)
  <2>1. s.external \in Seq(Draft) /\ s.self \in Seq(Draft)
    BY DEF ControlState
  <2> QED
    BY <2>1 DEF DraftsOf
<1>2. b = [i \in firsts |-> Merged(all[i], same(i))]
  BY DEF Combined, DraftsOf
<1> HIDE DEF all, b
<1>3. /\ Len(all) \in Nat /\ DOMAIN all = 1..Len(all)
      /\ \A i \in DOMAIN all : all[i] \in Draft
  BY <1>1
<1>4. ASSUME NEW i \in firsts
      PROVE  /\ i \in DOMAIN all /\ b[i].content = all[i].content
             /\ \A d \in same(i) : d.sources \subseteq b[i].sources
  <2>1. b[i] = Merged(all[i], same(i)) /\ i \in DOMAIN all /\ all[i] \in Draft
    BY <1>2, <1>3
  <2>2. /\ b[i].content = all[i].content
        /\ b[i].sources = UNION {d.sources : d \in same(i)}
    BY <2>1 DEF Merged, Draft
  <2> QED
    BY <2>1, <2>2
<1>5. DOMAIN b = firsts
  BY <1>2
<1>6. ASSUME NEW j \in DOMAIN all
      PROVE  \E i \in firsts : all[i].content = all[j].content
  <2> DEFINE J == {i \in DOMAIN all : all[i].content = all[j].content}
  <2>1. J \in SUBSET Nat /\ J # {}
    BY <1>3
  <2>2. PICK m \in J : \A n \in J : m <= n
    BY <2>1, MinOfNaturals
  <2>3. \A n \in 1..(m - 1) : n \in DOMAIN all /\ ~SameDraft(all[n], all[m])
    BY <1>3, <2>2 DEF SameDraft
  <2> QED
    BY <2>2, <2>3
<1>7. ContentsOf(b) = ContentsOf(all)
  BY <1>4, <1>5, <1>6 DEF ContentsOf
<1>8. ASSUME NEW i \in firsts, NEW j \in firsts, b[i].content = b[j].content
      PROVE  i = j
  <2>1. /\ i \in 1..Len(all) /\ j \in 1..Len(all)
        /\ all[i].content = all[j].content
    BY <1>3, <1>4, <1>8
  <2>2. ~(i < j) /\ ~(j < i)
    BY <1>3, <2>1 DEF SameDraft
  <2> QED
    BY <1>3, <2>1, <2>2
<1>9. IsFiniteSet(DOMAIN b)
  <2>1. IsFiniteSet(1..Len(all))
    BY <1>3, FS_Interval
  <2>2. firsts \subseteq 1..Len(all)
    BY <1>3
  <2> QED
    BY <1>5, <2>1, <2>2, FS_Subset
<1>10. Cardinality(DOMAIN b) = Cardinality(ContentsOf(b))
  BY <1>5, <1>8, <1>9, DistinctContentsCount
<1>11. ASSUME NEW i \in firsts, NEW j \in DOMAIN all,
              b[i].content = all[j].content
       PROVE  all[j].sources \subseteq b[i].sources
  <2>1. all[j] \in same(i)
    BY <1>4, <1>11 DEF SameDraft, Range
  <2> QED
    BY <1>4, <2>1
<1> QED
  BY <1>5, <1>7, <1>10, <1>11 DEF Reflects, all, b

\* A request nothing was registered for reflects a state object nobody has
\* written to.
LEMMA NothingReflectsFresh == Reflects(Nothing, DraftsOf(Fresh))
<1>1. DraftsOf(Fresh) = <<>>
  BY DEF DraftsOf, Fresh
<1>2. DOMAIN Nothing = {}
  BY DEF Nothing
<1>3. ContentsOf(Nothing) = {} /\ ContentsOf(DraftsOf(Fresh)) = {}
  BY <1>1, <1>2 DEF ContentsOf
<1> QED
  BY <1>1, <1>2, <1>3 DEF Reflects
-----------------------------------------------------------------------------
\* A state object is closed by a clear of its request that has begun.
ClosedByClear ==
  \A s \in Calls : control[s].closed => Begun(Request(s), {"clear"}) # {}

\* The premise of NoUpdateLost for an open request.
Settled(r) ==
  /\ Begun(r, {"clear"}) = {}
  /\ states[r] # NoCall /\ control[states[r]].holder = NoCall
  /\ \A c \in Begun(r, {"candidates", "fork"}) : pc[c] # "broken"

MergeInv == Inv /\ ClosedByClear /\ NoUpdateLost

LEMMA NoUpdateLostMeans ==
  NoUpdateLost <=>
    \A r \in Requests :
      Settled(r) => Reflects(registered[r], DraftsOf(control[states[r]]))
BY DEF NoUpdateLost, Settled, Reflects, DraftsOf

LEMMA InitMerges == Init => MergeInv
<1> SUFFICES ASSUME Init PROVE MergeInv
  OBVIOUS
<1>1. Inv
  BY InitEstablishesInv
<1>2. ClosedByClear /\ NoUpdateLost
  BY DEF Init, Fresh, ClosedByClear, NoUpdateLost
<1> QED
  BY <1>1, <1>2 DEF MergeInv

\* A step that moves one call's label: calls that have begun stay so, and none comes
\* back from "broken".
LEMMA LabelMoves ==
  ASSUME Inv, NEW c \in Calls, NEW label, pc' = [pc EXCEPT ![c] = label],
         pc[c] # "broken", label # "idle", NEW r \in Requests
  PROVE  /\ Begun(r, {"clear"}) \subseteq Begun(r, {"clear"})'
         /\ (\A d \in Begun(r, {"candidates", "fork"})' : pc'[d] # "broken")
              => \A d \in Begun(r, {"candidates", "fork"}) : pc[d] # "broken"
<1>1. pc \in [Calls -> Finished \cup {"idle", "building", "waiting", "calling"}]
  BY DEF Inv, TypeOK
<1> QED
  BY <1>1 DEF Begun, Request

\* A request that a step does not touch stays merged.
LEMMA UntouchedStaysMerged ==
  ASSUME MergeInv, NEW c \in Calls, NEW label, pc' = [pc EXCEPT ![c] = label],
         pc[c] # "broken", label # "idle",
         NEW r \in Requests, Settled(r)',
         states'[r] = states[r], registered'[r] = registered[r],
         control'[states[r]] = control[states[r]]
  PROVE  Reflects(registered'[r], DraftsOf(control'[states'[r]]))
<1>1. Settled(r)
  BY LabelMoves DEF MergeInv, Settled
<1>2. Reflects(registered[r], DraftsOf(control[states[r]]))
  BY <1>1, NoUpdateLostMeans DEF MergeInv
<1> QED
  BY <1>2

\* Closed objects stay explained as long as no new one is closed.
LEMMA NoNewClosed ==
  ASSUME MergeInv, NEW c \in Calls, NEW label, pc' = [pc EXCEPT ![c] = label],
         pc[c] # "broken", label # "idle",
         \A s \in Calls : control'[s].closed => control[s].closed
  PROVE  ClosedByClear'
<1> SUFFICES ASSUME NEW s \in Calls, control'[s].closed
             PROVE  Begun(Request(s), {"clear"})' # {}
  BY DEF ClosedByClear, Request
<1>1. Request(s) \in Requests
  BY CallFacts
<1>2. Begun(Request(s), {"clear"}) # {}
  BY DEF MergeInv, ClosedByClear
<1> QED
  BY <1>1, <1>2, LabelMoves DEF MergeInv

LEMMA MergesPrime ==
  ASSUME \A r \in Requests :
           Settled(r)' => Reflects(registered'[r], DraftsOf(control'[states'[r]]))
  PROVE  NoUpdateLost'
BY DEF NoUpdateLost, Settled, Reflects, DraftsOf

\* Only labels and locks change (Refuse, Build, RejectLate, Acquire of a clear).
LEMMA LockingMerges ==
  ASSUME MergeInv, NEW c \in Calls, NEW label, pc' = [pc EXCEPT ![c] = label],
         pc[c] # "broken", label # "idle",
         UNCHANGED <<states, registered>>,
         \A s \in Calls :
           \/ control'[s] = control[s]
           \/ /\ control'[s].holder # NoCall
              /\ control'[s].closed = control[s].closed
  PROVE  ClosedByClear' /\ NoUpdateLost'
<1>1. ClosedByClear'
  BY NoNewClosed
<1>2. ASSUME NEW r \in Requests, Settled(r)'
      PROVE  Reflects(registered'[r], DraftsOf(control'[states'[r]]))
  <2>1. states[r] \in Calls /\ control'[states[r]].holder = NoCall
    BY <1>2 DEF Settled, MergeInv, Inv, TypeOK
  <2>2. control'[states[r]] = control[states[r]]
    BY <2>1
  <2> QED
    BY <1>2, <2>2, UntouchedStaysMerged
<1> QED
  BY <1>1, <1>2, MergesPrime

LEMMA AdmitMerges ==
  ASSUME MergeInv, NEW c \in Updates, Admit(c)
  PROVE  ClosedByClear' /\ NoUpdateLost'
<1>1. /\ c \in Calls /\ pc[c] = "idle" /\ control[c] = Fresh
      /\ pc' = [pc EXCEPT ![c] = "building"]
      /\ UNCHANGED <<control, registered>>
  BY CallFacts DEF Admit, Goto, MergeInv, Inv, Objects
<1>2. ClosedByClear'
  BY <1>1, NoNewClosed
<1>3. ASSUME NEW r \in Requests, Settled(r)'
      PROVE  Reflects(registered'[r], DraftsOf(control'[states'[r]]))
  <2>1. CASE states'[r] = states[r]
    BY <1>1, <1>3, <2>1, UntouchedStaysMerged
  <2>2. CASE states'[r] # states[r]
    <3>1. states[r] = NoCall /\ states'[r] = c
      BY <1>3, <2>2 DEF Admit, MergeInv, Inv, TypeOK
    <3>2. Begun(r, {"clear"}) = {}
      BY <1>1, <1>3, LabelMoves DEF MergeInv, Settled
    <3>3. registered[r] = Nothing
      BY <3>1, <3>2 DEF MergeInv, Inv, Swept, Begun, Clears
    <3> QED
      BY <1>1, <3>1, <3>3, NothingReflectsFresh
  <2> QED
    BY <2>1, <2>2
<1> QED
  BY <1>2, <1>3, MergesPrime

LEMMA SubmitMerges ==
  ASSUME MergeInv, NEW c \in Updates, Submit(c)
  PROVE  ClosedByClear' /\ NoUpdateLost'
<1> DEFINE q == Request(c)
           s == local[c]
<1>1. PICK label \in {"returned", "broken"} :
      /\ Leave(c, label)
      /\ registered' \in
           {registered, [registered EXCEPT ![q] = Combined(control[s])]}
      /\ label = "returned" =>
           registered' = [registered EXCEPT ![q] = Combined(control[s])]
  BY DEF Submit
<1>2. /\ c \in Calls /\ q \in Requests /\ pc[c] = "calling"
      /\ s \in Calls /\ control[s] \in ControlState
      /\ UNCHANGED states /\ label # "idle"
  BY CallFacts DEF Submit, MergeInv, Inv, TypeOK, Objects
<1>3. /\ pc' = [pc EXCEPT ![c] = label]
      /\ \A t \in Calls : /\ control'[t].closed = control[t].closed
                          /\ t # s => control'[t] = control[t]
  BY <1>1, <1>2, LeaveFacts DEF MergeInv
<1>4. ClosedByClear'
  BY <1>2, <1>3, NoNewClosed
<1>5. ASSUME NEW r \in Requests, Settled(r)', r # q
      PROVE  Reflects(registered'[r], DraftsOf(control'[states'[r]]))
  <2>1. states[r] \in Calls /\ states[r] # s
    BY <1>2, <1>5 DEF Settled, MergeInv, Inv, TypeOK, Objects
  <2>2. registered'[r] = registered[r]
    BY <1>1, <1>5 DEF MergeInv, Inv, TypeOK
  <2> QED
    BY <1>2, <1>3, <1>5, <2>1, <2>2, UntouchedStaysMerged
<1>6. ASSUME Settled(q)'
      PROVE  Reflects(registered'[q], DraftsOf(control'[states'[q]]))
  <2>1. label = "returned"
    <3>1. c \in Begun(q, {"candidates", "fork"})'
      <4>1. pc'[c] # "idle" /\ Payload[c].kind \in {"candidates", "fork"}
        BY <1>2, <1>3, CallsAssumption DEF MergeInv, Inv, TypeOK, Updates, Clears
      <4> QED
        BY <1>2, <4>1 DEF Begun, Request
    <3>2. pc'[c] = label
      BY <1>2, <1>3 DEF MergeInv, Inv, TypeOK
    <3> QED
      BY <1>6, <3>1, <3>2 DEF Settled
  <2>2. Begun(q, {"clear"}) = {}
    BY <1>2, <1>3, <1>6, LabelMoves DEF MergeInv, Settled
  <2>3. ~control[s].closed
    <3>1. Request(s) = q
      BY <1>2, CallFacts DEF MergeInv, Inv, Objects
    <3> QED
      BY <1>2, <2>2, <3>1 DEF MergeInv, ClosedByClear
  <2>4. states[q] = s
    BY <1>2, <2>3, CallFacts DEF MergeInv, Inv, Fences
  <2>5. registered'[q] = Combined(control[s])
    BY <1>1, <1>2, <2>1 DEF MergeInv, Inv, TypeOK
  <2>6. DraftsOf(control'[s]) = DraftsOf(control[s])
    <3>1. control' = [control EXCEPT ![s].holder = NoCall]
      BY <1>1, <1>2, CallFacts DEF Leave
    <3>2. control \in [Calls -> ControlState]
      BY DEF MergeInv, Inv, TypeOK
    <3> QED
      BY <1>2, <3>1, <3>2 DEF DraftsOf, ControlState
  <2> QED
    BY <1>2, <2>4, <2>5, <2>6, CombinedReflects
<1> QED
  BY <1>4, <1>5, <1>6, MergesPrime

LEMMA BeginClearMerges ==
  ASSUME MergeInv, NEW c \in Clears, BeginClear(c)
  PROVE  ClosedByClear' /\ NoUpdateLost'
<1> DEFINE q == Request(c)
           s == states[q]
           label == IF s = NoCall THEN "calling" ELSE "waiting"
<1>1. /\ c \in Calls /\ q \in Requests /\ pc[c] = "idle"
      /\ s \in Calls \cup {NoCall}
      /\ pc' = [pc EXCEPT ![c] = label]
      /\ states' = [states EXCEPT ![q] = NoCall]
      /\ UNCHANGED registered
      /\ label # "idle"
  BY CallFacts DEF BeginClear, Goto, MergeInv, Inv, TypeOK
<1>2. \A t \in Calls : t # s => control'[t] = control[t]
  BY DEF BeginClear, MergeInv, Inv, TypeOK
<1> HIDE DEF label
<1>3. ASSUME NEW t \in Calls, control'[t].closed
      PROVE  Begun(Request(t), {"clear"})' # {}
  <2>1. CASE t = s
    <3>1. Request(t) = q
      BY <1>1, <2>1, CallFacts DEF MergeInv, Inv, Objects
    <3>2. c \in Begun(q, {"clear"})'
      BY <1>1 DEF Begun, Request, Clears, MergeInv, Inv, TypeOK
    <3> QED
      BY <3>1, <3>2
  <2>2. CASE t # s
    <3>1. Begun(Request(t), {"clear"}) # {} /\ Request(t) \in Requests
      BY <1>2, <1>3, <2>2, CallFacts DEF MergeInv, ClosedByClear
    <3> QED
      BY <1>1, <3>1, LabelMoves DEF MergeInv
  <2> QED
    BY <2>1, <2>2
<1>4. ASSUME NEW r \in Requests, Settled(r)'
      PROVE  Reflects(registered'[r], DraftsOf(control'[states'[r]]))
  <2>1. r # q
    BY <1>1, <1>4 DEF Settled, MergeInv, Inv, TypeOK
  <2>2. states'[r] = states[r] /\ states[r] \in Calls /\ states[r] # s
    BY <1>1, <1>4, <2>1 DEF Settled, MergeInv, Inv, TypeOK, Objects
  <2> QED
    BY <1>1, <1>2, <1>4, <2>2, UntouchedStaysMerged
<1> QED
  BY <1>3, <1>4, MergesPrime DEF ClosedByClear, Request

LEMMA ClearFeedbackMerges ==
  ASSUME MergeInv, NEW c \in Clears, ClearFeedback(c)
  PROVE  ClosedByClear' /\ NoUpdateLost'
<1> DEFINE q == Request(c)
<1>1. PICK label \in {"returned", "broken"} :
      /\ Leave(c, label)
      /\ registered' \in {registered, [registered EXCEPT ![q] = Nothing]}
  BY DEF ClearFeedback
<1>2. /\ c \in Calls /\ q \in Requests /\ pc[c] = "calling"
      /\ UNCHANGED states /\ label # "idle"
  BY CallFacts DEF ClearFeedback
<1>3. /\ pc' = [pc EXCEPT ![c] = label]
      /\ \A t \in Calls : /\ control'[t].closed = control[t].closed
                          /\ t # local[c] => control'[t] = control[t]
  BY <1>1, <1>2, LeaveFacts DEF MergeInv
<1>4. ClosedByClear'
  BY <1>2, <1>3, NoNewClosed
<1>5. ASSUME NEW r \in Requests, Settled(r)'
      PROVE  Reflects(registered'[r], DraftsOf(control'[states'[r]]))
  <2>1. c \in Begun(q, {"clear"})
    BY <1>2 DEF Begun, Clears
  <2>2. r # q
    BY <1>2, <1>3, <1>5, <2>1, LabelMoves DEF MergeInv, Settled
  <2>3. registered'[r] = registered[r]
    BY <1>1, <2>2 DEF MergeInv, Inv, TypeOK
  <2>4. states[r] \in Calls /\ states[r] # local[c]
    BY <1>2, <1>5, <2>2, CallFacts DEF Settled, MergeInv, Inv, TypeOK, Objects
  <2> QED
    BY <1>2, <1>3, <1>5, <2>3, <2>4, UntouchedStaysMerged
<1> QED
  BY <1>4, <1>5, MergesPrime

LEMMA NextMerges == MergeInv /\ [Next]_vars => MergeInv'
<1> SUFFICES ASSUME MergeInv, [Next]_vars PROVE MergeInv'
  OBVIOUS
<1>1. Inv'
  BY NextPreservesInv DEF MergeInv
<1>2. ASSUME NEW c \in Updates, Admit(c) \/ Submit(c)
      PROVE  ClosedByClear' /\ NoUpdateLost'
  BY <1>2, AdmitMerges, SubmitMerges
<1>3. ASSUME NEW c \in Updates, Refuse(c) \/ Build(c) \/ RejectLate(c)
      PROVE  ClosedByClear' /\ NoUpdateLost'
  <2>1. PICK label \in {"rejected", "waiting", "failed"} :
          pc' = [pc EXCEPT ![c] = label]
    BY <1>3 DEF Refuse, Build, RejectLate, Goto
  <2>2. /\ c \in Calls /\ pc[c] # "broken" /\ label # "idle"
        /\ UNCHANGED <<states, registered, control>>
    BY <1>3, CallFacts DEF Refuse, Build, RejectLate
  <2> QED
    BY <2>1, <2>2, LockingMerges
<1>4. ASSUME NEW c \in Updates, Acquire(c)
      PROVE  ClosedByClear' /\ NoUpdateLost'
  <2> DEFINE s == local[c]
             n == Updated(control[s], c)
  <2>1. /\ control' = [control EXCEPT ![s] = n]
        /\ pc' = [pc EXCEPT ![c] = "calling"]
        /\ c \in Calls /\ pc[c] = "waiting" /\ UNCHANGED <<states, registered>>
    BY <1>4, CallFacts DEF Acquire, Goto
  <2>2. s \in Calls /\ control[s] \in ControlState
    BY <2>1 DEF MergeInv, Inv, TypeOK, Objects
  <2>3. n.holder # NoCall /\ n.closed = control[s].closed
    BY <2>1, <2>2, CallFacts DEF Updated, ControlState
  <2> HIDE DEF n
  <2>4. \A t \in Calls :
          \/ control'[t] = control[t]
          \/ control'[t].holder # NoCall /\ control'[t].closed = control[t].closed
    BY <2>1, <2>2, <2>3 DEF MergeInv, Inv, TypeOK
  <2> QED
    BY <2>1, <2>4, LockingMerges
<1>5. ASSUME NEW c \in Clears, AcquireClear(c)
      PROVE  ClosedByClear' /\ NoUpdateLost'
  <2> DEFINE s == local[c]
             n == [control[s] EXCEPT !.holder = c]
  <2>1. /\ pc' = [pc EXCEPT ![c] = "calling"]
        /\ c \in Calls /\ pc[c] = "waiting" /\ UNCHANGED <<states, registered>>
    BY <1>5, CallFacts DEF AcquireClear, Goto
  <2>2. s \in Calls /\ control[s] \in ControlState
    BY <2>1 DEF MergeInv, Inv, TypeOK, Objects
  <2>3. n.holder # NoCall /\ n.closed = control[s].closed
    BY <2>1, <2>2, CallFacts DEF ControlState
  <2>4. control' = [control EXCEPT ![s] = n]
    BY <1>5, <2>2 DEF AcquireClear, MergeInv, Inv, TypeOK, ControlState
  <2> HIDE DEF n
  <2>5. \A t \in Calls :
          \/ control'[t] = control[t]
          \/ control'[t].holder # NoCall /\ control'[t].closed = control[t].closed
    BY <2>2, <2>3, <2>4 DEF MergeInv, Inv, TypeOK
  <2> QED
    BY <2>1, <2>5, LockingMerges
<1>6. ASSUME NEW c \in Clears, BeginClear(c) \/ ClearFeedback(c)
      PROVE  ClosedByClear' /\ NoUpdateLost'
  BY <1>6, BeginClearMerges, ClearFeedbackMerges
<1>7. ASSUME UNCHANGED vars
      PROVE  ClosedByClear' /\ NoUpdateLost'
  <2>1. ClosedByClear'
    BY <1>7 DEF vars, MergeInv, ClosedByClear, Begun
  <2>2. ASSUME NEW r \in Requests, Settled(r)'
        PROVE  Reflects(registered'[r], DraftsOf(control'[states'[r]]))
    <3>1. Settled(r)
      BY <1>7, <2>2 DEF vars, Settled, Begun
    <3>2. Reflects(registered[r], DraftsOf(control[states[r]]))
      BY <3>1, NoUpdateLostMeans DEF MergeInv
    <3> QED
      BY <1>7, <3>2 DEF vars
  <2> QED
    BY <2>1, <2>2, MergesPrime
<1> QED
  BY <1>1, <1>2, <1>3, <1>4, <1>5, <1>6, <1>7 DEF Next, MergeInv
-----------------------------------------------------------------------------
\* No update is lost: while a request is open, unlocked and the channel has not
\* failed it, the channel holds the last candidates and the last fork draft that
\* got in, each content once, with everybody's sources (_combined, submit).
THEOREM UpdatesAreMerged == Spec => []NoUpdateLost
<1>1. MergeInv => NoUpdateLost
  BY DEF MergeInv
<1> QED
  BY <1>1, InitMerges, NextMerges, PTL DEF Spec

-----------------------------------------------------------------------------
(***************************************************************************)
(* The fork route: what an answer of 200 stands for.                       *)
(***************************************************************************)
\* Where the route is, its iterator and its answer agree; only a fork has a stream.
RouteInStep ==
  /\ job \in Jobs
  /\ stage \in {"received", "reading", "closing", "answering", "done"}
  /\ stage = "received" => iterator = "none" /\ written = <<>>
  /\ stage \in {"reading", "closing"} => iterator = "open"
  /\ stage = "answering" => iterator = "closed"
  /\ stage = "done" => iterator # "open"
  /\ iterator # "none" => job.kind = "fork"
  /\ stage # "done" => status # 200

\* The request of a fork leaves the prompt its room in the window, and the stream
\* keeps to the request.
RequestFits ==
  iterator # "none" =>
    /\ IsText(prompt)
    /\ limit \in Nat
    /\ job.window # None => Len(prompt) + limit <= job.window
    /\ IsText(written)
    /\ Len(written) <= limit

\* An answer of 200 has been checked; the cache tokens reported are the engine's.
AnswerChecked ==
  job.kind = "fork" =>
    /\ reused \in {0, job.cached}
    /\ status = 200 => /\ iterator = "closed"
                       /\ calls # <<>>
                       /\ CacheProven

RouteInv == RouteInStep /\ RequestFits /\ AnswerChecked

-----------------------------------------------------------------------------
(***************************************************************************)
(* Tags and the places they have in a text.                                *)
(***************************************************************************)
\* A tag is a lexeme of its own, and no white space; it names its envelope.
LEMMA TagsAreDistinct ==
  ASSUME NEW e \in Envelopes, NEW f \in Envelopes
  PROVE  /\ e.open # NL /\ e.close # NL
         /\ e.open # f.close
         /\ e.open = f.open => e = f
<1>5. e.open # NL
  BY DEF Envelopes, NL
<1>6. e.close # NL
  BY DEF Envelopes, NL
<1>2. e.open # f.close
  BY DEF Envelopes
<1>3. ASSUME e.open = f.open
      PROVE  e.close = f.close
  BY <1>3 DEF Envelopes
<1>4. e = [open |-> e.open, close |-> e.close] /\ f = [open |-> f.open, close |-> f.close]
  BY DEF Envelopes
<1> QED
  BY <1>2, <1>3, <1>4, <1>5, <1>6

\* The last place of a lexeme.
LEMMA LastAtFacts ==
  ASSUME NEW S, NEW text \in Seq(S), NEW lexeme
  PROVE  /\ LastAt(text, lexeme) \in Nat
         /\ LastAt(text, lexeme) # 0 =>
              /\ LastAt(text, lexeme) \in DOMAIN text
              /\ text[LastAt(text, lexeme)] = lexeme
         /\ \A i \in DOMAIN text : text[i] = lexeme => i <= LastAt(text, lexeme)
<1> DEFINE places == {0} \cup {i \in DOMAIN text : text[i] = lexeme}
<1>1. /\ places \in SUBSET Nat /\ places # {}
      /\ Len(text) \in Nat /\ \A n \in places : n <= Len(text)
  OBVIOUS
<1>2. Max(places) \in places /\ \A n \in places : n <= Max(places)
  <2> HIDE DEF places
  <2> QED
    BY <1>1, MaxOfNaturals
<1> QED
  BY <1>1, <1>2 DEF LastAt

\* Comparing the last places of its two tags tells whether an envelope is open.
LEMMA UnclosedMeans ==
  ASSUME NEW S, NEW text \in Seq(S), NEW e \in Envelopes
  PROVE  /\ e \in Unclosed(text) =>
              /\ LastAt(text, e.open) \in DOMAIN text
              /\ text[LastAt(text, e.open)] = e.open
              /\ ~Closes(text, LastAt(text, e.open) + 1, e)
         /\ \A i \in DOMAIN text :
              (text[i] = e.open /\ ~Closes(text, i + 1, e)) => e \in Unclosed(text)
<1>1. PICK o \in Nat : /\ o = LastAt(text, e.open)
                       /\ o # 0 => o \in DOMAIN text /\ text[o] = e.open
                       /\ \A i \in DOMAIN text : text[i] = e.open => i <= o
  BY LastAtFacts
<1>2. PICK c \in Nat : /\ c = LastAt(text, e.close)
                       /\ c # 0 => c \in DOMAIN text /\ text[c] = e.close
                       /\ \A i \in DOMAIN text : text[i] = e.close => i <= c
  BY LastAtFacts
<1>3. e \in Unclosed(text) <=> o > c
  BY <1>1, <1>2 DEF Unclosed
<1>4. DOMAIN text = 1..Len(text) /\ Len(text) \in Nat
  OBVIOUS
<1>5. e.open # e.close
  BY TagsAreDistinct
<1>6. ASSUME o > c
      PROVE  o \in DOMAIN text /\ text[o] = e.open /\ ~Closes(text, o + 1, e)
  BY <1>1, <1>2, <1>4, <1>6 DEF Closes
<1>7. ASSUME NEW i \in DOMAIN text, text[i] = e.open, ~Closes(text, i + 1, e)
      PROVE  o > c
  <2>1. i <= o
    BY <1>1, <1>7
  <2>2. ASSUME c >= o
        PROVE  FALSE
    <3>1. c \in DOMAIN text /\ text[c] = e.close
      BY <1>2, <1>4, <2>1, <2>2
    <3>2. c # i
      BY <1>5, <1>7, <3>1
    <3>3. c \in (i + 1)..Len(text)
      BY <1>4, <2>1, <2>2, <3>1, <3>2
    <3> QED
      BY <1>7, <3>1, <3>3 DEF Closes
  <2> QED
    BY <2>2, <1>1, <1>2
<1> QED
  BY <1>1, <1>3, <1>6, <1>7

\* In a balanced text nothing is left open.
LEMMA BalancedIsClosed ==
  ASSUME NEW S, NEW text \in Seq(S), Balanced(text, 0)
  PROVE  Unclosed(text) = {}
<1>1. ASSUME NEW e \in Unclosed(text)
      PROVE  FALSE
  <2>1. e \in Envelopes
    BY DEF Unclosed
  <2>2. PICK o : /\ o = LastAt(text, e.open) /\ o \in DOMAIN text
                 /\ text[o] = e.open /\ ~Closes(text, o + 1, e)
    BY <2>1, UnclosedMeans
  <2>3. o \in (0 + 1)..Len(text)
    BY <2>2
  <2> QED
    BY <2>1, <2>2, <2>3 DEF Balanced
<1> QED
  BY <1>1

\* The envelope that is opened, and after which all is closed, is the one opened last.
LEMMA OpenedIsInnermost ==
  ASSUME NEW S, NEW text \in Seq(S), NEW e \in Envelopes, NEW i \in DOMAIN text,
         text[i] = e.open, Balanced(text, i), ~Closes(text, i + 1, e)
  PROVE  /\ Unclosed(text) # {}
         /\ Innermost(text, Unclosed(text)) = e
<1>1. e \in Unclosed(text)
  BY UnclosedMeans
<1>2. DOMAIN text = 1..Len(text) /\ Len(text) \in Nat
  OBVIOUS
<1>3. ASSUME NEW f \in Unclosed(text)
      PROVE  /\ LastAt(text, f.open) \in DOMAIN text
             /\ text[LastAt(text, f.open)] = f.open
             /\ LastAt(text, f.open) <= i
  <2>1. f \in Envelopes
    BY DEF Unclosed
  <2>2. PICK o : /\ o = LastAt(text, f.open) /\ o \in DOMAIN text
                 /\ text[o] = f.open /\ ~Closes(text, o + 1, f)
    BY <2>1, UnclosedMeans
  <2>3. ASSUME o > i
        PROVE  FALSE
    <3>1. o \in (i + 1)..Len(text)
      BY <1>2, <2>2, <2>3
    <3> QED
      BY <2>1, <2>2, <3>1 DEF Balanced
  <2> QED
    BY <1>2, <2>2, <2>3
<1>4. LastAt(text, e.open) = i
  <2>1. i <= LastAt(text, e.open)
    BY LastAtFacts
  <2> QED
    BY <1>1, <1>2, <1>3, <2>1
<1>5. ASSUME NEW f \in Unclosed(text),
             \A other \in Unclosed(text) : LastAt(text, other.open) <= LastAt(text, f.open)
      PROVE  f = e
  <2>1. PICK o : o = LastAt(text, f.open) /\ o \in DOMAIN text /\ text[o] = f.open /\ o <= i
    BY <1>3
  <2>2. i <= o
    BY <1>1, <1>4, <1>5, <2>1
  <2>3. o = i
    BY <1>2, <2>1, <2>2
  <2>4. e.open = f.open
    BY <2>1, <2>3
  <2>5. f \in Envelopes
    BY DEF Unclosed
  <2> QED
    BY <2>4, <2>5, TagsAreDistinct
<1>6. \A other \in Unclosed(text) : LastAt(text, other.open) <= LastAt(text, e.open)
  BY <1>3, <1>4
<1> QED
  BY <1>1, <1>5, <1>6 DEF Innermost

\* Only white space strips to nothing.
LEMMA StripsToNothing ==
  ASSUME NEW S, NEW text \in Seq(S)
  PROVE  Strip(text) = <<>> <=> \A i \in DOMAIN text : text[i] = NL
<1> DEFINE solid == {i \in DOMAIN text : text[i] # NL}
<1>1. CASE solid = {}
  BY <1>1 DEF Strip
<1>2. CASE solid # {}
  <2>1. /\ solid \in SUBSET Nat /\ Len(text) \in Nat
        /\ \A n \in solid : n <= Len(text) /\ n >= 1
    OBVIOUS
  <2>2. Min(solid) \in solid /\ \A n \in solid : Min(solid) <= n
    <3> HIDE DEF solid
    <3> QED
      BY <1>2, <2>1, MinOfNaturals
  <2>3. Max(solid) \in solid /\ \A n \in solid : n <= Max(solid)
    <3> HIDE DEF solid
    <3> QED
      BY <1>2, <2>1, MaxOfNaturals
  <2>4. PICK a \in solid : a = Min(solid)
    BY <2>2
  <2>5. PICK b \in solid : b = Max(solid)
    BY <2>3
  <2>6. a <= b
    BY <2>2, <2>4, <2>5
  <2>7. Strip(text) = SubSeq(text, a, b)
    BY <1>2, <2>4, <2>5 DEF Strip
  <2>8. Len(SubSeq(text, a, b)) = b - a + 1 /\ b - a + 1 # 0
    BY <2>6
  <2>9. Strip(text) # <<>>
    <3>1. Len(Strip(text)) # 0
      BY <2>7, <2>8
    <3> QED
      BY <3>1
  <2> QED
    BY <1>2, <2>9
<1> QED
  BY <1>1, <1>2
\* What the prompt has from the tag of an envelope on that it does not close.
LEMMA TailFacts ==
  ASSUME NEW S, NEW base \in Seq(S), NEW e \in Envelopes, e \in Unclosed(base)
  PROVE  /\ FromTag(base, e) \in Seq(S)
         /\ Len(FromTag(base, e)) > 0
         /\ FromTag(base, e)[1] = e.open
         /\ \A i \in 2..Len(FromTag(base, e)) :
              FromTag(base, e)[i] # e.open /\ FromTag(base, e)[i] # e.close
         /\ (Strip(Tail(FromTag(base, e))) = <<>> <=> Opens(base, e))
<1>0. PICK tail : tail = FromTag(base, e)
  OBVIOUS
<1>1. PICK o \in DOMAIN base :
         /\ o = LastAt(base, e.open) /\ base[o] = e.open /\ ~Closes(base, o + 1, e)
         /\ \A i \in DOMAIN base : base[i] = e.open => i <= o
  BY UnclosedMeans, LastAtFacts
<1>2. DOMAIN base = 1..Len(base) /\ Len(base) \in Nat
  OBVIOUS
<1>3. /\ tail \in Seq(S) /\ Len(tail) = Len(base) - o + 1
      /\ \A i \in 1..(Len(base) - o + 1) : tail[i] = base[o + i - 1]
  <2>1. tail = SubSeq(base, o, Len(base))
    BY <1>0, <1>1 DEF FromTag
  <2> QED
    BY <1>1, <1>2, <2>1
<1>4. Len(tail) > 0 /\ tail[1] = e.open
  BY <1>1, <1>2, <1>3
<1>5. ASSUME NEW i \in 2..Len(tail)
      PROVE  tail[i] # e.open /\ tail[i] # e.close
  <2>1. o + i - 1 \in (o + 1)..Len(base) /\ tail[i] = base[o + i - 1]
    BY <1>2, <1>3
  <2> QED
    BY <1>1, <1>2, <2>1 DEF Closes
<1>6. /\ Tail(tail) \in Seq(S) /\ Len(Tail(tail)) = Len(base) - o
      /\ \A i \in 1..(Len(base) - o) : Tail(tail)[i] = base[o + i]
  <2>1. tail # <<>>
    <3>1. Len(tail) # 0
      BY <1>2, <1>3
    <3> QED
      BY <3>1
  <2>2. /\ Tail(tail) \in Seq(S) /\ Len(Tail(tail)) = Len(tail) - 1
        /\ \A i \in 1..Len(Tail(tail)) : Tail(tail)[i] = tail[i + 1]
    BY <1>3, <2>1, HeadTailProperties
  <2> QED
    BY <1>2, <1>3, <2>2
<1>7. Strip(Tail(tail)) = <<>> <=> \A i \in 1..(Len(base) - o) : base[o + i] = NL
  <2>1. Strip(Tail(tail)) = <<>> <=> \A i \in DOMAIN Tail(tail) : Tail(tail)[i] = NL
    BY <1>6, StripsToNothing, Zenon
  <2>2. DOMAIN Tail(tail) = 1..(Len(base) - o)
    BY <1>6, LenProperties
  <2>3. (\A i \in DOMAIN Tail(tail) : Tail(tail)[i] = NL)
          <=> \A i \in 1..(Len(base) - o) : base[o + i] = NL
    BY <1>6, <2>2, Zenon
  <2> QED
    BY <2>1, <2>3, Zenon
<1>8. (\A i \in 1..(Len(base) - o) : base[o + i] = NL)
        <=> (\A k \in (o + 1)..Len(base) : base[k] = NL)
  <2>1. ASSUME \A i \in 1..(Len(base) - o) : base[o + i] = NL,
               NEW k \in (o + 1)..Len(base)
        PROVE  base[k] = NL
    <3>1. k - o \in 1..(Len(base) - o) /\ o + (k - o) = k
      BY <1>2
    <3> QED
      BY <2>1, <3>1
  <2>2. ASSUME \A k \in (o + 1)..Len(base) : base[k] = NL,
               NEW i \in 1..(Len(base) - o)
        PROVE  base[o + i] = NL
    BY <1>2, <2>2
  <2> QED
    BY <2>1, <2>2
<1>9. ASSUME Opens(base, e)
      PROVE  \A k \in (o + 1)..Len(base) : base[k] = NL
  <2>1. PICK i \in DOMAIN base : /\ base[i] = e.open
                                 /\ \A k \in (i + 1)..Len(base) : base[k] = NL
    BY <1>9 DEF Opens
  <2>2. i <= o
    BY <1>1, <2>1
  <2> QED
    BY <1>2, <2>1, <2>2
<1>10. ASSUME \A k \in (o + 1)..Len(base) : base[k] = NL
       PROVE  Opens(base, e)
  BY <1>1, <1>10 DEF Opens
<1>11. Strip(Tail(tail)) = <<>> <=> Opens(base, e)
  BY <1>7, <1>8, <1>9, <1>10, Zenon
<1> QED
  BY <1>0, <1>3, <1>4, <1>5, <1>11

\* An envelope that a template ends the prompt with is open there.
LEMMA OpensIsUnclosed ==
  ASSUME NEW S, NEW base \in Seq(S), NEW e \in Envelopes, Opens(base, e)
  PROVE  e \in Unclosed(base)
<1>1. PICK i \in DOMAIN base : /\ base[i] = e.open
                               /\ \A k \in (i + 1)..Len(base) : base[k] = NL
  BY DEF Opens
<1>2. ~Closes(base, i + 1, e)
  BY <1>1, TagsAreDistinct DEF Closes
<1> QED
  BY <1>1, <1>2, UnclosedMeans

\* Only one envelope can end the prompt.
LEMMA OpensOne ==
  ASSUME NEW S, NEW base \in Seq(S), NEW e \in Envelopes, NEW f \in Envelopes,
         Opens(base, e), Opens(base, f)
  PROVE  e = f
<1>1. PICK i \in DOMAIN base : /\ base[i] = e.open
                               /\ \A k \in (i + 1)..Len(base) : base[k] = NL
  BY DEF Opens
<1>2. PICK j \in DOMAIN base : /\ base[j] = f.open
                               /\ \A k \in (j + 1)..Len(base) : base[k] = NL
  BY DEF Opens
<1>3. e.open # NL /\ f.open # NL
  BY TagsAreDistinct
<1>4. i = j
  <2>1. DOMAIN base = 1..Len(base) /\ Len(base) \in Nat
    OBVIOUS
  <2>2. ~(i < j) /\ ~(j < i)
    BY <1>1, <1>2, <1>3, <2>1
  <2> QED
    BY <2>1, <2>2
<1> QED
  BY <1>1, <1>2, <1>4, TagsAreDistinct

\* After the tag that ends the prompt, the envelope is open as long as the output
\* does not close it, and closed once a balanced output has.
LEMMA TailStaysOpen ==
  ASSUME NEW S, NEW tail \in Seq(S), NEW text \in Seq(S), NEW e \in Envelopes,
         Len(tail) > 0, tail[1] = e.open,
         \A i \in 2..Len(tail) : tail[i] # e.open /\ tail[i] # e.close
  PROVE  /\ ~Closes(text, 1, e) => e \in Unclosed(tail \o text)
         /\ Balanced(text, 0) /\ Closes(text, 1, e) => e \notin Unclosed(tail \o text)
<1>1. PICK whole : whole = tail \o text
  OBVIOUS
<1>2. PICK n \in Nat : n = Len(tail)
  OBVIOUS
<1>3. PICK m \in Nat : m = Len(text)
  OBVIOUS
<1>4. /\ whole \in Seq(S) /\ Len(whole) = n + m /\ DOMAIN whole = 1..(n + m)
      /\ \A i \in 1..(n + m) : whole[i] = IF i <= n THEN tail[i] ELSE text[i - n]
  BY <1>1, <1>2, <1>3
<1>5. n > 0
  BY <1>2
<1>6. ASSUME ~Closes(text, 1, e)
      PROVE  e \in Unclosed(whole)
  <2>1. whole[1] = e.open /\ 1 \in DOMAIN whole
    BY <1>4, <1>5
  <2>2. ASSUME NEW i \in 2..(n + m), whole[i] = e.close
        PROVE  FALSE
    <3>1. CASE i <= n
      BY <1>2, <1>4, <2>2, <3>1
    <3>2. CASE ~(i <= n)
      <4>1. i - n \in 1..m /\ text[i - n] = e.close
        BY <1>4, <2>2, <3>2
      <4> QED
        BY <1>3, <1>6, <4>1 DEF Closes
    <3> QED
      BY <3>1, <3>2
  <2>3. ~Closes(whole, 1 + 1, e)
    BY <1>4, <2>2 DEF Closes
  <2> QED
    BY <1>4, <2>1, <2>3, UnclosedMeans
<1>7. ASSUME Balanced(text, 0), Closes(text, 1, e), e \in Unclosed(whole)
      PROVE  FALSE
  <2>1. PICK o \in 1..(n + m) : whole[o] = e.open /\ ~Closes(whole, o + 1, e)
    BY <1>4, <1>7, UnclosedMeans
  <2>2. \A k \in (o + 1)..(n + m) : whole[k] # e.close
    BY <1>4, <2>1 DEF Closes
  <2>3. PICK c \in 1..m : text[c] = e.close
    BY <1>3, <1>7 DEF Closes
  <2>4. n + c \in 1..(n + m) /\ whole[n + c] = e.close
    BY <1>4, <2>3
  <2>5. n + c <= o /\ n + c # o
    BY <2>1, <2>2, <2>4, TagsAreDistinct
  <2>6. o - n \in 1..m /\ text[o - n] = e.open
    BY <1>4, <2>1, <2>3, <2>5
  <2>7. Closes(text, (o - n) + 1, e)
    <3>1. o - n \in (0 + 1)..Len(text)
      BY <1>3, <2>6
    <3> QED
      BY <1>7, <2>6, <3>1 DEF Balanced
  <2>8. PICK d \in ((o - n) + 1)..m : text[d] = e.close
    BY <1>3, <2>7 DEF Closes
  <2>9. n + d \in (o + 1)..(n + m) /\ whole[n + d] = e.close
    BY <1>4, <2>6, <2>8
  <2> QED
    BY <2>2, <2>9
<1> QED
  BY <1>1, <1>6, <1>7
\* _active_envelope finds where the Actor is.
LEMMA ActiveWhereActorIs ==
  ASSUME NEW S, NEW base \in Seq(S), NEW text \in Seq(S), NEW open,
         Stands(base, text, open)
  PROVE  ActiveEnvelope(base, text) = open
<1> DEFINE trailing == {e \in Unclosed(base) :
                          /\ Strip(Tail(FromTag(base, e))) = <<>>
                          /\ e \in Unclosed(FromTag(base, e) \o text)}
<1>1. ActiveEnvelope(base, text) =
        IF Unclosed(text) # {} THEN Innermost(text, Unclosed(text))
        ELSE IF trailing # {} THEN Innermost(base, trailing) ELSE None
  BY DEF ActiveEnvelope
<1>2. ASSUME NEW e \in Envelopes, Balanced(text, 0)
      PROVE  e \in trailing <=> (Opens(base, e) /\ ~Closes(text, 1, e))
  <2>1. CASE e \in Unclosed(base)
    <3>1. PICK part : part = FromTag(base, e)
      OBVIOUS
    <3>2. /\ part \in Seq(S) /\ Len(part) > 0 /\ part[1] = e.open
          /\ \A i \in 2..Len(part) : part[i] # e.open /\ part[i] # e.close
      BY <2>1, <3>1, TailFacts
    <3>3. Strip(Tail(part)) = <<>> <=> Opens(base, e)
      BY <2>1, <3>1, TailFacts
    <3>4. e \in Unclosed(part \o text) <=> ~Closes(text, 1, e)
      <4>1. ASSUME ~Closes(text, 1, e)
            PROVE  e \in Unclosed(part \o text)
        BY <3>2, <4>1, TailStaysOpen
      <4>2. ASSUME Closes(text, 1, e)
            PROVE  e \notin Unclosed(part \o text)
        BY <1>2, <3>2, <4>2, TailStaysOpen
      <4> QED
        BY <4>1, <4>2
    <3>5. e \in trailing <=> (Strip(Tail(part)) = <<>> /\ e \in Unclosed(part \o text))
      BY <2>1, <3>1
    <3> QED
      BY <3>3, <3>4, <3>5
  <2>2. CASE e \notin Unclosed(base)
    <3>1. ~Opens(base, e)
      BY <2>2, OpensIsUnclosed
    <3> QED
      BY <2>2, <3>1
  <2> QED
    BY <2>1, <2>2
<1>3. trailing \subseteq Envelopes
  BY DEF Unclosed
<1> HIDE DEF trailing
<1>4. CASE /\ open = None
           /\ Balanced(text, 0)
           /\ \A e \in Envelopes : Opens(base, e) => Closes(text, 1, e)
  <2>1. Unclosed(text) = {}
    BY <1>4, BalancedIsClosed
  <2>2. trailing = {}
    BY <1>2, <1>3, <1>4
  <2> QED
    BY <1>1, <1>4, <2>1, <2>2
<1>5. CASE /\ open \in Envelopes
           /\ Opens(base, open)
           /\ Balanced(text, 0)
           /\ ~Closes(text, 1, open)
  <2>1. Unclosed(text) = {}
    BY <1>5, BalancedIsClosed
  <2>2. trailing = {open}
    <3>1. open \in trailing
      BY <1>2, <1>5
    <3>2. ASSUME NEW e \in trailing
          PROVE  e = open
      <4>1. e \in Envelopes /\ Opens(base, e)
        BY <1>2, <1>3, <1>5
      <4> QED
        BY <1>5, <4>1, OpensOne
    <3> QED
      BY <3>1, <3>2
  <2>3. Innermost(base, {open}) = open
    <3>1. PICK n \in Nat : n = LastAt(base, open.open)
      BY LastAtFacts
    <3>2. LastAt(base, open.open) <= LastAt(base, open.open)
      BY <3>1
    <3> QED
      BY <3>2 DEF Innermost
  <2> QED
    BY <1>1, <2>1, <2>2, <2>3
<1>6. CASE /\ open \in Envelopes
           /\ \E i \in DOMAIN text :
                /\ text[i] = open.open
                /\ Balanced(text, i)
                /\ ~Closes(text, i + 1, open)
  <2>1. Unclosed(text) # {} /\ Innermost(text, Unclosed(text)) = open
    BY <1>6, OpenedIsInnermost
  <2> QED
    BY <1>1, <2>1
<1> QED
  BY <1>4, <1>5, <1>6 DEF Stands

\* Only the closing tag of an exit is solid.
LEMMA ExitIsClosing ==
  ASSUME NEW S, NEW text \in Seq(S), NEW e \in Envelopes, NL \in S, e.close \in S
  PROVE  /\ Exit(e, text) \in Seq(S)
         /\ Strip(Exit(e, text)) = <<e.close>>
<1>1. PICK lead \in Seq(S) : /\ lead \in {<<>>, <<NL>>}
                             /\ Exit(e, text) = lead \o <<e.close, NL, NL>>
  <2>1. PICK lead : lead = IF text # <<>> /\ Last(text) = NL THEN <<>> ELSE <<NL>>
    OBVIOUS
  <2>2. Exit(e, text) = lead \o <<e.close, NL, NL>>
    BY <2>1 DEF Exit
  <2>3. <<>> \in Seq(S) /\ <<NL>> \in Seq(S)
    OBVIOUS
  <2>4. lead \in {<<>>, <<NL>>}
    BY <2>1
  <2> QED
    BY <2>2, <2>3, <2>4
<1>2. PICK n \in {0, 1} : n = Len(lead)
  BY <1>1
<1>3. PICK exit : exit = Exit(e, text)
  OBVIOUS
<1>4. /\ exit \in Seq(S) /\ Len(exit) = n + 3 /\ DOMAIN exit = 1..(n + 3)
      /\ \A i \in 1..(n + 3) : exit[i] = IF i = n + 1 THEN e.close ELSE NL
  <2>1. <<e.close, NL, NL>> \in Seq(S) /\ Len(<<e.close, NL, NL>>) = 3
    OBVIOUS
  <2>2. /\ exit \in Seq(S) /\ Len(exit) = n + 3
        /\ \A i \in 1..(n + 3) : exit[i] = IF i <= n THEN lead[i]
                                           ELSE <<e.close, NL, NL>>[i - n]
    BY <1>1, <1>2, <1>3, <2>1, ConcatProperties
  <2>3. DOMAIN exit = 1..(n + 3)
    BY <2>2, LenProperties
  <2>4. \A i \in 1..n : lead[i] = NL
    <3>1. CASE lead = <<>>
      BY <1>2, <3>1
    <3>2. CASE lead = <<NL>>
      BY <1>2, <3>2
    <3> QED
      BY <1>1, <3>1, <3>2
  <2>5. ASSUME NEW i \in 1..(n + 3)
        PROVE  exit[i] = IF i = n + 1 THEN e.close ELSE NL
    <3>1. CASE i <= n
      BY <2>2, <2>4, <2>5, <3>1
    <3>2. CASE i > n
      <4>1. i - n \in {1, 2, 3} /\ exit[i] = <<e.close, NL, NL>>[i - n]
        BY <2>2, <2>5, <3>2
      <4>2. <<e.close, NL, NL>>[1] = e.close /\ <<e.close, NL, NL>>[2] = NL
              /\ <<e.close, NL, NL>>[3] = NL
        OBVIOUS
      <4> QED
        BY <3>2, <4>1, <4>2
    <3> QED
      BY <3>1, <3>2
  <2> QED
    BY <2>2, <2>3, <2>5
<1>5. {i \in DOMAIN exit : exit[i] # NL} = {n + 1}
  BY <1>4, TagsAreDistinct
<1>6. Min({n + 1}) = n + 1 /\ Max({n + 1}) = n + 1
  BY DEF Min, Max
<1>7. Strip(exit) = SubSeq(exit, n + 1, n + 1)
  BY <1>5, <1>6 DEF Strip
<1>8. SubSeq(exit, n + 1, n + 1) = <<e.close>>
  <2>1. PICK part : part = SubSeq(exit, n + 1, n + 1)
    OBVIOUS
  <2>2. part \in Seq(S) /\ Len(part) = 1 /\ part[1] = e.close
    BY <1>4, <2>1
  <2>3. <<e.close>> \in Seq(S) /\ Len(<<e.close>>) = 1 /\ <<e.close>>[1] = e.close
    OBVIOUS
  <2>4. part = <<e.close>>
    BY <2>2, <2>3, SeqEqual
  <2> QED
    BY <2>1, <2>4
<1> QED
  BY <1>3, <1>4, <1>7, <1>8

\* What stands between two parts of a text.
LEMMA MiddleOfText ==
  ASSUME NEW S, NEW s \in Seq(S), NEW t \in Seq(S), NEW u \in Seq(S),
         NEW whole, whole = s \o (t \o u)
  PROVE  /\ whole = (s \o t) \o u
         /\ whole \in Seq(S)
         /\ Len(whole) = Len(s) + Len(t) + Len(u)
         /\ SubSeq(whole, Len(s) + 1, Len(whole) - Len(u)) = t
<1>1. PICK a \in Nat : a = Len(s)
  OBVIOUS
<1>2. PICK b \in Nat : b = Len(t)
  OBVIOUS
<1>3. PICK c \in Nat : c = Len(u)
  OBVIOUS
<1>4. PICK first : first = s \o t
  OBVIOUS
<1>5. whole = first \o u
  BY <1>4, ConcatAssociative
<1>6. first \in Seq(S) /\ Len(first) = a + b
  <2>1. s \o t \in Seq(S) /\ Len(s \o t) = Len(s) + Len(t)
    BY ConcatProperties, ZenonT(30)
  <2> QED
    BY <1>1, <1>2, <1>4, <2>1
<1>7. whole \in Seq(S) /\ Len(whole) = a + b + c
  <2>1. first \o u \in Seq(S) /\ Len(first \o u) = Len(first) + Len(u)
    BY <1>6, ConcatProperties, ZenonT(30)
  <2> QED
    BY <1>3, <1>6, <1>5, <2>1
<1>8. SubSeq(whole, a + 1, a + b) = t
  <2>1. CASE b = 0
    <3>1. SubSeq(whole, a + 1, a + b) = <<>>
      BY <2>1, SubSeqEmpty
    <3>2. t = <<>>
      BY <1>2, <2>1, EmptySeq
    <3> QED
      BY <3>1, <3>2
  <2>2. CASE b # 0
    <3>1. /\ a + 1 \in 1..Len(first) /\ a + b \in 1..Len(first)
          /\ a + 1 \in (Len(s) + 1)..(Len(s) + Len(t))
          /\ a + b \in (Len(s) + 1)..(Len(s) + Len(t))
      BY <1>1, <1>2, <1>6, <2>2
    <3>2. SubSeq(whole, a + 1, a + b) = SubSeq(first, a + 1, a + b)
      BY <1>6, <1>5, <3>1, SubSeqOfConcat1
    <3>3. SubSeq(first, a + 1, a + b) = SubSeq(t, (a + 1) - Len(s), (a + b) - Len(s))
      BY <1>4, <3>1, SubSeqOfConcat2
    <3>4. (a + 1) - Len(s) = 1 /\ (a + b) - Len(s) = Len(t)
      BY <1>1, <1>2
    <3>5. SubSeq(t, 1, Len(t)) = t
      BY SubSeqFull
    <3> QED
      BY <3>2, <3>3, <3>4, <3>5
  <2> QED
    BY <2>1, <2>2
<1>9. Len(whole) - Len(u) = a + b
  BY <1>3, <1>7
<1> QED
  BY <1>1, <1>2, <1>3, <1>4, <1>7, <1>8, <1>9, <1>5

-----------------------------------------------------------------------------
(***************************************************************************)
(* The plan of a fork.                                                     *)
(***************************************************************************)
\* A plan that goes on from what the Actor wrote, with `transition` before the probe.
GoesOn(actor, plan, transition, prefix) ==
  /\ actor.base \o plan.observed \o plan.suffix
       = (actor.base \o actor.raw) \o (transition \o prefix)
  /\ actor.open = None => transition = <<>>
  /\ actor.open # None => Strip(transition) = <<actor.open.close>>

\* What was planned goes on from what the Actor wrote.
LEMMA PlanContinues ==
  ASSUME NEW S, NEW actor, NEW prefix \in Seq(S),
         actor.base \in Seq(S), actor.raw \in Seq(S), actor.generated \in Seq(S),
         actor.reasoning \in Seq(S), actor.content \in Seq(S),
         NL \in S, \A e \in Envelopes : e.close \in S,
         None \notin Envelopes,
         Exposed(actor),
         NEW plan, plan = Plan(actor, prefix), plan # None
  PROVE  \E transition \in Seq(S) : GoesOn(actor, plan, transition, prefix)
<1> DEFINE observed   == IF Split(actor) THEN actor.reasoning ELSE actor.generated
           envelope   == ActiveEnvelope(actor.base, observed)
           transition == IF envelope = None THEN <<>> ELSE Exit(envelope, observed)
<1>1. plan = IF Split(actor) /\ envelope = None THEN None
             ELSE IF Split(actor) /\ actor.content # <<>>
             THEN [observed |-> observed \o transition \o actor.content,
                   suffix |-> prefix]
             ELSE [observed |-> observed, suffix |-> transition \o prefix]
  BY DEF Plan
<1>2. ASSUME observed = actor.raw, Stands(actor.base, actor.raw, actor.open),
             plan = [observed |-> observed, suffix |-> transition \o prefix]
      PROVE  transition \in Seq(S) /\ GoesOn(actor, plan, transition, prefix)
  <2>1. envelope = actor.open
    BY <1>2, ActiveWhereActorIs
  <2>2. PICK t : t = transition
    OBVIOUS
  <2>3. t \in Seq(S) /\ (actor.open # None => Strip(t) = <<actor.open.close>>)
          /\ (actor.open = None => t = <<>>)
    <3>1. CASE actor.open = None
      BY <2>1, <2>2, <3>1
    <3>2. CASE actor.open # None
      <4>1. actor.open \in Envelopes
        BY <1>2, <3>2 DEF Stands
      <4>2. t = Exit(actor.open, actor.raw)
        BY <1>2, <2>1, <2>2, <3>2
      <4> QED
        BY <3>2, <4>1, <4>2, ExitIsClosing
    <3> QED
      BY <3>1, <3>2
  <2>4. plan.observed = actor.raw /\ plan.suffix = t \o prefix
    BY <1>2, <2>2
  <2>5. actor.base \o plan.observed \o plan.suffix
          = (actor.base \o actor.raw) \o (t \o prefix)
    <3> HIDE DEF observed, envelope, transition
    <3> QED
      BY <2>4
  <2> HIDE DEF transition
  <2> QED
    BY <2>2, <2>3, <2>5 DEF GoesOn
<1>3. CASE /\ ~Split(actor)
           /\ actor.generated = actor.raw
           /\ Stands(actor.base, actor.raw, actor.open)
  <2>1. observed = actor.raw
    BY <1>3
  <2>2. plan = [observed |-> observed, suffix |-> transition \o prefix]
    BY <1>1, <1>3
  <2> HIDE DEF transition, observed
  <2> QED
    BY <1>2, <1>3, <2>1, <2>2
<1>4. CASE /\ Split(actor)
           /\ actor.content = <<>>
           /\ actor.raw = actor.reasoning
           /\ Stands(actor.base, actor.raw, actor.open)
  <2>1. observed = actor.raw
    BY <1>4
  <2>2. plan = [observed |-> observed, suffix |-> transition \o prefix]
    BY <1>1, <1>4
  <2> HIDE DEF transition, observed
  <2> QED
    BY <1>2, <1>4, <2>1, <2>2
<1>5. CASE /\ Split(actor)
           /\ actor.content # <<>>
           /\ actor.open = None
           /\ \E e \in Envelopes :
                /\ Stands(actor.base, actor.reasoning, e)
                /\ actor.raw = actor.reasoning \o Exit(e, actor.reasoning)
                                 \o actor.content
  <2>1. PICK e \in Envelopes :
          /\ Stands(actor.base, actor.reasoning, e)
          /\ actor.raw = actor.reasoning \o Exit(e, actor.reasoning) \o actor.content
    BY <1>5
  <2>2. observed = actor.reasoning
    BY <1>5
  <2>3. envelope = e
    BY <2>1, <2>2, ActiveWhereActorIs
  <2>4. transition = Exit(e, actor.reasoning)
    BY <2>2, <2>3
  <2>5. plan = [observed |-> actor.raw, suffix |-> prefix]
    BY <1>1, <1>5, <2>1, <2>2, <2>3, <2>4
  <2>6. <<>> \in Seq(S) /\ <<>> \o prefix = prefix
    BY ConcatEmptySeq
  <2>7. plan.observed = actor.raw /\ plan.suffix = <<>> \o prefix
    BY <2>5, <2>6
  <2>8. actor.base \o plan.observed \o plan.suffix
          = (actor.base \o actor.raw) \o (<<>> \o prefix)
    BY <2>7
  <2> QED
    BY <1>5, <2>6, <2>8 DEF GoesOn
<1>6. CASE Split(actor) /\ Stands(actor.base, actor.reasoning, None)
  <2>1. observed = actor.reasoning
    BY <1>6
  <2>2. envelope = None
    BY <1>6, <2>1, ActiveWhereActorIs
  <2> QED
    BY <1>1, <1>6, <2>2
<1> QED
  BY <1>3, <1>4, <1>5, <1>6 DEF Exposed

\* A sequence is a text.
LEMMA SequenceIsText ==
  ASSUME NEW S, NEW text \in Seq(S)
  PROVE  IsText(text)
<1>1. text \in [1..Len(text) -> S] /\ DOMAIN text = 1..Len(text) /\ Len(text) \in Nat
  BY LenProperties
<1>2. text \in [1..Len(text) -> ToSet(text)]
  BY <1>1 DEF ToSet
<1>3. text \in Seq(ToSet(text))
  BY <1>1, <1>2
<1> QED
  BY <1>3 DEF IsText

\* The forced prefix is a text.
LEMMA PrefixIsText ==
  ASSUME job \in Jobs, job.kind = "fork"
  PROVE  IsText(Prefix)
<1>1. CASE job.prefix # None
  BY <1>1, JobsAssumption DEF Prefix
<1>2. CASE job.prefix = None
  <2> DEFINE Markers == {"<tool_call>", "<calls>", "[TOOL_CALLS]", "<python_tag>", NL,
                         "{", "<function=", "<invoke=", "<call>", "function", "<sep>"}
  <2>1. /\ <<NL, "{">> \in Seq(Markers)
        /\ <<NL, "<function=">> \in Seq(Markers)
        /\ <<NL, "<invoke=">> \in Seq(Markers)
        /\ <<"<call>", "function", "<sep>">> \in Seq(Markers)
        /\ <<>> \in Seq(Markers)
    OBVIOUS
  <2>2. Syntax(job.format).probe \in Seq(Markers)
    <3> HIDE DEF Markers
    <3> QED
      BY <2>1 DEF Syntax
  <2>3. Syntax(job.format).boundary \in Markers
    BY DEF Syntax
  <2>4. ProbePrefix(job.format) \in Seq(Markers)
    <3>1. PICK probe \in Seq(Markers) : probe = Syntax(job.format).probe
      BY <2>2
    <3>2. PICK boundary \in Markers : boundary = Syntax(job.format).boundary
      BY <2>3
    <3>3. <<boundary>> \o probe \in Seq(Markers)
      <4> HIDE DEF Markers
      <4> QED
        OBVIOUS
    <3> QED
      BY <3>1, <3>2, <3>3 DEF ProbePrefix
  <2>5. IsText(ProbePrefix(job.format))
    <3> HIDE DEF Markers
    <3> QED
      BY <2>4, SequenceIsText
  <2> QED
    BY <1>2, <2>5 DEF Prefix
<1> QED
  BY <1>1, <1>2

\* The prompt that a plan leads to, in the words of ForkContinuesActor.
LEMMA ForkedContinues ==
  ASSUME job \in Jobs, job.kind = "fork",
         NEW plan, plan = Plan(job.actor, Prefix), plan # None,
         NEW text, text = Forked(plan)
  PROVE  /\ IsText(text)
         /\ LET said    == job.actor.base \o job.actor.raw
                closing == SubSeq(text, Len(said) + 1, Len(text) - Len(Prefix))
            IN /\ text = said \o closing \o Prefix
               /\ IF job.actor.open = None THEN closing = <<>>
                  ELSE Strip(closing) = <<job.actor.open.close>>
<1> DEFINE Closing == {e.close : e \in Envelopes} \cup {NL}
<1>1. PICK prefix : prefix = Prefix
  OBVIOUS
<1>2. PICK actor : actor = job.actor
  OBVIOUS
<1>3. /\ IsText(actor.base) /\ IsText(actor.raw) /\ IsText(actor.generated)
      /\ IsText(actor.reasoning) /\ IsText(actor.content) /\ IsText(prefix)
      /\ Exposed(actor) /\ None \notin Envelopes
  BY <1>1, <1>2, JobsAssumption, PrefixIsText
<1>4. PICK S : /\ actor.base \in Seq(S) /\ actor.raw \in Seq(S)
               /\ actor.generated \in Seq(S) /\ actor.reasoning \in Seq(S)
               /\ actor.content \in Seq(S) /\ prefix \in Seq(S)
               /\ NL \in S /\ \A e \in Envelopes : e.close \in S
  <2> DEFINE All == ToSet(actor.base) \cup ToSet(actor.raw) \cup ToSet(actor.generated)
                      \cup ToSet(actor.reasoning) \cup ToSet(actor.content)
                      \cup ToSet(prefix) \cup Closing
  <2>1. /\ ToSet(actor.base) \subseteq All /\ ToSet(actor.raw) \subseteq All
        /\ ToSet(actor.generated) \subseteq All /\ ToSet(actor.reasoning) \subseteq All
        /\ ToSet(actor.content) \subseteq All /\ ToSet(prefix) \subseteq All
    OBVIOUS
  <2>2. NL \in All /\ \A e \in Envelopes : e.close \in All
    OBVIOUS
  <2> HIDE DEF All
  <2>3. actor.base \in Seq(All) /\ actor.raw \in Seq(All)
    BY <1>3, <2>1, SeqMonotonic DEF IsText
  <2>4. actor.generated \in Seq(All) /\ actor.reasoning \in Seq(All)
    BY <1>3, <2>1, SeqMonotonic DEF IsText
  <2>5. actor.content \in Seq(All) /\ prefix \in Seq(All)
    BY <1>3, <2>1, SeqMonotonic DEF IsText
  <2> QED
    BY <2>2, <2>3, <2>4, <2>5
<1>5. PICK transition \in Seq(S) : GoesOn(actor, plan, transition, prefix)
  <2>1. plan = Plan(actor, prefix)
    BY <1>1, <1>2
  <2>2. Exposed(actor) /\ None \notin Envelopes
    BY <1>3
  <2> QED
    BY <1>4, <2>1, <2>2, PlanContinues
<1>6. PICK said \in Seq(S) : said = actor.base \o actor.raw
  BY <1>4, ConcatProperties
<1>7. text = said \o (transition \o prefix)
  BY <1>2, <1>5, <1>6 DEF Forked, GoesOn
<1>8. /\ text = (said \o transition) \o prefix
      /\ text \in Seq(S)
      /\ SubSeq(text, Len(said) + 1, Len(text) - Len(prefix)) = transition
  <2>1. prefix \in Seq(S)
    BY <1>4
  <2> QED
    BY <1>7, <2>1, MiddleOfText
<1>9. IsText(text)
  BY <1>8, SequenceIsText
<1>10. /\ actor.open = None => transition = <<>>
       /\ actor.open # None => Strip(transition) = <<actor.open.close>>
  BY <1>5 DEF GoesOn
<1> QED
  BY <1>1, <1>2, <1>6, <1>8, <1>9, <1>10

-----------------------------------------------------------------------------
(***************************************************************************)
(* Every step keeps the route in step.                                     *)
(***************************************************************************)
\* The route starts with nothing asked for and nothing answered.
LEMMA RouteBegins == ForkInit => RouteInv /\ ForkContinuesActor
<1> SUFFICES ASSUME ForkInit
             PROVE  RouteInv /\ ForkContinuesActor
  OBVIOUS
<1>1. status # 200
  BY JobsAssumption DEF ForkInit
<1>2. RouteInStep
  BY <1>1 DEF ForkInit, RouteInStep
<1>3. RequestFits /\ ForkContinuesActor
  BY DEF ForkInit, RequestFits, ForkContinuesActor
<1>4. AnswerChecked
  BY <1>1 DEF ForkInit, AnswerChecked
<1> QED
  BY <1>2, <1>3, <1>4 DEF RouteInv

\* A step that leaves the request and its stream alone keeps the request fit.
LEMMA RequestKept ==
  ASSUME RequestFits, UNCHANGED <<job, prompt, limit, written>>,
         iterator' # "none" => iterator # "none"
  PROVE  RequestFits'
BY DEF RequestFits

\* A fork goes on from the Actor as long as its prompt stays.
LEMMA PromptKept ==
  ASSUME ForkContinuesActor, UNCHANGED <<job, prompt>>,
         iterator' # "none" => iterator # "none"
  PROVE  ForkContinuesActor'
<1>1. Prefix' = Prefix
  BY DEF Prefix
<1> QED
  BY <1>1 DEF ForkContinuesActor

\* A bundle needs no stream.
LEMMA BuildBundleKeepsRoute ==
  ASSUME RouteInv, ForkContinuesActor, BuildBundle
  PROVE  RouteInv' /\ ForkContinuesActor'
<1>1. /\ stage = "received" /\ job.kind = "candidates" /\ stage' = "done"
      /\ UNCHANGED <<job, fork>>
  BY DEF BuildBundle, Answered
<1>2. UNCHANGED <<job, prompt, limit, iterator, written, reused, calls>>
  BY <1>1 DEF fork
<1>3. RouteInStep'
  BY <1>1, <1>2 DEF RouteInv, RouteInStep
<1>4. RequestFits' /\ ForkContinuesActor'
  BY <1>2, RequestKept, PromptKept DEF RouteInv
<1>5. AnswerChecked'
  BY <1>1, <1>2 DEF AnswerChecked
<1> QED
  BY <1>3, <1>4, <1>5 DEF RouteInv

\* The smaller of two.
LEMMA MinOfTwo ==
  ASSUME NEW m \in Nat, NEW n \in Nat
  PROVE  Min({m, n}) \in Nat /\ Min({m, n}) <= m /\ Min({m, n}) <= n
<1>1. {m, n} \in SUBSET Nat /\ {m, n} # {}
  OBVIOUS
<1>2. Min({m, n}) \in {m, n} /\ \A k \in {m, n} : Min({m, n}) <= k
  BY <1>1, MinOfNaturals
<1> QED
  BY <1>2

\* The larger of two.
LEMMA MaxOfTwo ==
  ASSUME NEW m \in Nat, NEW n \in Nat
  PROVE  Max({m, n}) \in {m, n} /\ Max({m, n}) >= m /\ Max({m, n}) >= n
<1>1. {m, n} \in SUBSET Nat /\ {m, n} # {} /\ \A k \in {m, n} : k <= m + n
  OBVIOUS
<1>2. m + n \in Nat
  OBVIOUS
<1>3. Max({m, n}) \in {m, n} /\ \A k \in {m, n} : k <= Max({m, n})
  BY <1>1, <1>2, MaxOfNaturals
<1> QED
  BY <1>3

\* A fork's request fits the window, and goes on from the Actor.
LEMMA BuildForkKeepsRoute ==
  ASSUME RouteInv, ForkContinuesActor, BuildFork
  PROVE  RouteInv' /\ ForkContinuesActor'
<1>1. /\ stage = "received" /\ job.kind = "fork" /\ job \in Jobs
      /\ iterator = "none" /\ written = <<>> /\ UNCHANGED <<job, drafts>>
  BY DEF BuildFork, RouteInv, RouteInStep
<1>2. CASE Answered(422) /\ UNCHANGED fork
  <2>1. UNCHANGED <<job, prompt, limit, iterator, written, reused, calls>>
          /\ stage' = "done" /\ status' = 422
    BY <1>1, <1>2 DEF fork, Answered
  <2>2. RouteInStep'
    BY <1>1, <2>1 DEF RouteInv, RouteInStep
  <2>3. RequestFits' /\ ForkContinuesActor'
    BY <2>1, RequestKept, PromptKept DEF RouteInv
  <2>4. AnswerChecked'
    BY <2>1 DEF RouteInv, AnswerChecked
  <2> QED
    BY <2>2, <2>3, <2>4 DEF RouteInv
<1>3. CASE ~(Answered(422) /\ UNCHANGED fork)
  <2>1. PICK plan : plan = Plan(job.actor, Prefix)
    OBVIOUS
  <2>2. PICK text : text = Forked(plan)
    OBVIOUS
  <2>3. PICK room : room = Room(Len(text))
    OBVIOUS
  <2>4. /\ plan # None
        /\ job.window # None => job.counts /\ room > 0
        /\ stage' = "reading" /\ prompt' = text /\ limit' = Limit(room)
        /\ iterator' = "open"
        /\ UNCHANGED <<slips, written, reused, branch, calls, status>>
    BY <1>3, <2>1, <2>2, <2>3 DEF BuildFork
  <2>5. /\ IsText(text)
        /\ LET said    == job.actor.base \o job.actor.raw
               closing == SubSeq(text, Len(said) + 1, Len(text) - Len(Prefix))
           IN /\ text = said \o closing \o Prefix
              /\ IF job.actor.open = None THEN closing = <<>>
                 ELSE Strip(closing) = <<job.actor.open.close>>
    BY <1>1, <2>1, <2>2, <2>4, ForkedContinues
  <2>6. ForkContinuesActor'
    <3>1. Prefix' = Prefix
      BY <1>1 DEF Prefix
    <3> QED
      BY <1>1, <2>4, <2>5, <3>1 DEF ForkContinuesActor
  <2>7. Len(text) \in Nat
    BY <2>5, LenProperties DEF IsText
  <2>8. /\ job.maxTokens \in Nat
        /\ job.window # None => job.window \in Nat
        /\ None \notin Int
    BY <1>1, JobsAssumption
  <2>9. /\ limit' \in Nat
        /\ job.window # None => Len(text) + limit' <= job.window
    <3>1. CASE job.window = None
      BY <2>3, <2>4, <2>8, <3>1 DEF Room, Limit
    <3>2. CASE job.window # None
      <4>1. room = job.window - Len(text) /\ room \in Nat
        BY <2>3, <2>4, <2>7, <2>8, <3>2 DEF Room
      <4>2. limit' = Min({job.maxTokens, room})
        BY <2>4, <2>8, <4>1 DEF Limit
      <4>3. limit' \in Nat /\ limit' <= room
        BY <2>8, <4>1, <4>2, MinOfTwo
      <4> QED
        BY <2>7, <2>8, <3>2, <4>1, <4>3
    <3> QED
      BY <3>1, <3>2
  <2>10. IsText(<<>>) /\ Len(<<>>) = 0
    BY EmptySeq, SequenceIsText
  <2>11. RequestFits'
    BY <1>1, <2>4, <2>5, <2>9, <2>10 DEF RequestFits
  <2>12. RouteInStep'
    BY <1>1, <2>4 DEF RouteInv, RouteInStep
  <2>13. AnswerChecked'
    BY <1>1, <2>4 DEF RouteInv, RouteInStep, AnswerChecked
  <2> QED
    BY <2>6, <2>11, <2>12, <2>13 DEF RouteInv
<1> QED
  BY <1>2, <1>3

\* The stream keeps to the limit of its request.
LEMMA ReadKeepsRoute ==
  ASSUME RouteInv, ForkContinuesActor, Read
  PROVE  RouteInv' /\ ForkContinuesActor'
<1>1. /\ stage = "reading" /\ Len(written) < limit
      /\ reused' = Max({reused, job.cached})
      /\ UNCHANGED <<job, stage, prompt, limit, iterator, drafts, status>>
      /\ \E said : written' = Append(written, said)
  BY ZenonT(60) DEF Read
<1>2. iterator = "open" /\ job.kind = "fork" /\ job \in Jobs /\ status # 200
  BY <1>1 DEF RouteInv, RouteInStep
<1>3. RouteInStep'
  BY <1>1 DEF RouteInv, RouteInStep
<1>4. ForkContinuesActor'
  BY <1>1, PromptKept
<1>5. RequestFits'
  <2>1. PICK said : written' = Append(written, said)
    BY <1>1
  <2>2. IsText(written) /\ limit \in Nat
    BY <1>2 DEF RouteInv, RequestFits
  <2>3. IsText(written') /\ Len(written') = Len(written) + 1
    <3> DEFINE All == ToSet(written) \cup {said}
    <3>1. ToSet(written) \subseteq All /\ said \in All
      OBVIOUS
    <3> HIDE DEF All
    <3>2. written \in Seq(All)
      BY <2>2, <3>1, SeqMonotonic DEF IsText
    <3>3. written' \in Seq(All) /\ Len(written') = Len(written) + 1
      BY <2>1, <3>1, <3>2, AppendProperties
    <3> QED
      BY <3>3, SequenceIsText
  <2>4. Len(written') <= limit
    <3>1. Len(written) \in Nat
      BY <2>2, LenProperties DEF IsText
    <3> QED
      BY <1>1, <2>2, <2>3, <3>1
  <2> QED
    BY <1>1, <1>2, <2>3, <2>4 DEF RouteInv, RequestFits
<1>6. AnswerChecked'
  <2>1. job.cached \in Nat
    BY <1>2, JobsAssumption
  <2>2. reused \in {0, job.cached}
    BY <1>2 DEF RouteInv, AnswerChecked
  <2>3. reused' \in {0, job.cached}
    BY <1>1, <2>1, <2>2, MaxOfTwo
  <2> QED
    BY <1>1, <1>2, <2>3 DEF AnswerChecked
<1> QED
  BY <1>3, <1>4, <1>5, <1>6 DEF RouteInv

\* The steps after the last chunk leave the request alone.
LEMMA EndKeepsRoute ==
  ASSUME RouteInv, ForkContinuesActor, StreamEnds \/ StreamFails \/ CloseIterator
  PROVE  RouteInv' /\ ForkContinuesActor'
<1>1. /\ stage \in {"reading", "closing"}
      /\ UNCHANGED <<job, prompt, limit, written, reused, calls>>
      /\ \/ stage' = "closing" /\ iterator' = iterator /\ status' \in {status, 422, 503}
         \/ stage' = "answering" /\ iterator' = "closed" /\ status' = status
         \/ stage' = "done" /\ iterator' = "closed" /\ status' \in {status, 422, 503}
  BY DEF StreamEnds, StreamFails, CloseIterator, Answered, fork
<1>2. iterator = "open" /\ job.kind = "fork" /\ status # 200
  BY <1>1 DEF RouteInv, RouteInStep
<1>3. status' # 200
  BY <1>1, <1>2
<1>4. RouteInStep'
  BY <1>1, <1>2, <1>3 DEF RouteInv, RouteInStep
<1>5. RequestFits' /\ ForkContinuesActor'
  BY <1>1, <1>2, RequestKept, PromptKept DEF RouteInv
<1>6. AnswerChecked'
  BY <1>1, <1>2, <1>3 DEF RouteInv, AnswerChecked
<1> QED
  BY <1>4, <1>5, <1>6 DEF RouteInv

\* The answer is given once the stream is closed, and 200 only when it is earned.
LEMMA AnswerForkKeepsRoute ==
  ASSUME RouteInv, ForkContinuesActor, AnswerFork
  PROVE  RouteInv' /\ ForkContinuesActor'
<1>1. /\ stage = "answering" /\ stage' = "done"
      /\ UNCHANGED <<job, fork>>
      /\ status' \in {200, 422}
      /\ status' = 200 => calls # <<>> /\ CacheProven
  BY DEF AnswerFork, Answered
<1>2. UNCHANGED <<job, prompt, limit, iterator, written, reused, calls>>
  BY <1>1 DEF fork
<1>3. iterator = "closed"
  BY <1>1 DEF RouteInv, RouteInStep
<1>4. RouteInStep'
  BY <1>1, <1>2, <1>3 DEF RouteInv, RouteInStep
<1>5. RequestFits' /\ ForkContinuesActor'
  BY <1>2, RequestKept, PromptKept DEF RouteInv
<1>6. AnswerChecked'
  BY <1>1, <1>2, <1>3 DEF RouteInv, AnswerChecked, CacheProven
<1> QED
  BY <1>4, <1>5, <1>6 DEF RouteInv

\* The invariant of the routes, and that a fork goes on from the Actor, are kept
\* by every step.
LEMMA RouteStays ==
  RouteInv /\ ForkContinuesActor /\ [ForkNext]_forkVars
    => RouteInv' /\ ForkContinuesActor'
<1> SUFFICES ASSUME RouteInv, ForkContinuesActor, [ForkNext]_forkVars
             PROVE  RouteInv' /\ ForkContinuesActor'
  OBVIOUS
<1>1. CASE UNCHANGED forkVars
  <2>1. UNCHANGED <<job, stage, prompt, limit, iterator, written, reused, calls, status>>
    BY <1>1 DEF forkVars, fork
  <2>2. RouteInStep'
    BY <2>1 DEF RouteInv, RouteInStep
  <2>3. RequestFits' /\ ForkContinuesActor'
    BY <2>1, RequestKept, PromptKept DEF RouteInv
  <2>4. AnswerChecked'
    BY <2>1 DEF RouteInv, AnswerChecked, CacheProven
  <2> QED
    BY <2>2, <2>3, <2>4 DEF RouteInv
<1> QED
  BY <1>1, BuildBundleKeepsRoute, BuildForkKeepsRoute, ReadKeepsRoute, EndKeepsRoute,
     AnswerForkKeepsRoute DEF ForkNext

\* A 200 stands for what it says: with the stream closed and its request fit, the
\* prompt and what was written are within the window.
LEMMA CheckedIsEarned == RouteInv => ReceiptIsEarned
<1> SUFFICES ASSUME RouteInv
             PROVE  ReceiptIsEarned
  OBVIOUS
<1>1. stage = "done" => iterator # "open"
  BY DEF RouteInv, RouteInStep
<1>2. ASSUME job.kind = "fork", status = 200
      PROVE  /\ iterator = "closed" /\ calls # <<>>
             /\ job.policy = "required" => job.cached > 0
             /\ job.window # None => Len(prompt) + Len(written) <= job.window
  <2>1. iterator = "closed" /\ calls # <<>> /\ CacheProven /\ reused \in {0, job.cached}
    BY <1>2 DEF RouteInv, AnswerChecked
  <2>2. job.policy = "required" => job.cached > 0
    BY <2>1 DEF CacheProven
  <2>3. /\ IsText(prompt) /\ IsText(written) /\ limit \in Nat /\ Len(written) <= limit
        /\ job.window # None => Len(prompt) + limit <= job.window
    BY <2>1 DEF RouteInv, RequestFits
  <2>4. Len(prompt) \in Nat /\ Len(written) \in Nat
    BY <2>3, LenProperties DEF IsText
  <2>5. job.window # None => job.window \in Nat
    BY <1>2, JobsAssumption DEF RouteInv, RouteInStep
  <2>6. job.window # None => Len(prompt) + Len(written) <= job.window
    BY <2>3, <2>4, <2>5
  <2> QED
    BY <2>1, <2>2, <2>6
<1> QED
  BY <1>1, <1>2 DEF ReceiptIsEarned

\* For every snapshot that shows the Actor's output in one of the ways an API may, and
\* for every forced prefix, a fork goes on exactly where the Actor is
\* (ContinuationPlanner.plan, _active_envelope, PrefixForkBuilder.build).
THEOREM ForksContinueActor == ForkSpec => []ForkContinuesActor
<1> QED
  BY RouteBegins, RouteStays, PTL DEF ForkSpec

\* For every job and every stream, an answer of 200 is earned, and no answer is given
\* while the stream is open (SnapshotForkRunner.run, fit_request_to_context,
\* verify_fork_cache).
THEOREM ReceiptsAreEarned == ForkSpec => []ReceiptIsEarned
<1> QED
  BY RouteBegins, RouteStays, CheckedIsEarned, PTL DEF ForkSpec
=============================================================================
