----------------------------- MODULE ControlPlane -----------------------------
(***************************************************************************)
(* SelfSpeculationControlPlane (control_plane.py): the server that merges  *)
(* the candidates an agent sends with the draft its own fork produced and  *)
(* hands the result to a draft feedback channel.  Calls run on one event   *)
(* loop and interleave at their awaits: the build of a draft, the lock of  *)
(* a request's state, and the feedback channel.  The sections under        *)
(* _states_lock await nothing, so each is one step.                        *)
(*                                                                         *)
(* Each call of the environment is made once; its arguments are Payload.   *)
(* A _ControlState object is named by the call that created it.            *)
(***************************************************************************)
EXTENDS Integers, SequencesExt

CONSTANTS
  Requests,      (* request IDs                                             *)
  Calls,         (* the calls the clients make                              *)
  NoCall,        (* None                                                    *)
  Contents,      (* what a draft says: its text or tokens and its boundary  *)
  Sources,       (* who proposed it (the "sources" metadata)                *)
  Payload,       (* what each call asks for: kind, request and drafts       *)
  MaxClosed,     (* max_closed_requests                                     *)
  Responsive     (* the requests whose feedback calls always come back      *)

Draft == [content : Contents, sources : SUBSET Sources]

ASSUME CallsAssumption ==
  /\ NoCall \notin Calls
  /\ MaxClosed \in Nat \ {0}
  /\ Responsive \subseteq Requests
  /\ \A c \in Calls :
       /\ Payload[c].kind \in {"candidates", "fork", "clear"}
       /\ Payload[c].request \in Requests
       /\ Payload[c].drafts \in Seq(Draft)
       /\ Payload[c].kind # "clear" => Payload[c].drafts # <<>>

VARIABLES
  states,       (* _states: the state object of each request, or NoCall     *)
  control,      (* the _ControlState objects                                *)
  tombstones,   (* _closed_requests, oldest first                           *)
  pc, local,    (* where each call is, and the state object it holds        *)
  registered    (* what the feedback channel holds for each request         *)

vars == <<states, control, tombstones, pc, local, registered>>

-----------------------------------------------------------------------------
Request(c) == Payload[c].request

Clears == {c \in Calls : Payload[c].kind = "clear"}

Updates == Calls \ Clears

Tombstoned(r) == \E i \in DOMAIN tombstones : tombstones[i] = r

Fresh == [external |-> <<>>, self |-> <<>>, closed |-> FALSE,
          holder |-> NoCall]

Nothing == <<>>

Init ==
  /\ states = [r \in Requests |-> NoCall]
  /\ control = [s \in Calls |-> Fresh]
  /\ tombstones = <<>>
  /\ pc = [c \in Calls |-> "idle"]
  /\ local = [c \in Calls |-> NoCall]
  /\ registered = [r \in Requests |-> Nothing]

-----------------------------------------------------------------------------
\* _draft_identity: two drafts that say the same are one.
SameDraft(a, b) == a.content = b.content

\* _merge_draft_metadata: the draft with everybody's sources.
Merged(draft, same) == [draft EXCEPT !.sources = UNION {d.sources : d \in same}]

\* Variant of Combined: a draft both sides predicted keeps only the sources of
\* the first.
FirstsOnly(s) ==
  LET all == s.external \o s.self
  IN [i \in {i \in DOMAIN all :
               \A j \in 1..(i - 1) : ~SameDraft(all[j], all[i])} |-> all[i]]

\* _combined: the candidates, then the fork's draft; drafts that say the same
\* become one, at the first one's place. The bundle is indexed by the positions
\* that survive.
Combined(s) ==
  LET all    == s.external \o s.self
      firsts == {i \in DOMAIN all :
                   \A j \in 1..(i - 1) : ~SameDraft(all[j], all[i])}
  IN [i \in firsts |->
        Merged(all[i], {d \in Range(all) : SameDraft(d, all[i])})]

Goto(c, label) == pc' = [pc EXCEPT ![c] = label]

\* _ensure_open passes for a call that holds state s of request r.
Open(r, s) == ~control[s].closed /\ states[r] = s

-----------------------------------------------------------------------------
(***************************************************************************)
(* submit_candidates and fork                                              *)
(***************************************************************************)
\* Variant of Admit: the tombstone is not looked at.
AdmitAlways(c) ==
  LET r == Request(c)
      s == IF states[r] = NoCall THEN c ELSE states[r]
  IN /\ pc[c] = "idle"
     /\ states' = [states EXCEPT ![r] = s]
     /\ local' = [local EXCEPT ![c] = s]
     /\ Goto(c, "building")
     /\ UNCHANGED <<control, tombstones, registered>>

\* _state_for finds the request's state or creates it.
Admit(c) ==
  LET r == Request(c)
      s == IF states[r] = NoCall THEN c ELSE states[r]
  IN /\ pc[c] = "idle"
     /\ ~Tombstoned(r)
     /\ states' = [states EXCEPT ![r] = s]
     /\ local' = [local EXCEPT ![c] = s]
     /\ Goto(c, "building")
     /\ UNCHANGED <<control, tombstones, registered>>

\* _state_for raises: the request has been cleared.
Refuse(c) ==
  /\ pc[c] = "idle"
  /\ Tombstoned(Request(c))
  /\ Goto(c, "rejected")
  /\ UNCHANGED <<states, control, tombstones, local, registered>>

\* candidate_builder.build or fork_runner.run returns or raises.
Build(c) ==
  /\ pc[c] = "building"
  /\ \E label \in {"waiting", "failed"} : Goto(c, label)
  /\ UNCHANGED <<states, control, tombstones, local, registered>>

\* The state with the draft of update c in place of the last one of its kind, and
\* its lock held by c.
Updated(s, c) ==
  [s EXCEPT
     !.external = IF Payload[c].kind = "candidates" THEN Payload[c].drafts ELSE @,
     !.self     = IF Payload[c].kind = "fork" THEN Payload[c].drafts ELSE @,
     !.holder   = c]

\* Variant of Acquire: calls of all requests share one lock.
AcquireGlobal(c) ==
  LET s == local[c] IN
  /\ pc[c] = "waiting"
  /\ \A t \in Calls : control[t].holder = NoCall
  /\ Open(Request(c), s)
  /\ control' = [control EXCEPT ![s] = Updated(@, c)]
  /\ Goto(c, "calling")
  /\ UNCHANGED <<states, tombstones, local, registered>>

\* The state's lock is free and the request still open: the new draft replaces
\* the old one of its kind and the merge goes to the feedback channel.
Acquire(c) ==
  LET s == local[c] IN
  /\ pc[c] = "waiting"
  /\ control[s].holder = NoCall
  /\ Open(Request(c), s)
  /\ control' = [control EXCEPT ![s] = Updated(@, c)]
  /\ Goto(c, "calling")
  /\ UNCHANGED <<states, tombstones, local, registered>>

\* _ensure_open raises: the request was cleared while the draft was built.
RejectLate(c) ==
  /\ pc[c] = "waiting"
  /\ control[local[c]].holder = NoCall
  /\ ~Open(Request(c), local[c])
  /\ Goto(c, "rejected")
  /\ UNCHANGED <<states, control, tombstones, local, registered>>

\* A feedback call is over: the lock is released.
Leave(c, label) ==
  /\ Goto(c, label)
  /\ control' = IF local[c] = NoCall THEN control
                ELSE [control EXCEPT ![local[c]].holder = NoCall]

\* feedback.submit replaces the request's bundle; when it raises the bundle may
\* have arrived or not.
Submit(c) ==
  LET merged == [registered EXCEPT ![Request(c)] = Combined(control[local[c]])]
  IN /\ pc[c] = "calling"
     /\ \/ registered' = merged /\ Leave(c, "returned")
        \/ registered' \in {registered, merged} /\ Leave(c, "broken")
     /\ UNCHANGED <<states, tombstones, local>>

-----------------------------------------------------------------------------
(***************************************************************************)
(* clear                                                                   *)
(***************************************************************************)
\* Variant of Entombed: no tombstone makes room.
EntombedUnbounded(r) == Append(RemoveFirst(tombstones, r), r)

\* The tombstones after r is (again) cleared; the oldest makes room.
Entombed(r) ==
  LET all == Append(RemoveFirst(tombstones, r), r)
  IN IF Len(all) > MaxClosed THEN Tail(all) ELSE all

\* Variant of BeginClear: the state object is dropped but not closed, and its
\* lock is not waited for.
BeginClearAtOnce(c) ==
  LET r == Request(c) IN
  /\ pc[c] = "idle"
  /\ states' = [states EXCEPT ![r] = NoCall]
  /\ tombstones' = Entombed(r)
  /\ Goto(c, "calling")
  /\ UNCHANGED <<control, local, registered>>

\* The section under _states_lock: the state is dropped and closed, and the
\* tombstone installed, before any wait.
BeginClear(c) ==
  LET r == Request(c)
      s == states[r]
  IN /\ pc[c] = "idle"
     /\ states' = [states EXCEPT ![r] = NoCall]
     /\ control' = IF s = NoCall THEN control
                   ELSE [control EXCEPT ![s].closed = TRUE]
     /\ tombstones' = Entombed(r)
     /\ local' = [local EXCEPT ![c] = s]
     /\ Goto(c, IF s = NoCall THEN "calling" ELSE "waiting")
     /\ UNCHANGED registered

\* The lock of the dropped state is free.
AcquireClear(c) ==
  /\ pc[c] = "waiting"
  /\ control[local[c]].holder = NoCall
  /\ control' = [control EXCEPT ![local[c]].holder = c]
  /\ Goto(c, "calling")
  /\ UNCHANGED <<states, tombstones, local, registered>>

\* feedback.clear empties the channel; when it raises it may have done so or not.
ClearFeedback(c) ==
  LET emptied == [registered EXCEPT ![Request(c)] = Nothing]
  IN /\ pc[c] = "calling"
     /\ \/ registered' = emptied /\ Leave(c, "returned")
        \/ registered' \in {registered, emptied} /\ Leave(c, "broken")
     /\ UNCHANGED <<states, tombstones, local>>

-----------------------------------------------------------------------------
\* What the event loop runs as soon as it can.
Run(c) ==
  IF c \in Clears THEN AcquireClear(c) ELSE Acquire(c) \/ RejectLate(c)

\* What the feedback channel answers.
Feedback(c) == IF c \in Clears THEN ClearFeedback(c) ELSE Submit(c)

Next ==
  \/ \E c \in Updates :
       Admit(c) \/ Refuse(c) \/ Build(c) \/ Acquire(c) \/ RejectLate(c)
         \/ Submit(c)
  \/ \E c \in Clears : BeginClear(c) \/ AcquireClear(c) \/ ClearFeedback(c)

\* Ready coroutines run, and the feedback channel answers for the responsive
\* requests. Nothing is assumed of the builds, of the channel's answers for the
\* other requests, or of the clients.
Fairness ==
  \A c \in Calls :
    /\ WF_vars(Run(c))
    /\ Request(c) \in Responsive => WF_vars(Feedback(c))

Spec == Init /\ [][Next]_vars /\ Fairness

-----------------------------------------------------------------------------
(***************************************************************************)
(* Properties                                                              *)
(***************************************************************************)
Finished == {"returned", "rejected", "failed", "broken"}

ControlState ==
  [external : Seq(Draft), self : Seq(Draft), closed : BOOLEAN,
   holder : Calls \cup {NoCall}]

\* Types of the two dictionaries, the state objects, the calls and the channel;
\* the tombstones are bounded and distinct.
TypeOK ==
  /\ states \in [Requests -> Calls \cup {NoCall}]
  /\ control \in [Calls -> ControlState]
  /\ tombstones \in Seq(Requests)
  /\ Len(tombstones) <= MaxClosed
  /\ \A i, j \in DOMAIN tombstones : tombstones[i] = tombstones[j] => i = j
  /\ pc \in [Calls -> Finished \cup {"idle", "building", "waiting", "calling"}]
  /\ local \in [Calls -> Calls \cup {NoCall}]
  /\ DOMAIN registered = Requests
  /\ \A r \in Requests :
       /\ DOMAIN registered[r] \subseteq Nat
       /\ \A i \in DOMAIN registered[r] : registered[r][i] \in Draft

\* A request is never both open and tombstoned.
OpenIsNotTombstoned ==
  \A r \in Requests : states[r] # NoCall => ~Tombstoned(r)

\* The calls of a request that have begun.
Begun(r, kinds) ==
  {c \in Calls : Request(c) = r /\ Payload[c].kind \in kinds /\ pc[c] # "idle"}

ContentsOf(bundle) == {bundle[i].content : i \in DOMAIN bundle}

\* No update is lost to another one: while a request is open, and unless the
\* channel failed it, what the channel holds when nobody holds the request's
\* lock is the last candidates and the last fork draft that got in, each content
\* once, with the sources of all who proposed it.
NoUpdateLost ==
  \A r \in Requests :
    LET s == states[r]
        all == control[s].external \o control[s].self
    IN (/\ Begun(r, {"clear"}) = {}
        /\ s # NoCall /\ control[s].holder = NoCall
        /\ \A c \in Begun(r, {"candidates", "fork"}) : pc[c] # "broken")
       => /\ ContentsOf(registered[r]) = ContentsOf(all)
          /\ Cardinality(DOMAIN registered[r]) =
               Cardinality(ContentsOf(registered[r]))
          /\ \A i \in DOMAIN registered[r], j \in DOMAIN all :
               registered[r][i].content = all[j].content
                 => all[j].sources \subseteq registered[r][i].sources

\* A cleared request stays cleared: once its clears are over and it has not been
\* opened again, the channel holds nothing for it, whatever work was in flight
\* and even after its tombstone has made room for another.
LateUpdatesFenced ==
  \A r \in Requests :
    (/\ states[r] = NoCall
     /\ Begun(r, {"clear"}) # {}
     /\ \A c \in Begun(r, {"clear"}) : pc[c] = "returned")
      => registered[r] = Nothing

\* A channel that never answers for one request, and builds that never end, hold
\* up no call of another: a clear finishes, and so does an update once built.
UnrelatedCallsFinish ==
  \A c \in Calls :
    Request(c) \in Responsive =>
      (pc[c] \in {"waiting", "calling"} ~> pc[c] \in Finished)
=============================================================================
