------------------------- MODULE ForkControllerProofs -------------------------
(***************************************************************************)
(* The seven safety invariants of ForkController for every set of options, *)
(* every number of chunks and every number of tool calls.                  *)
(*                                                                         *)
(* The inductive invariant has two layers.  Control says where the streams,*)
(* the draft, the flags and the feedback channel stand at each place of    *)
(* the coroutine; it does not mention the events.  Told says what the      *)
(* events so far tell of that state: how many of each kind there are, and  *)
(* which kind is not followed by which.                                    *)
(***************************************************************************)
EXTENDS ForkController, FiniteSetTheorems, SequenceTheorems, TLAPS

-----------------------------------------------------------------------------
(***************************************************************************)
(* Control                                                                 *)
(***************************************************************************)
Loop == {"wait", "main", "trigger", "cut", "fork", "draft"}
After == {"finish", "clear"}
Closing == {"closeMain", "closeFork", "lateClear", "done"}

Kinds == {"MainChunk", "MainCompleted", "ForkStarted", "ForkChunk", "ToolCall",
          "ForkCompleted", "ForkSkipped", "ForkFailed", "DraftSubmitted",
          "DraftFailed", "DraftCleared"}

Histories == [mainChunks : 0..MaxChunks, forkChunks : 0..MaxChunks,
              mainFailed : BOOLEAN, closeFailed : BOOLEAN, clears : Nat,
              cleared : BOOLEAN, detached : BOOLEAN]

TypeOK ==
  /\ options \in [strictFork : BOOLEAN, strictDraft : BOOLEAN,
                  feedback : BOOLEAN]
  /\ pc \in Loop \cup After \cup Closing \cup {"cleanup"}
  /\ done \in SUBSET {"main", "fork", "draft"}
  /\ main \in TaskAlive \cup {"idle", "closed"}
  /\ fork \in (TaskAlive \ {"held"}) \cup {"none", "idle", "closed"}
  /\ draft \in DraftAlive \cup {"none", "over"}
  /\ forkStarted \in BOOLEAN /\ forkTerminal \in BOOLEAN
  /\ draftStarted \in BOOLEAN /\ draftCleared \in BOOLEAN
  /\ decoded \in 0..MaxCalls /\ batch \in 0..MaxCalls
  /\ inflight \in BOOLEAN /\ registered \in BOOLEAN
  /\ events \in Seq(Kinds)
  /\ outcome \in {"running", "returned", "raised", "abandoned"}
  /\ history \in Histories

\* The outcome is open exactly until the coroutine reaches its finally block.
OutcomeInv == (outcome = "running") <=> (pc \in Loop \cup After)

\* Until the cut, the main stream has its task.
MainInv ==
  /\ pc \in Loop \ {"cut"} => main \in TaskAlive
  /\ pc = "trigger" => main = "held"
  /\ pc = "cut" => main \in TaskAlive \cup {"closed"}
  /\ main = "error" => history.mainFailed

\* In the loop a fork that was opened and has not ended has its task, and only
\* such a fork has one; main cannot be over without a fork or its skipping.
ForkInv ==
  /\ pc \in Loop => (fork \in TaskAlive <=> (forkStarted /\ ~forkTerminal))
  /\ fork \in TaskAlive => forkStarted /\ ~forkTerminal
  /\ pc \in Loop /\ main \in TaskAlive /\ ~forkStarted => ~forkTerminal
  /\ pc = "cut" /\ main \notin TaskAlive => forkStarted \/ forkTerminal

\* A draft is started once, by a fork that ended, with all its calls.
DraftInv ==
  /\ draft # "none" => draftStarted
  /\ draftStarted => forkTerminal /\ batch = decoded /\ batch > 0
  /\ draftCleared => draftStarted

\* After the cut every task is gone and the fork has been accounted for.
AfterInv ==
  /\ pc \in After => /\ main = "closed" /\ fork \in {"none", "idle", "closed"}
                     /\ draft \notin DraftAlive /\ forkTerminal
  /\ pc = "clear" => draftStarted
  /\ outcome = "returned" => main = "closed" /\ forkTerminal

\* The finally block takes the streams one after the other.
ClosingInv ==
  /\ pc \in Closing => draft \notin DraftAlive /\ fork # "running"
  /\ pc \in Closing => main \in {"idle", "closed"}
  /\ pc \in Closing => fork \in {"none", "idle", "closed"}
  /\ pc \in {"closeFork", "lateClear"} => main = "closed"
  /\ pc = "lateClear" => fork \in {"none", "closed"}

\* A clear is made in one of two places, whichever the coroutine comes to first.
ClearInv ==
  /\ pc # "done" => history.clears = (IF draftCleared THEN 1 ELSE 0)
  /\ pc \in Loop \cup After => ~draftCleared
  /\ pc = "lateClear" => draftStarted /\ ~draftCleared
  /\ ReleasedAtEnd

\* A submission that is still on its way has a caller that waits for it, or was
\* given up on; after a clear the channel is left alone.
SubmissionInv ==
  /\ inflight /\ ~history.detached => draft = "submitting"
  /\ history.cleared => draft \notin DraftAlive /\ pc \notin Loop \cup After
  /\ history.cleared /\ ~history.detached => ~registered

Control ==
  /\ TypeOK /\ OutcomeInv /\ MainInv /\ ForkInv /\ DraftInv
  /\ AfterInv /\ ClosingInv /\ ClearInv /\ SubmissionInv
  /\ AccelerationNeverFatal

-----------------------------------------------------------------------------
(***************************************************************************)
(* Told                                                                    *)
(***************************************************************************)
Occurrences(s, kinds) == Cardinality({i \in DOMAIN s : s[i] \in kinds})

NoneAfter(s, these, those) ==
  \A i, j \in DOMAIN s : (s[i] \in these /\ i < j) => s[j] \notin those

\* What a run may still yield once its main stream has completed.
Epilogue == {"ForkSkipped", "DraftCleared", "DraftFailed"}

\* Nothing of a fork is told before its start or after its end.
ForkTold ==
  /\ Occurrences(events, {"ForkStarted"}) <= 1
  /\ ~forkStarted => Occurrences(events, {"ForkStarted"}) = 0
  /\ Occurrences(events, TerminalKinds) = (IF forkTerminal THEN 1 ELSE 0)
  /\ NoneAfter(events, TerminalKinds, ForkKinds)

\* The calls that were decoded are the calls that were told.
CallsTold ==
  /\ Occurrences(events, {"ToolCall"}) = decoded
  /\ ~forkTerminal => Occurrences(events, {"ForkCompleted"}) = 0
  /\ draftStarted => Occurrences(events, {"ForkCompleted"}) = 1

\* Main runs on, or it has completed: its end was taken.
MainRuns == pc \in Loop /\ main \in TaskAlive

MainIsOver ==
  \/ pc \in After
  \/ pc = "cut" /\ main \notin TaskAlive
  \/ outcome = "returned"

\* Main's chunks are told when they are taken, its completion when it is over,
\* and then nothing but the epilogue.
MainTold ==
  /\ MainRuns => Occurrences(events, {"MainCompleted"}) = 0
  /\ MainIsOver => Occurrences(events, {"MainCompleted"}) = 1
  /\ outcome \in {"running", "returned"} =>
       Occurrences(events, {"MainChunk"}) + (IF main = "chunk" THEN 1 ELSE 0)
         = history.mainChunks
  /\ NoneAfter(events, {"MainCompleted"}, Kinds \ Epilogue)

\* A run that returns tells last how its draft was cleared.
ClearTold ==
  outcome = "returned" /\ draftStarted =>
    events # <<>> /\ events[Len(events)] \in {"DraftCleared", "DraftFailed"}

Told == ForkTold /\ CallsTold /\ MainTold /\ ClearTold

IInv == Control /\ Told

-----------------------------------------------------------------------------

-----------------------------------------------------------------------------
(***************************************************************************)
(* Control is kept by every step                                           *)
(***************************************************************************)
\* What each kind of step writes into the history.
LEMMA FailureRecorded ==
  ASSUME history \in Histories,
         \/ history' = [history EXCEPT !.mainFailed = TRUE]
         \/ history' = [history EXCEPT !.closeFailed = TRUE]
  PROVE  history' \in Histories
  BY DEF Histories

\* MainProgress writes a chunk or a failure into the history, or nothing.
LEMMA MainRecorded ==
  ASSUME history \in Histories,
         \/ /\ history.mainChunks < MaxChunks
            /\ history' = [history EXCEPT !.mainChunks = @ + 1]
         \/ history' = [history EXCEPT !.mainFailed = TRUE]
         \/ UNCHANGED history
  PROVE  history' \in Histories
<1>1. CASE /\ history.mainChunks < MaxChunks
           /\ history' = [history EXCEPT !.mainChunks = @ + 1]
  <2>1. history.mainChunks + 1 \in 0..MaxChunks
    BY <1>1, BoundAssumption DEF Histories
  <2> QED
    BY <1>1, <2>1 DEF Histories
<1> QED
  BY <1>1, FailureRecorded DEF Histories

\* A submission that is given up on is detached exactly when it goes on.
LEMMA GiveUpFacts ==
  ASSUME history \in Histories, inflight \in BOOLEAN, GiveUp
  PROVE  /\ history' \in Histories
         /\ inflight' \in BOOLEAN /\ (inflight' => inflight)
         /\ history'.detached <=> (history.detached \/ inflight')
         /\ history' = [history EXCEPT !.detached = history'.detached]
<1>1. inflight' \in BOOLEAN /\ (inflight' => inflight)
  <2>1. CASE inflight' = FALSE
    BY <2>1
  <2>2. CASE inflight' = inflight
    BY <2>2
  <2> QED
    BY <2>1, <2>2 DEF GiveUp
<1> DEFINE d == history.detached \/ inflight'
<1>2. d \in BOOLEAN
  OBVIOUS
<1>3. history' = [history EXCEPT !.detached = d]
  BY DEF GiveUp
<1> HIDE DEF d
<1>4. history' \in Histories /\ history'.detached = d
  BY <1>2, <1>3 DEF Histories
<1>5. history' = [history EXCEPT !.detached = history'.detached]
  BY <1>3, <1>4
<1> QED
  BY <1>1, <1>4, <1>5 DEF d

\* A clear is counted whether it returns or breaks; returning empties the channel.
LEMMA ClearFacts ==
  ASSUME history \in Histories, registered \in BOOLEAN,
         ClearReturns \/ ClearBreaks
  PROVE  /\ history' \in Histories
         /\ registered' \in BOOLEAN /\ (registered' => registered)
         /\ history'.clears = history.clears + 1
         /\ history'.cleared /\ ~history.cleared => ~registered'
         /\ history'.mainFailed = history.mainFailed
         /\ history'.closeFailed = history.closeFailed
         /\ history'.detached = history.detached
<1>1. registered' \in BOOLEAN /\ (registered' => registered)
  <2>1. CASE registered' = FALSE
    BY <2>1
  <2>2. CASE registered' = registered
    BY <2>2
  <2> QED
    BY <2>1, <2>2 DEF ClearReturns, ClearBreaks
<1>2. CASE ClearReturns
  <2>1. registered' = FALSE
    BY <1>2 DEF ClearReturns
  <2>2. history' = [history EXCEPT !.clears = @ + 1, !.cleared = TRUE]
    BY <1>2 DEF ClearReturns
  <2>3. ~registered'
    BY <2>1
  <2>4. history' \in Histories
    <3> DEFINE counted == [history EXCEPT !.clears = @ + 1]
    <3>1. counted \in Histories
      BY DEF Histories
    <3>2. history' = [counted EXCEPT !.cleared = TRUE]
      BY <2>2, <3>1 DEF Histories
    <3> HIDE DEF counted
    <3> QED
      BY <3>1, <3>2 DEF Histories
  <2>5. /\ history'.clears = history.clears + 1
        /\ history'.mainFailed = history.mainFailed
        /\ history'.closeFailed = history.closeFailed
        /\ history'.detached = history.detached
    BY <2>2 DEF Histories
  <2> QED
    BY <1>1, <2>3, <2>4, <2>5
<1>3. CASE ClearBreaks
  <2>1. history' = [history EXCEPT !.clears = @ + 1]
    BY <1>3 DEF ClearBreaks
  <2> QED
    BY <1>1, <2>1 DEF Histories
<1> QED
  BY <1>2, <1>3

\* The controller starts with the main stream running and nothing else.
LEMMA ControlInit == Init => Control
<1> SUFFICES ASSUME Init PROVE Control
  OBVIOUS
<1>1. TypeOK
  <2>1. history \in Histories
    BY BoundAssumption DEF Init, Histories
  <2>2. events \in Seq(Kinds)
    BY DEF Init
  <2>3. options \in [strictFork : BOOLEAN, strictDraft : BOOLEAN,
                     feedback : BOOLEAN]
    BY OptionsAssumption DEF Init
  <2>4. decoded \in 0..MaxCalls /\ batch \in 0..MaxCalls
    BY BoundAssumption DEF Init
  <2> QED
    BY <2>1, <2>2, <2>3, <2>4 DEF Init, TypeOK, Loop, TaskAlive, Ready
<1> QED
  BY <1>1
  DEF Init, Control, OutcomeInv, MainInv, ForkInv, DraftInv, AfterInv,
      ClosingInv, ClearInv, SubmissionInv, AccelerationNeverFatal,
      ReleasedAtEnd, Released, Loop, After, Closing, TaskAlive, Ready,
      DraftAlive, DraftReady

\* A step that yields events of known kinds keeps every variable in its type.
LEMMA TypeNext ==
  TypeOK /\ events' \in Seq(Kinds) /\ [Next]_vars => TypeOK'
<1> SUFFICES ASSUME TypeOK, events' \in Seq(Kinds), [Next]_vars
             PROVE  TypeOK'
  OBVIOUS
<1> USE BoundAssumption
    DEF TypeOK, controlVars, feedbackVars, vars, Loop, After, Closing,
        TaskAlive, Ready, DraftAlive, DraftReady, Goto, Raise, Fail
<1>1. CASE MainProgress
  <2>1. history' \in Histories
    BY <1>1, MainRecorded DEF MainProgress
  <2> QED
    BY <1>1, <2>1 DEF MainProgress
<1>2. CASE ForkProgress
  <2>1. history' \in Histories
    BY <1>2 DEF ForkProgress, Histories
  <2> QED
    BY <1>2, <2>1 DEF ForkProgress
<1>3. CASE DraftBuild
  <2>1. inflight' \in BOOLEAN
    BY <1>3 DEF DraftBuild
  <2> QED
    BY <1>3, <2>1 DEF DraftBuild
<1>4. CASE SubmissionLands
  <2>1. inflight' \in BOOLEAN /\ registered' \in BOOLEAN
    BY <1>4 DEF SubmissionLands
  <2> QED
    BY <1>4, <2>1 DEF SubmissionLands
<1>5. CASE DraftSubmit
  <2>1. inflight' \in BOOLEAN /\ history' \in Histories
    BY <1>5, GiveUpFacts DEF DraftSubmit
  <2> QED
    BY <1>5, <2>1 DEF DraftSubmit
<1>6. CASE Wake
  BY <1>6 DEF Wake, ReadyTasks
<1>7. CASE MainNotDone
  BY <1>7 DEF MainNotDone
<1>8. CASE TakeMainChunk
  BY <1>8 DEF TakeMainChunk
<1>9. CASE TakeMainEnd
  BY <1>9 DEF TakeMainEnd
<1>10. CASE TakeMainError
  BY <1>10 DEF TakeMainError
<1>11. CASE NoFork
  BY <1>11 DEF NoFork
<1>12. CASE OpenFork
  BY <1>12 DEF OpenFork
<1>13. CASE OpenForkFails
  BY <1>13 DEF OpenForkFails
<1>14. CASE KeepGoing
  BY <1>14 DEF KeepGoing
<1>15. CASE CancelLosers
  <2>1. inflight' \in BOOLEAN /\ history' \in Histories
    BY <1>15, GiveUpFacts DEF CancelLosers
  <2>2. forkTerminal' \in BOOLEAN
    BY <1>15 DEF CancelLosers
  <2> QED
    BY <1>15, <2>1, <2>2 DEF CancelLosers, Cancelled, Suspended
<1>16. CASE ForkNotDone
  BY <1>16 DEF ForkNotDone
<1>17. CASE FeedFails
  <2>1. history' \in Histories
    BY <1>17, FailureRecorded DEF FeedFails
  <2> QED
    BY <1>17, <2>1 DEF FeedFails
<1>18. CASE ForkFails
  BY <1>18 DEF ForkFails
<1>19. ASSUME NEW calls \in 0..MaxCalls, TakeForkChunk(calls)
      PROVE  TypeOK'
  BY <1>19 DEF TakeForkChunk
<1>20. ASSUME NEW calls \in 0..MaxCalls, TakeForkEnd(calls)
      PROVE  TypeOK'
  BY <1>20 DEF TakeForkEnd
<1>21. CASE DraftNotDone
  BY <1>21 DEF DraftNotDone
<1>22. CASE TakeDraft
  BY <1>22 DEF TakeDraft
<1>23. CASE Finish
  BY <1>23 DEF Finish
<1>24. CASE Clear
  <2>1. registered' \in BOOLEAN /\ history' \in Histories
    BY <1>24, ClearFacts DEF Clear
  <2> QED
    BY <1>24, <2>1 DEF Clear
<1>25. CASE Abandon
  <2>1. registered' \in BOOLEAN /\ history' \in Histories
    BY <1>25, ClearFacts DEF Abandon
  <2>2. draftCleared' \in BOOLEAN
    BY <1>25 DEF Abandon
  <2> QED
    BY <1>25, <2>1, <2>2 DEF Abandon
<1>26. CASE CancelPending
  <2>1. inflight' \in BOOLEAN /\ history' \in Histories
    BY <1>26, GiveUpFacts DEF CancelPending
  <2> QED
    BY <1>26, <2>1 DEF CancelPending, Cancelled, Suspended
<1>27. CASE CloseMain
  <2>1. history' \in Histories
    BY <1>27, FailureRecorded DEF CloseMain, CloseRaises
  <2> QED
    BY <1>27, <2>1 DEF CloseMain, CloseRaises
<1>28. CASE CloseFork
  <2>1. history' \in Histories
    BY <1>28, FailureRecorded DEF CloseFork, CloseRaises
  <2> QED
    BY <1>28, <2>1 DEF CloseFork, CloseRaises
<1>29. CASE LateClear
  <2>1. registered' \in BOOLEAN /\ history' \in Histories
    BY <1>29, ClearFacts DEF LateClear
  <2> QED
    BY <1>29, <2>1 DEF LateClear
<1>30. CASE UNCHANGED vars
  BY <1>30
<1> QED
  BY <1>1, <1>2, <1>3, <1>4, <1>5, <1>6, <1>7, <1>8, <1>9, <1>10, <1>11, <1>12,
     <1>13, <1>14, <1>15, <1>16, <1>17, <1>18, <1>19, <1>20, <1>21, <1>22,
     <1>23, <1>24, <1>25, <1>26, <1>27, <1>28, <1>29, <1>30
  DEF Next, Environment, Controller

\* No step of the coroutine or around it disturbs where things stand.
LEMMA ControlNext ==
  Control /\ TypeOK' /\ [Next]_vars => Control'
<1> SUFFICES ASSUME Control, TypeOK', [Next]_vars
             PROVE  Control'
  OBVIOUS
<1> USE DEF Control, TypeOK, OutcomeInv, MainInv, ForkInv, DraftInv, AfterInv,
            ClosingInv, ClearInv, SubmissionInv, AccelerationNeverFatal,
            ReleasedAtEnd, Released, Loop, After, Closing, TaskAlive, Ready,
            DraftAlive, DraftReady, controlVars, feedbackVars, vars, Goto,
            Raise, Fail
<1>1. CASE MainProgress
  <2>1. /\ history'.clears = history.clears
        /\ history'.cleared = history.cleared
        /\ history'.detached = history.detached
        /\ history'.closeFailed = history.closeFailed
        /\ main' = "error" => history'.mainFailed
        /\ history.mainFailed => history'.mainFailed
    BY <1>1 DEF MainProgress, Histories
  <2> QED
    BY <1>1, <2>1 DEF MainProgress
<1>2. CASE ForkProgress
  <2>1. /\ history'.clears = history.clears
        /\ history'.cleared = history.cleared
        /\ history'.detached = history.detached
        /\ history'.mainFailed = history.mainFailed
        /\ history'.closeFailed = history.closeFailed
    BY <1>2 DEF ForkProgress, Histories
  <2> QED
    BY <1>2, <2>1 DEF ForkProgress
<1>3. CASE DraftBuild
  BY <1>3 DEF DraftBuild
<1>4. CASE SubmissionLands
  BY <1>4 DEF SubmissionLands
<1>5. CASE DraftSubmit
  <2>1. inflight' /\ ~history'.detached => draft' = "submitting"
    BY <1>5, GiveUpFacts DEF DraftSubmit
  <2>2. /\ history'.clears = history.clears
        /\ history'.cleared = history.cleared
        /\ ~history'.detached => ~history.detached
        /\ history'.closeFailed = history.closeFailed
        /\ history'.mainFailed = history.mainFailed
    BY <1>5, GiveUpFacts DEF DraftSubmit, Histories
  <2> QED
    BY <1>5, <2>1, <2>2 DEF DraftSubmit
<1>6. CASE Wake
  BY <1>6 DEF Wake, ReadyTasks
<1>7. CASE MainNotDone
  BY <1>7 DEF MainNotDone
<1>8. CASE TakeMainChunk
  BY <1>8 DEF TakeMainChunk
<1>9. CASE TakeMainEnd
  BY <1>9 DEF TakeMainEnd
<1>10. CASE TakeMainError
  BY <1>10 DEF TakeMainError
<1>11. CASE NoFork
  BY <1>11 DEF NoFork
<1>12. CASE OpenFork
  BY <1>12 DEF OpenFork
<1>13. CASE OpenForkFails
  BY <1>13 DEF OpenForkFails
<1>14. CASE KeepGoing
  BY <1>14 DEF KeepGoing
<1>15. CASE CancelLosers
  <2>1. /\ inflight' => history'.detached
        /\ ~history'.detached => ~history.detached
        /\ history'.clears = history.clears
        /\ history'.cleared = history.cleared
        /\ history'.mainFailed = history.mainFailed
        /\ history'.closeFailed = history.closeFailed
    BY <1>15, GiveUpFacts DEF CancelLosers, Histories
  <2> QED
    BY <1>15, <2>1 DEF CancelLosers, Cancelled, Suspended
<1>16. CASE ForkNotDone
  BY <1>16 DEF ForkNotDone
<1>17. CASE FeedFails
  <2>1. CASE UNCHANGED history
    <3>1. \/ options.strictFork \/ history.closeFailed
          \/ pc' = "draft" /\ outcome' = outcome
      BY <1>17, <2>1 DEF FeedFails, Histories
    <3>2. \/ pc' = "draft" /\ outcome' = outcome
          \/ pc' = "cleanup" /\ outcome' = "raised"
      BY <1>17 DEF FeedFails
    <3>3. fork' \in {"idle", "closed"}
      BY <1>17 DEF FeedFails
    <3> QED
      BY <1>17, <2>1, <3>1, <3>2, <3>3 DEF FeedFails
  <2>2. CASE history' = [history EXCEPT !.closeFailed = TRUE]
    <3>1. /\ history'.clears = history.clears
          /\ history'.cleared = history.cleared
          /\ history'.detached = history.detached
          /\ history'.mainFailed = history.mainFailed
          /\ history'.closeFailed
      BY <2>2 DEF Histories
    <3> QED
      BY <1>17, <3>1 DEF FeedFails
  <2> QED
    BY <1>17, <2>1, <2>2 DEF FeedFails
<1>18. CASE ForkFails
  BY <1>18 DEF ForkFails
<1>19. ASSUME NEW calls \in 0..MaxCalls, TakeForkChunk(calls)
      PROVE  Control'
  BY <1>19 DEF TakeForkChunk
<1>20. ASSUME NEW calls \in 0..MaxCalls, TakeForkEnd(calls)
      PROVE  Control'
  BY <1>20 DEF TakeForkEnd
<1>21. CASE DraftNotDone
  BY <1>21 DEF DraftNotDone
<1>22. CASE TakeDraft
  BY <1>22 DEF TakeDraft
<1>23. CASE Finish
  BY <1>23 DEF Finish
<1>24. CASE Clear
  <2>1. /\ history'.clears = history.clears + 1
        /\ history'.cleared /\ ~history.cleared => ~registered'
        /\ history'.mainFailed = history.mainFailed
        /\ history'.closeFailed = history.closeFailed
        /\ history'.detached = history.detached
    BY <1>24, ClearFacts DEF Clear
  <2> QED
    BY <1>24, <2>1 DEF Clear
<1>25. CASE Abandon
  <2>1. CASE pc = "clear"
    <3>1. /\ history'.clears = history.clears + 1
          /\ history'.cleared /\ ~history.cleared => ~registered'
          /\ history'.mainFailed = history.mainFailed
          /\ history'.closeFailed = history.closeFailed
          /\ history'.detached = history.detached
      BY <1>25, <2>1, ClearFacts DEF Abandon
    <3> QED
      BY <1>25, <2>1, <3>1 DEF Abandon
  <2>2. CASE pc # "clear"
    BY <1>25, <2>2 DEF Abandon
  <2> QED
    BY <2>1, <2>2
<1>26. CASE CancelPending
  <2>1. /\ inflight' => history'.detached
        /\ ~history'.detached => ~history.detached
        /\ history'.clears = history.clears
        /\ history'.cleared = history.cleared
        /\ history'.mainFailed = history.mainFailed
        /\ history'.closeFailed = history.closeFailed
    BY <1>26, GiveUpFacts DEF CancelPending, Histories
  <2> QED
    BY <1>26, <2>1 DEF CancelPending, Cancelled, Suspended
<1>27. CASE CloseMain
  <2>1. CASE UNCHANGED <<outcome, history>>
    BY <1>27, <2>1 DEF CloseMain, CloseRaises, Histories
  <2>2. CASE CloseRaises
    <3>1. /\ history'.clears = history.clears
          /\ history'.cleared = history.cleared
          /\ history'.detached = history.detached
          /\ history'.mainFailed = history.mainFailed
          /\ history'.closeFailed
          /\ pc' = "done" /\ outcome' = "raised"
      BY <2>2 DEF CloseRaises, Histories
    <3> HIDE DEF CloseRaises
    <3> QED
      BY <1>27, <3>1 DEF CloseMain
  <2> QED
    BY <1>27, <2>1, <2>2 DEF CloseMain
<1>28. CASE CloseFork
  <2>1. CASE UNCHANGED <<outcome, history>>
    BY <1>28, <2>1 DEF CloseFork, CloseRaises, Histories
  <2>2. CASE CloseRaises
    <3>1. /\ history'.clears = history.clears
          /\ history'.cleared = history.cleared
          /\ history'.detached = history.detached
          /\ history'.mainFailed = history.mainFailed
          /\ history'.closeFailed
          /\ pc' = "done" /\ outcome' = "raised"
      BY <2>2 DEF CloseRaises, Histories
    <3> HIDE DEF CloseRaises
    <3> QED
      BY <1>28, <3>1 DEF CloseFork
  <2> QED
    BY <1>28, <2>1, <2>2 DEF CloseFork
<1>29. CASE LateClear
  <2>1. /\ history'.clears = history.clears + 1
        /\ history'.cleared /\ ~history.cleared => ~registered'
        /\ registered' => registered
        /\ history'.mainFailed = history.mainFailed
        /\ history'.closeFailed = history.closeFailed
        /\ history'.detached = history.detached
    BY <1>29, ClearFacts DEF LateClear
  <2> QED
    BY <1>29, <2>1 DEF LateClear
<1>30. CASE UNCHANGED vars
  BY <1>30
<1> QED
  BY <1>1, <1>2, <1>3, <1>4, <1>5, <1>6, <1>7, <1>8, <1>9, <1>10, <1>11, <1>12,
     <1>13, <1>14, <1>15, <1>16, <1>17, <1>18, <1>19, <1>20, <1>21, <1>22,
     <1>23, <1>24, <1>25, <1>26, <1>27, <1>28, <1>29, <1>30
  DEF Next, Environment, Controller

-----------------------------------------------------------------------------
(***************************************************************************)
(* Counting the events of a kind                                           *)
(***************************************************************************)
\* The occurrences of some kinds in a sequence can be counted.
LEMMA OccurrencesFinite ==
  ASSUME NEW S, NEW s \in Seq(S), NEW kinds
  PROVE  /\ IsFiniteSet({i \in DOMAIN s : s[i] \in kinds})
         /\ Occurrences(s, kinds) \in Nat
         /\ Occurrences(s, kinds) = 0 <=> \A i \in DOMAIN s : s[i] \notin kinds
<1> DEFINE Where == {i \in DOMAIN s : s[i] \in kinds}
<1>1. IsFiniteSet(DOMAIN s)
  <2>1. DOMAIN s = 1..Len(s) /\ Len(s) \in Int
    OBVIOUS
  <2>2. IsFiniteSet(1..Len(s))
    BY <2>1, FS_Interval
  <2> QED
    BY <2>1, <2>2
<1>2. IsFiniteSet(Where)
  BY <1>1, FS_Subset, Where \in SUBSET DOMAIN s
<1>3. Cardinality(Where) \in Nat
  BY <1>2, FS_CardinalityType
<1>4. Cardinality(Where) = 0 <=> Where = {}
  BY <1>2, FS_EmptySet
<1>5. Where = {} <=> \A i \in DOMAIN s : s[i] \notin kinds
  OBVIOUS
<1> QED
  BY <1>2, <1>3, <1>4, <1>5 DEF Occurrences

\* Moving a set of positions along the sequence does not change their number.
LEMMA ShiftedPositions ==
  ASSUME NEW n \in Nat, NEW P \in SUBSET Nat, IsFiniteSet(P)
  PROVE  /\ IsFiniteSet({n + i : i \in P})
         /\ Cardinality({n + i : i \in P}) = Cardinality(P)
<1> DEFINE Moved == {n + i : i \in P}
           shift == [i \in P |-> n + i]
<1>1. shift \in [P -> Moved]
  OBVIOUS
<1>2. \A i, j \in P : shift[i] = shift[j] => i = j
  OBVIOUS
<1>3. \A m \in Moved : \E i \in P : shift[i] = m
  OBVIOUS
<1>4. shift \in Injection(P, Moved) /\ shift \in Surjection(P, Moved)
  BY <1>1, <1>2, <1>3 DEF Injection, IsInjective, Surjection
<1>5. ExistsBijection(P, Moved)
  BY <1>4 DEF ExistsBijection, Bijection
<1> QED
  BY <1>5, FS_Bijection, Zenon

\* What is told adds up.
LEMMA OccurrencesAdd ==
  ASSUME NEW S, NEW s \in Seq(S), NEW t \in Seq(S), NEW kinds
  PROVE  Occurrences(s \o t, kinds)
           = Occurrences(s, kinds) + Occurrences(t, kinds)
<1> DEFINE Where(u) == {i \in DOMAIN u : u[i] \in kinds}
           Moved == {Len(s) + i : i \in Where(t)}
<1>1. /\ Len(s) \in Nat /\ Len(t) \in Nat
      /\ DOMAIN s = 1..Len(s) /\ DOMAIN t = 1..Len(t)
  OBVIOUS
<1>2. /\ DOMAIN (s \o t) = 1..(Len(s) + Len(t))
      /\ \A i \in 1..Len(s) : (s \o t)[i] = s[i]
      /\ \A i \in 1..Len(t) : (s \o t)[Len(s) + i] = t[i]
  BY <1>1
<1>3. Where(s \o t) = Where(s) \cup Moved
  <2>1. ASSUME NEW k \in Where(s \o t)
        PROVE  k \in Where(s) \cup Moved
    <3>1. CASE k <= Len(s)
      BY <1>1, <1>2, <3>1
    <3>2. CASE k > Len(s)
      <4>1. k - Len(s) \in 1..Len(t) /\ k = Len(s) + (k - Len(s))
        BY <1>1, <1>2, <3>2
      <4>2. k - Len(s) \in Where(t)
        BY <1>1, <1>2, <4>1
      <4> QED
        BY <4>1, <4>2
    <3> QED
      BY <1>1, <1>2, <3>1, <3>2
  <2>2. ASSUME NEW k \in Where(s)
        PROVE  k \in Where(s \o t)
    BY <1>1, <1>2
  <2>3. ASSUME NEW k \in Where(t)
        PROVE  Len(s) + k \in Where(s \o t)
    BY <1>1, <1>2
  <2> QED
    BY <2>1, <2>2, <2>3
<1>4. Where(s) \cap Moved = {}
  BY <1>1
<1>5. IsFiniteSet(Where(s)) /\ IsFiniteSet(Where(t))
  BY OccurrencesFinite
<1>6. IsFiniteSet(Moved) /\ Cardinality(Moved) = Cardinality(Where(t))
  BY <1>1, <1>5, ShiftedPositions, Where(t) \in SUBSET Nat
<1>7. Cardinality(Where(s)) \in Nat /\ Cardinality(Where(t)) \in Nat
  BY <1>5, FS_CardinalityType
<1>8. Cardinality(Where(s) \cup Moved)
        = Cardinality(Where(s)) + Cardinality(Moved)
            - Cardinality(Where(s) \cap Moved)
  BY <1>5, <1>6, FS_Union, Zenon
<1>9. Cardinality(Where(s) \cap Moved) = 0
  BY <1>4, FS_EmptySet
<1> HIDE DEF Moved, Where
<1>10. Cardinality(Where(s \o t))
         = Cardinality(Where(s)) + Cardinality(Where(t))
  BY <1>3, <1>6, <1>7, <1>8, <1>9
<1> QED
  BY <1>10 DEF Occurrences, Where

\* An order that two sequences keep is kept by their concatenation when nothing
\* of the second is barred by the first.
LEMMA NoneAfterAdds ==
  ASSUME NEW S, NEW s \in Seq(S), NEW t \in Seq(S), NEW these, NEW those,
         NoneAfter(s, these, those), NoneAfter(t, these, those),
         \/ Occurrences(s, these) = 0
         \/ Occurrences(t, those) = 0
  PROVE  NoneAfter(s \o t, these, those)
<1>1. /\ Len(s) \in Nat /\ Len(t) \in Nat
      /\ DOMAIN s = 1..Len(s) /\ DOMAIN t = 1..Len(t)
  OBVIOUS
<1>2. /\ DOMAIN (s \o t) = 1..(Len(s) + Len(t))
      /\ \A i \in 1..(Len(s) + Len(t)) :
           (s \o t)[i] = IF i <= Len(s) THEN s[i] ELSE t[i - Len(s)]
  BY <1>1
<1>3. \/ \A i \in DOMAIN s : s[i] \notin these
      \/ \A i \in DOMAIN t : t[i] \notin those
  BY OccurrencesFinite
<1> SUFFICES ASSUME NEW i \in DOMAIN (s \o t), NEW j \in DOMAIN (s \o t),
                    (s \o t)[i] \in these, i < j
             PROVE  (s \o t)[j] \notin those
  BY DEF NoneAfter
<1>4. CASE j <= Len(s)
  BY <1>1, <1>2, <1>4 DEF NoneAfter
<1>5. CASE i > Len(s)
  <2>1. i - Len(s) \in DOMAIN t /\ j - Len(s) \in DOMAIN t
    BY <1>1, <1>2, <1>5
  <2> QED
    BY <1>1, <1>2, <1>5, <2>1 DEF NoneAfter
<1>6. CASE i <= Len(s) /\ j > Len(s)
  <2>1. i \in DOMAIN s /\ j - Len(s) \in DOMAIN t
    BY <1>1, <1>2, <1>6
  <2> QED
    BY <1>1, <1>2, <1>3, <1>6, <2>1
<1> QED
  BY <1>1, <1>2, <1>4, <1>5, <1>6

\* How often a kind occurs when one event is told n more times.
LEMMA RepeatedOccurrences ==
  ASSUME NEW s \in Seq(Kinds), NEW n \in Nat, NEW e \in Kinds, NEW kinds,
         NEW t, t = [i \in 1..n |-> e]
  PROVE  Occurrences(s \o t, kinds)
           = Occurrences(s, kinds) + (IF e \in kinds THEN n ELSE 0)
<1>1. t \in Seq(Kinds) /\ DOMAIN t = 1..n
  OBVIOUS
<1>2. Occurrences(t, kinds) = IF e \in kinds THEN n ELSE 0
  <2>1. CASE e \in kinds
    <3>1. {i \in DOMAIN t : t[i] \in kinds} = 1..n
      BY <2>1
    <3>2. Cardinality(1..n) = n
      BY FS_Interval
    <3> QED
      BY <2>1, <3>1, <3>2 DEF Occurrences
  <2>2. CASE e \notin kinds
    <3>1. {i \in DOMAIN t : t[i] \in kinds} = {}
      BY <2>2
    <3> QED
      BY <2>2, <3>1, FS_EmptySet DEF Occurrences
  <2> QED
    BY <2>1, <2>2
<1>3. Occurrences(s \o t, kinds) = Occurrences(s, kinds) + Occurrences(t, kinds)
  BY <1>1, OccurrencesAdd
<1> QED
  BY <1>2, <1>3

\* The order is kept when that event is not barred by what was told before it,
\* and not by itself.
LEMMA RepeatedOrder ==
  ASSUME NEW s \in Seq(Kinds), NEW n \in Nat, NEW e \in Kinds,
         NEW t, t = [i \in 1..n |-> e],
         NEW these, NEW those, NoneAfter(s, these, those),
         n <= 1 \/ e \notin these \/ e \notin those,
         Occurrences(s, these) = 0 \/ e \notin those
  PROVE  NoneAfter(s \o t, these, those)
<1>1. t \in Seq(Kinds) /\ DOMAIN t = 1..n
  OBVIOUS
<1>2. NoneAfter(t, these, those)
  BY DEF NoneAfter
<1>3. Occurrences(t, those) = 0 \/ e \in those
  BY <1>1, OccurrencesFinite
<1> QED
  BY <1>1, <1>2, <1>3, NoneAfterAdds

\* What n events of one kind add to what has been told.
Tells(s, u, e, n) ==
  /\ u \in Seq(Kinds)
  /\ \A kinds \in {{"ForkStarted"}, {"ForkCompleted"}, {"ToolCall"},
                   {"MainCompleted"}, {"MainChunk"}, TerminalKinds} :
       /\ Occurrences(s, kinds) \in Nat
       /\ Occurrences(u, kinds)
            = Occurrences(s, kinds) + (IF e \in kinds THEN n ELSE 0)
  /\ /\ NoneAfter(s, TerminalKinds, ForkKinds)
     /\ Occurrences(s, TerminalKinds) = 0 \/ e \notin ForkKinds
     => NoneAfter(u, TerminalKinds, ForkKinds)
  /\ /\ NoneAfter(s, {"MainCompleted"}, Kinds \ Epilogue)
     /\ Occurrences(s, {"MainCompleted"}) = 0 \/ e \in Epilogue
     => NoneAfter(u, {"MainCompleted"}, Kinds \ Epilogue)

\* Telling one kind n times, which is neither terminal nor main's completion
\* when it is told more than once.
LEMMA TellsMany ==
  ASSUME NEW s \in Seq(Kinds), NEW n \in Nat, NEW e \in Kinds,
         n <= 1 \/ e \notin TerminalKinds \cup {"MainCompleted"},
         NEW t, t = [i \in 1..n |-> e]
  PROVE  Tells(s, s \o t, e, n)
<1>1. s \o t \in Seq(Kinds)
  OBVIOUS
<1>2. ASSUME NEW kinds
      PROVE  /\ Occurrences(s, kinds) \in Nat
             /\ Occurrences(s \o t, kinds)
                  = Occurrences(s, kinds) + (IF e \in kinds THEN n ELSE 0)
  <2>1. Occurrences(s, kinds) \in Nat
    BY OccurrencesFinite
  <2>2. Occurrences(s \o t, kinds)
          = Occurrences(s, kinds) + (IF e \in kinds THEN n ELSE 0)
    BY RepeatedOccurrences
  <2> QED
    BY <2>1, <2>2
<1>3. ASSUME NoneAfter(s, TerminalKinds, ForkKinds),
             Occurrences(s, TerminalKinds) = 0 \/ e \notin ForkKinds
      PROVE  NoneAfter(s \o t, TerminalKinds, ForkKinds)
  BY <1>3, RepeatedOrder
<1>4. ASSUME NoneAfter(s, {"MainCompleted"}, Kinds \ Epilogue),
             Occurrences(s, {"MainCompleted"}) = 0 \/ e \in Epilogue
      PROVE  NoneAfter(s \o t, {"MainCompleted"}, Kinds \ Epilogue)
  BY <1>4, RepeatedOrder
<1> QED
  BY <1>1, <1>2, <1>3, <1>4, Zenon DEF Tells

\* Telling one event.
LEMMA TellsOne ==
  ASSUME NEW s \in Seq(Kinds), NEW e \in Kinds, NEW u, u = s \o <<e>>
  PROVE  Tells(s, u, e, 1) /\ u # <<>> /\ u[Len(u)] = e
<1> DEFINE t == [i \in 1..1 |-> e]
<1>1. <<e>> = t
  OBVIOUS
<1>2. u # <<>> /\ u[Len(u)] = e
  OBVIOUS
<1>3. 1 \in Nat /\ 1 <= 1
  OBVIOUS
<1>4. Tells(s, s \o t, e, 1)
  BY <1>3, TellsMany, Zenon
<1> QED
  BY <1>1, <1>2, <1>4

\* A step that tells nothing and decides nothing about the fork, and does not
\* reopen main.
Silent ==
  /\ UNCHANGED <<events, forkStarted, forkTerminal, draftStarted, decoded>>
  /\ MainRuns' => MainRuns
  /\ MainIsOver' => MainIsOver
  /\ outcome' \in {"running", "returned"} => outcome \in {"running", "returned"}
  /\ outcome' = "returned" /\ draftStarted => outcome = "returned"

\* A chunk of main that was counted waits to be taken.
ChunksKept ==
  outcome' \in {"running", "returned"} =>
    \/ /\ history'.mainChunks = history.mainChunks
       /\ main' = "chunk" <=> main = "chunk"
    \/ /\ history'.mainChunks = history.mainChunks + 1
       /\ main' = "chunk" /\ main # "chunk"

\* Such a step keeps what was told.
LEMMA SilentStep ==
  ASSUME Told, Silent, ChunksKept, Occurrences(events, {"MainChunk"}) \in Nat
  PROVE  Told'
<1>1. ForkTold' /\ CallsTold' /\ ClearTold'
  BY DEF Silent, Told, ForkTold, CallsTold, ClearTold
<1>2. MainTold'
  BY DEF Silent, ChunksKept, Told, MainTold
<1> QED
  BY <1>1, <1>2 DEF Told

\* What is told of the fork and the draft while main runs leaves main's part.
LEMMA MainUntouched ==
  ASSUME MainTold, MainRuns, ~MainIsOver', outcome = "running",
         UNCHANGED main, history'.mainChunks = history.mainChunks,
         Occurrences(events', {"MainCompleted"})
           = Occurrences(events, {"MainCompleted"}),
         Occurrences(events', {"MainChunk"})
           = Occurrences(events, {"MainChunk"}),
         NoneAfter(events', {"MainCompleted"}, Kinds \ Epilogue)
  PROVE  MainTold'
  BY DEF MainTold

\* Nothing is told at first.
LEMMA ToldInit == Init => Told
<1> SUFFICES ASSUME Init PROVE Told
  OBVIOUS
<1>1. events \in Seq(Kinds) /\ DOMAIN events = {}
  BY DEF Init
<1>2. ASSUME NEW kinds
      PROVE  Occurrences(events, kinds) = 0
  BY <1>1, OccurrencesFinite
<1> QED
  BY <1>1, <1>2
  DEF Init, Told, ForkTold, CallsTold, MainTold, ClearTold, NoneAfter,
      MainRuns, MainIsOver, Loop, After, TaskAlive, Ready

\* The steps that tell nothing.
Quiet ==
  \/ MainProgress \/ ForkProgress
  \/ DraftBuild \/ SubmissionLands \/ DraftSubmit
  \/ Wake \/ MainNotDone \/ TakeMainError \/ NoFork \/ KeepGoing
  \/ ForkNotDone \/ DraftNotDone
  \/ Abandon \/ CancelPending \/ CloseMain \/ CloseFork \/ LateClear
  \/ UNCHANGED vars

\* They decide nothing about the fork and leave main as it is.
LEMMA QuietIsSilent == Control /\ Quiet => Silent
<1> SUFFICES ASSUME Control, Quiet PROVE Silent
  OBVIOUS
<1> USE DEF Control, TypeOK, OutcomeInv, MainInv, AfterInv, ClosingInv,
            Silent, MainRuns, MainIsOver, Loop, After, Closing, TaskAlive,
            Ready, controlVars, feedbackVars, vars, Goto, Raise
<1>1. CASE MainProgress
  BY <1>1 DEF MainProgress
<1>2. CASE ForkProgress
  BY <1>2 DEF ForkProgress
<1>3. CASE DraftBuild
  BY <1>3 DEF DraftBuild
<1>4. CASE SubmissionLands
  BY <1>4 DEF SubmissionLands
<1>5. CASE DraftSubmit
  BY <1>5 DEF DraftSubmit, GiveUp
<1>6. CASE Wake
  BY <1>6 DEF Wake, ReadyTasks
<1>7. CASE MainNotDone
  BY <1>7 DEF MainNotDone
<1>8. CASE TakeMainError
  BY <1>8 DEF TakeMainError
<1>9. CASE NoFork
  BY <1>9 DEF NoFork
<1>10. CASE KeepGoing
  BY <1>10 DEF KeepGoing
<1>11. CASE ForkNotDone
  BY <1>11 DEF ForkNotDone
<1>12. CASE DraftNotDone
  BY <1>12 DEF DraftNotDone
<1>13. CASE Abandon
  BY <1>13 DEF Abandon, ClearReturns, ClearBreaks
<1>14. CASE CancelPending
  BY <1>14 DEF CancelPending, GiveUp, Cancelled, Suspended
<1>15. CASE CloseMain
  BY <1>15 DEF CloseMain, CloseRaises
<1>16. CASE CloseFork
  BY <1>16 DEF CloseFork, CloseRaises
<1>17. CASE LateClear
  BY <1>17 DEF LateClear, ClearReturns, ClearBreaks
<1>18. CASE UNCHANGED vars
  BY <1>18
<1> QED
  BY <1>1, <1>2, <1>3, <1>4, <1>5, <1>6, <1>7, <1>8, <1>9, <1>10, <1>11, <1>12,
     <1>13, <1>14, <1>15, <1>16, <1>17, <1>18
  DEF Quiet

\* They take no chunk of main.
LEMMA QuietKeepsChunks == Control /\ Quiet => ChunksKept
<1> SUFFICES ASSUME Control, Quiet PROVE ChunksKept
  OBVIOUS
<1> USE DEF Control, TypeOK, Histories, OutcomeInv, MainInv, AfterInv,
            ClosingInv, ChunksKept, Loop, After, Closing, TaskAlive, Ready,
            controlVars, feedbackVars, vars, Goto, Raise
<1>1. CASE MainProgress
  BY <1>1 DEF MainProgress
<1>2. CASE ForkProgress
  BY <1>2 DEF ForkProgress
<1>3. CASE DraftBuild
  BY <1>3 DEF DraftBuild
<1>4. CASE SubmissionLands
  BY <1>4 DEF SubmissionLands
<1>5. CASE DraftSubmit
  BY <1>5 DEF DraftSubmit, GiveUp
<1>6. CASE Wake
  BY <1>6 DEF Wake, ReadyTasks
<1>7. CASE MainNotDone
  BY <1>7 DEF MainNotDone
<1>8. CASE TakeMainError
  BY <1>8 DEF TakeMainError
<1>9. CASE NoFork
  BY <1>9 DEF NoFork
<1>10. CASE KeepGoing
  BY <1>10 DEF KeepGoing
<1>11. CASE ForkNotDone
  BY <1>11 DEF ForkNotDone
<1>12. CASE DraftNotDone
  BY <1>12 DEF DraftNotDone
<1>13. CASE Abandon
  BY <1>13 DEF Abandon, ClearReturns, ClearBreaks
<1>14. CASE CancelPending
  BY <1>14 DEF CancelPending, GiveUp, Cancelled, Suspended
<1>15. CASE CloseMain
  BY <1>15 DEF CloseMain, CloseRaises
<1>16. CASE CloseFork
  BY <1>16 DEF CloseFork, CloseRaises
<1>17. CASE LateClear
  BY <1>17 DEF LateClear, ClearReturns, ClearBreaks
<1>18. CASE UNCHANGED vars
  BY <1>18
<1> QED
  BY <1>1, <1>2, <1>3, <1>4, <1>5, <1>6, <1>7, <1>8, <1>9, <1>10, <1>11, <1>12,
     <1>13, <1>14, <1>15, <1>16, <1>17, <1>18
  DEF Quiet

\* Every step keeps what was told in accord with the state.
LEMMA ToldNext ==
  Control /\ Told /\ [Next]_vars => Told' /\ events' \in Seq(Kinds)
<1> SUFFICES ASSUME Control, Told, [Next]_vars
             PROVE  Told' /\ events' \in Seq(Kinds)
  OBVIOUS
<1> USE DEF TypeOK, Loop, After, Closing, TaskAlive, Ready, ForkKinds,
            TerminalKinds, Epilogue, controlVars, feedbackVars, vars, Goto,
            Raise, Fail
<1>a. events \in Seq(Kinds)
  BY DEF Control
<1>b. Occurrences(events, {"MainChunk"}) \in Nat
  BY <1>a, OccurrencesFinite
<1>c. /\ "MainChunk" \in Kinds /\ "MainCompleted" \in Kinds
      /\ "ForkStarted" \in Kinds /\ "ForkChunk" \in Kinds
      /\ "ToolCall" \in Kinds /\ "ForkCompleted" \in Kinds
      /\ "ForkSkipped" \in Kinds /\ "ForkFailed" \in Kinds
      /\ "DraftSubmitted" \in Kinds /\ "DraftFailed" \in Kinds
      /\ "DraftCleared" \in Kinds
  BY DEF Kinds
<1>1. CASE Quiet
  BY <1>1, <1>a, <1>b, QuietIsSilent, QuietKeepsChunks, SilentStep DEF Silent
<1>2. CASE TakeMainChunk
  <2>1. Tells(events, events', "MainChunk", 1)
    BY <1>2, <1>a, <1>c, TellsOne DEF TakeMainChunk, Yield
  <2> QED
    BY <1>2, <2>1
    DEF TakeMainChunk, Told, ForkTold, CallsTold, MainTold, ClearTold,
        MainRuns, MainIsOver, Control, MainInv, OutcomeInv, Tells
<1>3. CASE TakeMainEnd
  <2>1. events \o <<"MainCompleted">> \in Seq(Kinds)
    BY <1>a, <1>c
  <2>2. PICK told \in Seq(Kinds) : told = events \o <<"MainCompleted">>
    BY <2>1
  <2>3. Tells(events, told, "MainCompleted", 1)
    BY <1>a, <1>c, <2>2, TellsOne
  <2>4. pc = "main" /\ main = "end" /\ outcome = "running" /\ pc' = "cut"
    BY <1>3 DEF TakeMainEnd, Control, OutcomeInv
  <2>5. CASE forkStarted
    <3>1. events' = told
      BY <1>3, <2>2, <2>5 DEF TakeMainEnd, Yield
    <3>2. forkTerminal' = forkTerminal
      BY <1>3, <2>5 DEF TakeMainEnd, Control
    <3>3. ForkTold'
      BY <1>3, <2>3, <2>4, <2>5, <3>1, <3>2
      DEF TakeMainEnd, Told, ForkTold, Tells
    <3>4. CallsTold'
      BY <1>3, <2>3, <2>4, <2>5, <3>1, <3>2
      DEF TakeMainEnd, Told, CallsTold, Tells
    <3>5. MainTold'
      BY <1>3, <2>3, <2>4, <2>5, <3>1, <3>2
      DEF TakeMainEnd, Told, MainTold, MainRuns, MainIsOver, Tells
    <3>6. ClearTold'
      BY <1>3, <2>3, <2>4, <2>5, <3>1, <3>2
      DEF TakeMainEnd, Told, ClearTold, Tells
    <3> QED
      BY <2>3, <3>1, <3>3, <3>4, <3>5, <3>6 DEF Told, Tells
  <2>6. CASE ~forkStarted
    <3>1. events' = told \o <<"ForkSkipped">>
      BY <1>3, <1>a, <1>c, <2>2, <2>6 DEF TakeMainEnd, Yield
    <3>2. Tells(told, events', "ForkSkipped", 1)
      BY <1>c, <3>1, TellsOne
    <3>3. ~forkTerminal /\ forkTerminal' = TRUE
      BY <1>3, <2>6 DEF TakeMainEnd, Control, ForkInv
    <3>4. ForkTold'
      BY <1>3, <2>3, <2>4, <2>6, <3>2, <3>3
      DEF TakeMainEnd, Told, ForkTold, Tells
    <3>5. CallsTold'
      BY <1>3, <2>3, <2>4, <2>6, <3>2, <3>3
      DEF TakeMainEnd, Told, CallsTold, Tells
    <3>6. MainTold'
      BY <1>3, <2>3, <2>4, <2>6, <3>2, <3>3
      DEF TakeMainEnd, Told, MainTold, MainRuns, MainIsOver, Tells
    <3>7. ClearTold'
      BY <1>3, <2>3, <2>4, <2>6, <3>2, <3>3
      DEF TakeMainEnd, Told, ClearTold, Tells
    <3> QED
      BY <3>2, <3>4, <3>5, <3>6, <3>7 DEF Told, Tells
  <2> QED
    BY <2>5, <2>6
<1>4. CASE OpenFork
  <2>1. Tells(events, events', "ForkStarted", 1)
    BY <1>4, <1>a, <1>c, TellsOne DEF OpenFork, Yield
  <2> QED
    BY <1>4, <2>1
    DEF OpenFork, Told, ForkTold, CallsTold, MainTold, ClearTold, MainRuns,
        MainIsOver, Control, MainInv, ForkInv, OutcomeInv, Tells
<1>5. CASE OpenForkFails
  <2>1. Tells(events, events', "ForkFailed", 1)
    BY <1>5, <1>a, <1>c, TellsOne DEF OpenForkFails, Yield
  <2> QED
    BY <1>5, <2>1
    DEF OpenForkFails, Told, ForkTold, CallsTold, MainTold, ClearTold,
        MainRuns, MainIsOver, Control, MainInv, ForkInv, OutcomeInv, Tells
<1>6. CASE CancelLosers
  <2>1. history'.mainChunks = history.mainChunks
    BY <1>6 DEF CancelLosers, GiveUp, Histories
  <2>2. CASE fork \in TaskAlive
    <3>1. Tells(events, events', "ForkSkipped", 1)
      BY <1>6, <2>2, <1>a, <1>c, TellsOne DEF CancelLosers, Yield
    <3> QED
      BY <1>6, <2>1, <2>2, <3>1
      DEF CancelLosers, Told, ForkTold, CallsTold, MainTold, ClearTold,
          MainRuns, MainIsOver, Control, OutcomeInv, ForkInv, DraftInv, Tells
  <2>3. CASE fork \notin TaskAlive
    <3>1. events' = events
      BY <1>6, <2>3 DEF CancelLosers, Yield
    <3>2. forkTerminal' = forkTerminal
      BY <1>6, <2>3 DEF CancelLosers, Control
    <3>3. MainIsOver /\ MainIsOver' /\ ~MainRuns'
      BY <1>6 DEF CancelLosers, MainIsOver, MainRuns
    <3> QED
      BY <1>6, <1>a, <1>b, <2>1, <3>1, <3>2, <3>3, SilentStep
      DEF CancelLosers, Silent, ChunksKept, Control, OutcomeInv
  <2> QED
    BY <2>2, <2>3
<1>7. CASE FeedFails
  <2>1. events \o <<"ForkChunk">> \in Seq(Kinds)
    BY <1>a, <1>c
  <2>2. PICK told \in Seq(Kinds) : told = events \o <<"ForkChunk">>
    BY <2>1
  <2>3. Tells(events, told, "ForkChunk", 1)
    BY <1>a, <1>c, <2>2, TellsOne
  <2>4. events' = told \o <<"ForkFailed">>
    BY <1>7, <1>a, <1>c, <2>2 DEF FeedFails, Yield
  <2>5. Tells(told, events', "ForkFailed", 1)
    BY <1>c, <2>4, TellsOne
  <2>6. history'.mainChunks = history.mainChunks
    BY <1>7 DEF FeedFails, Control, Histories
  <2>7. /\ forkStarted /\ ~forkTerminal /\ ~draftStarted
        /\ main \in TaskAlive /\ outcome = "running" /\ pc = "fork"
    BY <1>7 DEF FeedFails, Control, MainInv, ForkInv, DraftInv, OutcomeInv
  <2>8. ForkTold'
    BY <1>7, <2>3, <2>6, <2>5, <2>7 DEF FeedFails, Told, ForkTold, Tells
  <2>9. CallsTold'
    BY <1>7, <2>3, <2>6, <2>5, <2>7 DEF FeedFails, Told, CallsTold, Tells
  <2>10. MainTold'
    <3>1. MainRuns /\ ~MainIsOver' /\ UNCHANGED main
      BY <1>7, <2>7 DEF FeedFails, MainRuns, MainIsOver
    <3>2. history'.mainChunks = history.mainChunks
      BY <1>7, <2>6 DEF FeedFails
    <3>3. Occurrences(events, {"MainCompleted"}) = 0
      BY <3>1 DEF Told, MainTold
    <3>4. /\ Occurrences(events', {"MainCompleted"})
               = Occurrences(events, {"MainCompleted"})
          /\ Occurrences(events', {"MainChunk"})
               = Occurrences(events, {"MainChunk"})
          /\ NoneAfter(events', {"MainCompleted"}, Kinds \ Epilogue)
      BY <2>3, <2>6, <2>5, <3>3 DEF Told, MainTold, Tells
    <3> QED
      BY <2>7, <3>1, <3>2, <3>4, MainUntouched DEF Told
  <2>11. ClearTold'
    BY <1>7, <2>3, <2>6, <2>5, <2>7 DEF FeedFails, Told, ClearTold, Tells
  <2> QED
    BY <2>5, <2>8, <2>9, <2>10, <2>11 DEF Told, Tells
<1>8. CASE ForkFails
  <2>1. Tells(events, events', "ForkFailed", 1)
    BY <1>8, <1>a, <1>c, TellsOne DEF ForkFails, Yield
  <2>2. /\ forkStarted /\ ~forkTerminal /\ ~draftStarted
        /\ main \in TaskAlive /\ outcome = "running" /\ pc = "fork"
    BY <1>8 DEF ForkFails, Control, MainInv, ForkInv, DraftInv, OutcomeInv
  <2>3. ForkTold'
    BY <1>8, <2>1, <2>2 DEF ForkFails, Told, ForkTold, Tells
  <2>4. CallsTold'
    BY <1>8, <2>1, <2>2 DEF ForkFails, Told, CallsTold, Tells
  <2>5. MainTold'
    <3>1. MainRuns /\ ~MainIsOver' /\ UNCHANGED main
      BY <1>8, <2>2 DEF ForkFails, MainRuns, MainIsOver
    <3>2. history'.mainChunks = history.mainChunks
      BY <1>8 DEF ForkFails
    <3>3. Occurrences(events, {"MainCompleted"}) = 0
      BY <3>1 DEF Told, MainTold
    <3>4. /\ Occurrences(events', {"MainCompleted"})
               = Occurrences(events, {"MainCompleted"})
          /\ Occurrences(events', {"MainChunk"})
               = Occurrences(events, {"MainChunk"})
          /\ NoneAfter(events', {"MainCompleted"}, Kinds \ Epilogue)
      BY <2>1, <3>3 DEF Told, MainTold, Tells
    <3> QED
      BY <2>2, <3>1, <3>2, <3>4, MainUntouched DEF Told
  <2>6. ClearTold'
    BY <1>8, <2>1, <2>2 DEF ForkFails, Told, ClearTold, Tells
  <2> QED
    BY <2>1, <2>3, <2>4, <2>5, <2>6 DEF Told, Tells
<1>9. ASSUME NEW calls \in 0..MaxCalls, TakeForkChunk(calls)
      PROVE  Told' /\ events' \in Seq(Kinds)
  <2>1. events \o <<"ForkChunk">> \in Seq(Kinds)
    BY <1>a, <1>c
  <2>2. PICK told \in Seq(Kinds) : told = events \o <<"ForkChunk">>
    BY <2>1
  <2>3. Tells(events, told, "ForkChunk", 1)
    BY <1>a, <1>c, <2>2, TellsOne
  <2>4. [i \in 1..calls |-> "ToolCall"] \in Seq(Kinds)
    BY <1>c
  <2>5. PICK t \in Seq(Kinds) : t = [i \in 1..calls |-> "ToolCall"]
    BY <2>4
  <2>6. events' = told \o t
    BY <1>9, <1>a, <1>c, <2>2, <2>5 DEF TakeForkChunk, Yield
  <2>7. "ToolCall" \notin TerminalKinds \cup {"MainCompleted"} /\ calls \in Nat
    OBVIOUS
  <2>8. Tells(told, events', "ToolCall", calls)
    BY <1>c, <2>5, <2>6, <2>7, TellsMany
  <2>9. /\ forkStarted /\ ~forkTerminal /\ ~draftStarted
        /\ main \in TaskAlive /\ outcome = "running" /\ pc = "fork"
    BY <1>9 DEF TakeForkChunk, Control, MainInv, ForkInv, DraftInv, OutcomeInv
  <2>10. ForkTold'
    BY <1>9, <2>3, <2>7, <2>8, <2>9 DEF TakeForkChunk, Told, ForkTold, Tells
  <2>11. CallsTold'
    BY <1>9, <2>3, <2>7, <2>8, <2>9 DEF TakeForkChunk, Told, CallsTold, Tells
  <2>12. MainTold'
    <3>1. MainRuns /\ ~MainIsOver' /\ UNCHANGED main
      BY <1>9, <2>9 DEF TakeForkChunk, MainRuns, MainIsOver
    <3>2. history'.mainChunks = history.mainChunks
      BY <1>9 DEF TakeForkChunk
    <3>3. Occurrences(events, {"MainCompleted"}) = 0
      BY <3>1 DEF Told, MainTold
    <3>4. /\ Occurrences(events', {"MainCompleted"})
               = Occurrences(events, {"MainCompleted"})
          /\ Occurrences(events', {"MainChunk"})
               = Occurrences(events, {"MainChunk"})
          /\ NoneAfter(events', {"MainCompleted"}, Kinds \ Epilogue)
      BY <2>3, <2>7, <2>8, <3>3 DEF Told, MainTold, Tells
    <3> QED
      BY <2>9, <3>1, <3>2, <3>4, MainUntouched DEF Told
  <2>13. ClearTold'
    BY <1>9, <2>3, <2>7, <2>8, <2>9 DEF TakeForkChunk, Told, ClearTold, Tells
  <2> QED
    BY <2>8, <2>10, <2>11, <2>12, <2>13 DEF Told, Tells
<1>10. ASSUME NEW calls \in 0..MaxCalls, TakeForkEnd(calls)
      PROVE  Told' /\ events' \in Seq(Kinds)
  <2>1. [i \in 1..calls |-> "ToolCall"] \in Seq(Kinds)
    BY <1>c
  <2>2. PICK t \in Seq(Kinds) : t = [i \in 1..calls |-> "ToolCall"]
    BY <2>1
  <2>3. events \o t \in Seq(Kinds)
    BY <1>a
  <2>4. PICK told \in Seq(Kinds) : told = events \o t
    BY <2>3
  <2>5. "ToolCall" \notin TerminalKinds \cup {"MainCompleted"} /\ calls \in Nat
    OBVIOUS
  <2>6. Tells(events, told, "ToolCall", calls)
    BY <1>a, <1>c, <2>2, <2>4, <2>5, TellsMany
  <2>7. events' = told \o <<"ForkCompleted">>
    BY <1>10, <1>a, <1>c, <2>2, <2>4 DEF TakeForkEnd, Yield
  <2>8. Tells(told, events', "ForkCompleted", 1)
    BY <1>c, <2>7, TellsOne
  <2>9. /\ forkStarted /\ ~forkTerminal /\ ~draftStarted
        /\ main \in TaskAlive /\ outcome = "running" /\ pc = "fork"
    BY <1>10 DEF TakeForkEnd, Control, MainInv, ForkInv, DraftInv, OutcomeInv
  <2>10. ForkTold'
    BY <1>10, <2>5, <2>6, <2>8, <2>9 DEF TakeForkEnd, Told, ForkTold, Tells
  <2>11. CallsTold'
    BY <1>10, <2>5, <2>6, <2>8, <2>9 DEF TakeForkEnd, Told, CallsTold, Tells
  <2>12. MainTold'
    <3>1. MainRuns /\ ~MainIsOver' /\ UNCHANGED main
      BY <1>10, <2>9 DEF TakeForkEnd, MainRuns, MainIsOver
    <3>2. history'.mainChunks = history.mainChunks
      BY <1>10 DEF TakeForkEnd
    <3>3. Occurrences(events, {"MainCompleted"}) = 0
      BY <3>1 DEF Told, MainTold
    <3>4. /\ Occurrences(events', {"MainCompleted"})
               = Occurrences(events, {"MainCompleted"})
          /\ Occurrences(events', {"MainChunk"})
               = Occurrences(events, {"MainChunk"})
          /\ NoneAfter(events', {"MainCompleted"}, Kinds \ Epilogue)
      BY <2>5, <2>6, <2>8, <3>3 DEF Told, MainTold, Tells
    <3> QED
      BY <2>9, <3>1, <3>2, <3>4, MainUntouched DEF Told
  <2>13. ClearTold'
    BY <1>10, <2>5, <2>6, <2>8, <2>9 DEF TakeForkEnd, Told, ClearTold, Tells
  <2> QED
    BY <2>8, <2>10, <2>11, <2>12, <2>13 DEF Told, Tells
<1>11. CASE TakeDraft
  <2>1. \/ Tells(events, events', "DraftSubmitted", 1)
        \/ Tells(events, events', "DraftFailed", 1)
    BY <1>11, <1>a, <1>c, TellsOne DEF TakeDraft, Yield
  <2>2. main \in TaskAlive /\ outcome = "running" /\ pc = "draft"
    BY <1>11 DEF TakeDraft, Control, MainInv, OutcomeInv
  <2>3. ForkTold'
    BY <1>11, <2>1, <2>2 DEF TakeDraft, Told, ForkTold, Tells
  <2>4. CallsTold'
    BY <1>11, <2>1, <2>2 DEF TakeDraft, Told, CallsTold, Tells
  <2>5. MainTold'
    <3>1. MainRuns /\ ~MainIsOver' /\ UNCHANGED main
      BY <1>11, <2>2 DEF TakeDraft, MainRuns, MainIsOver
    <3>2. history'.mainChunks = history.mainChunks
      BY <1>11 DEF TakeDraft
    <3>3. Occurrences(events, {"MainCompleted"}) = 0
      BY <3>1 DEF Told, MainTold
    <3>4. /\ Occurrences(events', {"MainCompleted"})
               = Occurrences(events, {"MainCompleted"})
          /\ Occurrences(events', {"MainChunk"})
               = Occurrences(events, {"MainChunk"})
          /\ NoneAfter(events', {"MainCompleted"}, Kinds \ Epilogue)
      BY <2>1, <3>3 DEF Told, MainTold, Tells
    <3> QED
      BY <2>2, <3>1, <3>2, <3>4, MainUntouched DEF Told
  <2>6. ClearTold'
    BY <1>11, <2>1, <2>2 DEF TakeDraft, Told, ClearTold, Tells
  <2> QED
    BY <2>1, <2>3, <2>4, <2>5, <2>6 DEF Told, Tells
<1>12. CASE Finish
  <2>1. forkTerminal
    BY <1>12 DEF Finish, Control, AfterInv
  <2>2. events' = events
    BY <1>12, <2>1 DEF Finish, Yield
  <2>3. MainIsOver /\ ~MainRuns'
    BY <1>12 DEF Finish, MainIsOver, MainRuns
  <2> QED
    BY <1>12, <1>a, <1>b, <2>2, <2>3, SilentStep
    DEF Finish, Silent, ChunksKept, Control, OutcomeInv
<1>13. CASE Clear
  <2>1. /\ \/ Tells(events, events', "DraftCleared", 1)
           \/ Tells(events, events', "DraftFailed", 1)
        /\ events' # <<>>
        /\ events'[Len(events')] \in {"DraftCleared", "DraftFailed"}
    BY <1>13, <1>a, <1>c, TellsOne DEF Clear, Yield
  <2>2. history'.mainChunks = history.mainChunks
    BY <1>13 DEF Clear, ClearReturns, ClearBreaks, Control, Histories
  <2> QED
    BY <1>13, <2>1, <2>2
    DEF Clear, Told, ForkTold, CallsTold, MainTold, ClearTold, MainRuns,
        MainIsOver, Control, OutcomeInv, AfterInv, Tells
<1> QED
  BY <1>1, <1>2, <1>3, <1>4, <1>5, <1>6, <1>7, <1>8, <1>9, <1>10, <1>11, <1>12,
     <1>13
  DEF Next, Environment, Controller, Quiet

-----------------------------------------------------------------------------
(***************************************************************************)
(* Theorems                                                                *)
(***************************************************************************)
\* The two layers together are inductive.
LEMMA Invariant == Spec => []IInv
<1>1. Init => IInv
  BY ControlInit, ToldInit DEF IInv
<1>2. IInv /\ [Next]_vars => IInv'
  <2> SUFFICES ASSUME IInv, [Next]_vars PROVE IInv'
    OBVIOUS
  <2>1. Told' /\ events' \in Seq(Kinds)
    BY ToldNext DEF IInv
  <2>2. TypeOK'
    BY <2>1, TypeNext DEF IInv, Control
  <2> QED
    BY <2>1, <2>2, ControlNext DEF IInv
<1> QED
  BY <1>1, <1>2, PTL DEF Spec

\* Every run of ForkController.stream, whatever its options: the fork is opened
\* at most once, and nothing of it is told after its first terminal event.
THEOREM ForkEndsOnce == Spec => []ForkProtocol
<1>1. IInv => ForkProtocol
  BY DEF IInv, Told, ForkTold, ForkProtocol, Count, Occurrences, NoneAfter
<1> QED
  BY <1>1, Invariant, PTL

\* Once main_completed was yielded neither the fork nor its draft is heard of
\* again, except that the fork was skipped and the draft was cleared.
THEOREM MainWins == Spec => []MainCompletionWins
<1>1. IInv => MainCompletionWins
  <2> SUFFICES ASSUME IInv, NEW i \in DOMAIN events, NEW j \in DOMAIN events,
                      events[i] = "MainCompleted", i < j
               PROVE  events[j] \in Epilogue
    BY DEF MainCompletionWins, Epilogue
  <2>1. events[j] \in Kinds
    BY DEF IInv, Control, TypeOK
  <2>2. events[j] \notin Kinds \ Epilogue
    BY DEF IInv, Told, MainTold, NoneAfter
  <2> QED
    BY <2>1, <2>2
<1> QED
  BY <1>1, Invariant, PTL

\* start_draft runs for a fork that ended, with every call the consumer saw.
THEOREM DraftsAreComplete == Spec => []DraftIsCompleteBatch
<1>1. IInv => DraftIsCompleteBatch
  BY DEF IInv, Control, DraftInv, Told, CallsTold, DraftIsCompleteBatch, Count,
         Occurrences
<1> QED
  BY <1>1, Invariant, PTL

\* A run that returns has delivered every chunk of main, its completion once,
\* one terminal event of the fork, and last how the draft was cleared.
THEOREM ReturnsAreComplete == Spec => []ReturnedRunIsComplete
<1>1. IInv => ReturnedRunIsComplete
  <2> SUFFICES ASSUME IInv, outcome = "returned"
               PROVE  /\ Count({"MainChunk"}) = history.mainChunks
                      /\ Count({"MainCompleted"}) = 1
                      /\ Count(TerminalKinds) = 1
                      /\ draftStarted => events[Len(events)]
                                           \in {"DraftCleared", "DraftFailed"}
    BY DEF ReturnedRunIsComplete
  <2>1. main = "closed" /\ forkTerminal
    BY DEF IInv, Control, AfterInv
  <2>2. Occurrences(events, {"MainChunk"}) \in Nat
    BY OccurrencesFinite DEF IInv, Control, TypeOK
  <2>3. /\ Occurrences(events, {"MainChunk"}) = history.mainChunks
        /\ Occurrences(events, {"MainCompleted"}) = 1
    BY <2>1, <2>2 DEF IInv, Told, MainTold, MainIsOver
  <2>4. Occurrences(events, TerminalKinds) = 1
    BY <2>1 DEF IInv, Told, ForkTold
  <2> QED
    BY <2>3, <2>4 DEF IInv, Told, ClearTold, Count, Occurrences
<1> QED
  BY <1>1, Invariant, PTL

\* Without the strict options, a run that raises does so because main failed or
\* a stream could not be closed.
THEOREM AccelerationIsBestEffort == Spec => []AccelerationNeverFatal
<1>1. IInv => AccelerationNeverFatal
  BY DEF IInv, Control
<1> QED
  BY <1>1, Invariant, PTL

\* However a run ends, if its streams can be closed: both are, and the feedback
\* channel was cleared once if a draft was started and never otherwise.
THEOREM EverythingIsReleased == Spec => []ReleasedAtEnd
<1>1. IInv => ReleasedAtEnd
  BY DEF IInv, Control, ClearInv
<1> QED
  BY <1>1, Invariant, PTL

\* Once the run has ended and a clear has returned, the channel holds no draft,
\* unless a submission its caller gave up on goes on.
THEOREM DraftsDieWithTheirRun == Spec => []NoDraftOutlivesRun
<1>1. IInv => NoDraftOutlivesRun
  BY DEF IInv, Control, SubmissionInv, NoDraftOutlivesRun
<1> QED
  BY <1>1, Invariant, PTL
===============================================================================
