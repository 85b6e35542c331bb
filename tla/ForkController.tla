---------------------------- MODULE ForkController ----------------------------
(***************************************************************************)
(* ForkController.stream (controller.py): one run of the coroutine that    *)
(* reads a main stream, forks it once, decodes the fork into tool calls    *)
(* and submits them to a draft feedback channel.  The coroutine is one     *)
(* process; the engines, the draft task and the feedback channel run       *)
(* beside it and finish whenever they like; the consumer of the events may *)
(* leave at any point.                                                     *)
(*                                                                         *)
(* A turn of the loop looks at the tasks that were done when asyncio.wait  *)
(* returned, in a fixed order: main, the cut (main over: cancel the rest), *)
(* fork, draft.  pc is the part of the turn the coroutine is in.           *)
(***************************************************************************)
EXTENDS Integers, Sequences, FiniteSets

CONSTANTS
  Options,           (* the option records a controller can be built with    *)
  MaxChunks,         (* bound: chunks of each stream                         *)
  MaxCalls           (* bound: tool calls decoded from the fork              *)

ASSUME OptionsAssumption ==
  Options \subseteq [strictFork : BOOLEAN, strictDraft : BOOLEAN,
                     feedback : BOOLEAN]

ASSUME BoundAssumption == MaxChunks \in Nat /\ MaxCalls \in Nat

VARIABLES
  options,      (* strict_fork_errors, strict_draft_errors, draft_feedback   *)
  pc,           (* where the coroutine is                                    *)
  done,         (* the tasks asyncio.wait returned                           *)
  main,         (* the main task and its iterator                            *)
  fork,         (* the fork task and its iterator                            *)
  draft,        (* the draft task                                            *)
  forkStarted, forkTerminal, draftStarted, draftCleared,   (* the flags      *)
  decoded,      (* how many tool calls the decoder has produced              *)
  batch,        (* how many of them the draft was started with               *)
  inflight,     (* a submission has left the draft task and has not landed   *)
  registered,   (* the feedback channel holds a draft for the request        *)
  events,       (* the kinds of the events yielded so far                    *)
  outcome,      (* how the coroutine ended                                   *)
  history       (* what happened around it: chunks produced, failures,       *)
                (* clear calls, a submission that its caller gave up on and  *)
                (* that goes on                                              *)

controlVars == <<forkStarted, forkTerminal, draftStarted, draftCleared,
                 decoded, batch>>
feedbackVars == <<draft, inflight, registered>>
vars == <<options, pc, done, main, fork, controlVars, feedbackVars, events,
          outcome, history>>

-----------------------------------------------------------------------------
(***************************************************************************)
(* A stream is "running" while an anext task waits for it; the task then   *)
(* holds a "chunk", the "end" or an "error".  "held" is a stream suspended *)
(* at its yield whose chunk the coroutine has taken, "idle" the same with  *)
(* the task variable None; a "closed" stream has run its finally block.    *)
(***************************************************************************)
Ready == {"chunk", "end", "error"}
TaskAlive == Ready \cup {"running", "held"}
Suspended == {"chunk", "held", "idle"}

DraftReady == {"submitted", "buildFailed", "submitFailed"}
DraftAlive == DraftReady \cup {"building", "submitting"}

\* task.cancel() and the gather that follows it: a stream inside anext unwinds
\* and is closed; one that has already yielded stays suspended at its yield.
Cancelled(stream) ==
  CASE stream \in {"none", "closed"}           -> stream
    [] stream \in Suspended                    -> "idle"
    [] stream \in {"running", "end", "error"}  -> "closed"

ReadyTasks ==
  (IF main \in Ready THEN {"main"} ELSE {})
    \cup (IF fork \in Ready THEN {"fork"} ELSE {})
    \cup (IF draft \in DraftReady THEN {"draft"} ELSE {})

Init ==
  /\ options \in Options
  /\ pc = "wait" /\ done = {}
  /\ main = "running" /\ fork = "none" /\ draft = "none"
  /\ forkStarted = FALSE /\ forkTerminal = FALSE
  /\ draftStarted = FALSE /\ draftCleared = FALSE
  /\ decoded = 0 /\ batch = 0
  /\ inflight = FALSE /\ registered = FALSE
  /\ events = <<>>
  /\ outcome = "running"
  /\ history = [mainChunks |-> 0, forkChunks |-> 0, mainFailed |-> FALSE,
                closeFailed |-> FALSE, clears |-> 0, cleared |-> FALSE,
                detached |-> FALSE]

-----------------------------------------------------------------------------
(***************************************************************************)
(* The engines, the draft task and the feedback channel.                   *)
(***************************************************************************)
MainProgress ==
  /\ main = "running"
  /\ \/ /\ history.mainChunks < MaxChunks
        /\ main' = "chunk"
        /\ history' = [history EXCEPT !.mainChunks = @ + 1]
     \/ main' = "end" /\ UNCHANGED history
     \/ main' = "error" /\ history' = [history EXCEPT !.mainFailed = TRUE]
  /\ UNCHANGED <<options, pc, done, fork, controlVars, feedbackVars, events,
                 outcome>>

ForkProgress ==
  /\ fork = "running"
  /\ \/ /\ history.forkChunks < MaxChunks
        /\ fork' = "chunk"
        /\ history' = [history EXCEPT !.forkChunks = @ + 1]
     \/ fork' \in {"end", "error"} /\ UNCHANGED history
  /\ UNCHANGED <<options, pc, done, main, controlVars, feedbackVars, events,
                 outcome>>

\* _submit_draft: build, then hand the bundle to the feedback channel.
DraftBuild ==
  /\ draft = "building"
  /\ \/ draft' = "submitting" /\ inflight' = TRUE
     \/ draft' = "buildFailed" /\ UNCHANGED inflight
  /\ UNCHANGED <<options, pc, done, main, fork, controlVars, registered,
                 events, outcome, history>>

\* The channel stores the draft of a submission, whoever still waits for it.
SubmissionLands ==
  /\ inflight
  /\ inflight' = FALSE /\ registered' = TRUE
  /\ UNCHANGED <<options, pc, done, main, fork, controlVars, draft, events,
                 outcome, history>>

\* The caller of a submission gives up on it: the submission stops with it, as a
\* coroutine does, or goes on, as a thread or a request to a sidecar does.
GiveUp ==
  /\ inflight' \in {FALSE, inflight}
  /\ history' = [history EXCEPT !.detached = @ \/ inflight']

\* feedback.submit returns a receipt, or raises: refused, or a timeout that may
\* leave the submission on its way.
DraftSubmit ==
  /\ draft = "submitting"
  /\ \/ ~inflight /\ draft' = "submitted" /\ UNCHANGED <<inflight, history>>
     \/ draft' = "submitFailed" /\ GiveUp
  /\ UNCHANGED <<options, pc, done, main, fork, controlVars, registered,
                 events, outcome>>

Environment ==
  MainProgress \/ ForkProgress \/ DraftBuild \/ SubmissionLands \/ DraftSubmit

-----------------------------------------------------------------------------
(***************************************************************************)
(* The loop.                                                               *)
(***************************************************************************)
Goto(label) == pc' = label

Yield(kinds) == events' = events \o kinds

\* An exception leaves the loop and enters the finally block.
Raise == Goto("cleanup") /\ outcome' = "raised"

\* A failure event, re-raised when `strict` says so.
Fail(strict, next) ==
  IF strict THEN Raise ELSE Goto(next) /\ UNCHANGED outcome

Wake ==
  /\ pc = "wait"
  /\ ReadyTasks # {}
  /\ done' = ReadyTasks
  /\ Goto("main")
  /\ UNCHANGED <<options, main, fork, controlVars, feedbackVars, events,
                 outcome, history>>

MainNotDone ==
  /\ pc = "main" /\ "main" \notin done
  /\ Goto("cut")
  /\ UNCHANGED <<options, done, main, fork, controlVars, feedbackVars, events,
                 outcome, history>>

TakeMainChunk ==
  /\ pc = "main" /\ "main" \in done /\ main = "chunk"
  /\ main' = "held"
  /\ Yield(<<"MainChunk">>)
  /\ Goto("trigger")
  /\ UNCHANGED <<options, done, fork, controlVars, feedbackVars, outcome,
                 history>>

TakeMainEnd ==
  /\ pc = "main" /\ "main" \in done /\ main = "end"
  /\ main' = "closed"
  /\ forkTerminal' = (forkTerminal \/ ~forkStarted)
  /\ Yield(IF forkStarted THEN <<"MainCompleted">>
                          ELSE <<"MainCompleted", "ForkSkipped">>)
  /\ Goto("cut")
  /\ UNCHANGED <<options, done, fork, forkStarted, draftStarted, draftCleared,
                 decoded, batch, feedbackVars, outcome, history>>

\* Main-stream exceptions are fatal.
TakeMainError ==
  /\ pc = "main" /\ "main" \in done /\ main = "error"
  /\ Raise
  /\ UNCHANGED <<options, done, main, fork, controlVars, feedbackVars, events,
                 history>>

\* The trigger has fired before, or does not fire on this chunk.
NoFork ==
  /\ pc = "trigger"
  /\ main' = "running"
  /\ Goto("cut")
  /\ UNCHANGED <<options, done, fork, controlVars, feedbackVars, events,
                 outcome, history>>

OpenFork ==
  /\ pc = "trigger" /\ ~forkStarted
  /\ forkStarted' = TRUE
  /\ fork' = "running"
  /\ Yield(<<"ForkStarted">>)
  /\ main' = "running"
  /\ Goto("cut")
  /\ UNCHANGED <<options, done, forkTerminal, draftStarted, draftCleared,
                 decoded, batch, feedbackVars, outcome, history>>

\* Variant of OpenForkFails: the failed fork is not marked terminal.
OpenForkFailsOpenEnded ==
  /\ pc = "trigger" /\ ~forkStarted
  /\ forkStarted' = TRUE
  /\ Yield(<<"ForkFailed">>)
  /\ Fail(options.strictFork, "cut")
  /\ main' = IF options.strictFork THEN main ELSE "running"
  /\ UNCHANGED <<options, done, fork, forkTerminal, draftStarted, draftCleared,
                 decoded, batch, feedbackVars, history>>

\* builder.build, validate_request, decoder_factory or stream raised.
OpenForkFails ==
  /\ pc = "trigger" /\ ~forkStarted
  /\ forkStarted' = TRUE /\ forkTerminal' = TRUE
  /\ Yield(<<"ForkFailed">>)
  /\ Fail(options.strictFork, "cut")
  /\ main' = IF options.strictFork THEN main ELSE "running"
  /\ UNCHANGED <<options, done, fork, draftStarted, draftCleared, decoded,
                 batch, feedbackVars, history>>

\* While the main task lives nothing is cut.
KeepGoing ==
  /\ pc = "cut" /\ main \in TaskAlive
  /\ Goto("fork")
  /\ UNCHANGED <<options, done, main, fork, controlVars, feedbackVars, events,
                 outcome, history>>

\* Variants of CancelLosers: the losers are left to run, and the loop waits for
\* them; only the fork is cancelled.
CutNothing ==
  /\ pc = "cut" /\ main \notin TaskAlive
  /\ Goto("fork")
  /\ UNCHANGED <<options, done, main, fork, controlVars, feedbackVars, events,
                 outcome, history>>

CutForkOnly ==
  /\ pc = "cut" /\ main \notin TaskAlive
  /\ fork' = Cancelled(fork)
  /\ forkTerminal' = (forkTerminal \/ fork \in TaskAlive)
  /\ Yield(IF fork \in TaskAlive THEN <<"ForkSkipped">> ELSE <<>>)
  /\ Goto("finish")
  /\ UNCHANGED <<options, done, main, forkStarted, draftStarted, draftCleared,
                 decoded, batch, feedbackVars, outcome, history>>

\* Main has completed: the fork and draft tasks are cancelled and awaited.
CancelLosers ==
  /\ pc = "cut" /\ main \notin TaskAlive
  /\ fork' = Cancelled(fork)
  /\ forkTerminal' = (forkTerminal \/ fork \in TaskAlive)
  /\ Yield(IF fork \in TaskAlive THEN <<"ForkSkipped">> ELSE <<>>)
  /\ draft' = IF draft \in DraftAlive THEN "over" ELSE draft
  /\ GiveUp
  /\ Goto("finish")
  /\ UNCHANGED <<options, done, main, forkStarted, draftStarted, draftCleared,
                 decoded, batch, registered, outcome>>

-----------------------------------------------------------------------------
(***************************************************************************)
(* The fork part of a turn.                                                *)
(***************************************************************************)
ForkNotDone ==
  /\ pc = "fork" /\ ~("fork" \in done /\ fork \in Ready)
  /\ Goto("draft")
  /\ UNCHANGED <<options, done, main, fork, controlVars, feedbackVars, events,
                 outcome, history>>

\* Variant of TakeForkChunk: the first decoded calls start the draft.
TakeForkChunkEager(calls) ==
  LET starts == options.feedback /\ ~draftStarted /\ decoded + calls > 0
  IN /\ pc = "fork" /\ "fork" \in done /\ fork = "chunk"
     /\ decoded + calls <= MaxCalls
     /\ decoded' = decoded + calls
     /\ fork' = "running"
     /\ draftStarted' = (draftStarted \/ starts)
     /\ draft' = IF starts THEN "building" ELSE draft
     /\ batch' = IF starts THEN decoded + calls ELSE batch
     /\ Yield(<<"ForkChunk">> \o [i \in 1..calls |-> "ToolCall"])
     /\ Goto("draft")
     /\ UNCHANGED <<options, done, main, forkStarted, forkTerminal,
                    draftCleared, inflight, registered, outcome, history>>

TakeForkChunk(calls) ==
  /\ pc = "fork" /\ "fork" \in done /\ fork = "chunk"
  /\ decoded + calls <= MaxCalls
  /\ decoded' = decoded + calls
  /\ fork' = "running"
  /\ Yield(<<"ForkChunk">> \o [i \in 1..calls |-> "ToolCall"])
  /\ Goto("draft")
  /\ UNCHANGED <<options, done, main, forkStarted, forkTerminal, draftStarted,
                 draftCleared, batch, feedbackVars, outcome, history>>

\* Variant of FeedFails: the fork is read on after its failure.
FeedFailsReadsOn ==
  /\ pc = "fork" /\ "fork" \in done /\ fork = "chunk"
  /\ forkTerminal' = TRUE
  /\ Yield(<<"ForkChunk", "ForkFailed">>)
  /\ Fail(options.strictFork, "draft")
  /\ fork' = (IF options.strictFork THEN "idle" ELSE "running")
  /\ UNCHANGED <<options, done, main, forkStarted, draftStarted, draftCleared,
                 decoded, batch, feedbackVars, history>>

\* decoder.feed raised: the fork task is dropped, and its stream is closed here
\* unless the error is re-raised.
FeedFails ==
  /\ pc = "fork" /\ "fork" \in done /\ fork = "chunk"
  /\ forkTerminal' = TRUE
  /\ Yield(<<"ForkChunk", "ForkFailed">>)
  /\ \/ Fail(options.strictFork, "draft")
        /\ fork' = (IF options.strictFork THEN "idle" ELSE "closed")
        /\ UNCHANGED history
     \/ ~options.strictFork
        /\ Raise
        /\ fork' = "closed"
        /\ history' = [history EXCEPT !.closeFailed = TRUE]
  /\ UNCHANGED <<options, done, main, forkStarted, draftStarted, draftCleared,
                 decoded, batch, feedbackVars>>

\* Variant of ForkFails: the failure is never best-effort.
ForkFailsUncaught ==
  /\ pc = "fork" /\ "fork" \in done /\ fork \in {"error", "end"}
  /\ fork' = "closed"
  /\ Raise
  /\ UNCHANGED <<options, done, main, controlVars, feedbackVars, events, history>>

\* The fork stream raised, or decoder.finish did at its end.
ForkFails ==
  /\ pc = "fork" /\ "fork" \in done /\ fork \in {"error", "end"}
  /\ fork' = "closed"
  /\ forkTerminal' = TRUE
  /\ Yield(<<"ForkFailed">>)
  /\ Fail(options.strictFork, "draft")
  /\ UNCHANGED <<options, done, main, forkStarted, draftStarted, draftCleared,
                 decoded, batch, feedbackVars, history>>

\* The fork ends; start_draft takes every call it decoded.
TakeForkEnd(calls) ==
  LET total  == decoded + calls
      starts == /\ options.feedback /\ ~draftStarted /\ total > 0
                /\ main \in TaskAlive
  IN /\ pc = "fork" /\ "fork" \in done /\ fork = "end"
     /\ total <= MaxCalls
     /\ decoded' = total
     /\ fork' = "closed"
     /\ draftStarted' = (draftStarted \/ starts)
     /\ draft' = IF starts THEN "building" ELSE draft
     /\ batch' = IF starts THEN total ELSE batch
     /\ forkTerminal' = TRUE
     /\ Yield([i \in 1..calls |-> "ToolCall"] \o <<"ForkCompleted">>)
     /\ Goto("draft")
     /\ UNCHANGED <<options, done, main, forkStarted, draftCleared, inflight,
                    registered, outcome, history>>

-----------------------------------------------------------------------------
(***************************************************************************)
(* The draft part of a turn, and what follows the loop.                    *)
(***************************************************************************)
DraftNotDone ==
  /\ pc = "draft" /\ ~("draft" \in done /\ draft \in DraftReady)
  /\ Goto("wait")
  /\ UNCHANGED <<options, done, main, fork, controlVars, feedbackVars, events,
                 outcome, history>>

TakeDraft ==
  /\ pc = "draft" /\ "draft" \in done /\ draft \in DraftReady
  /\ draft' = "over"
  /\ \/ /\ draft = "submitted"
        /\ Yield(<<"DraftSubmitted">>)
        /\ Goto("wait") /\ UNCHANGED outcome
     \/ /\ draft # "submitted"
        /\ Yield(<<"DraftFailed">>)
        /\ Fail(options.strictDraft, "wait")
  /\ UNCHANGED <<options, done, main, fork, controlVars, inflight, registered,
                 history>>

\* No task is left.  (A started fork without a terminal event would be reported
\* completed here.)
Finish ==
  /\ pc = "finish"
  /\ Yield(IF forkStarted /\ ~forkTerminal THEN <<"ForkCompleted">> ELSE <<>>)
  /\ Goto(IF draftStarted THEN "clear" ELSE "cleanup")
  /\ outcome' = IF draftStarted THEN outcome ELSE "returned"
  /\ UNCHANGED <<options, done, main, fork, controlVars, feedbackVars, history>>

\* feedback.clear reached the channel and returned.
ClearReturns ==
  /\ registered' = FALSE
  /\ history' = [history EXCEPT !.clears = @ + 1, !.cleared = TRUE]

\* feedback.clear raised, or its caller was cancelled while it waited.
ClearBreaks ==
  /\ registered' \in {FALSE, registered}
  /\ history' = [history EXCEPT !.clears = @ + 1]

\* Variant of Clear: a clear that raised does not count as made.
ClearUncounted ==
  /\ pc = "clear"
  /\ \/ /\ ClearReturns
        /\ draftCleared' = TRUE
        /\ Yield(<<"DraftCleared">>)
     \/ /\ ClearBreaks
        /\ UNCHANGED draftCleared
        /\ Yield(<<"DraftFailed">>)
  /\ Goto("cleanup") /\ outcome' = "returned"
  /\ UNCHANGED <<options, done, main, fork, forkStarted, forkTerminal,
                 draftStarted, decoded, batch, draft, inflight>>

Clear ==
  /\ pc = "clear"
  /\ draftCleared' = TRUE
  /\ \/ /\ ClearReturns
        /\ Yield(<<"DraftCleared">>)
        /\ Goto("cleanup") /\ outcome' = "returned"
     \/ /\ ClearBreaks
        /\ Yield(<<"DraftFailed">>)
        /\ Goto("cleanup")
        /\ outcome' = IF options.strictDraft THEN "raised" ELSE "returned"
  /\ UNCHANGED <<options, done, main, fork, forkStarted, forkTerminal,
                 draftStarted, decoded, batch, draft, inflight>>

\* The consumer closes the generator at a yield or is cancelled at an await.  A
\* clear it interrupts still counts as made (the finally of that try block).
Abandon ==
  /\ pc \in {"wait", "trigger", "cut", "draft", "finish", "clear"}
  /\ Goto("cleanup")
  /\ outcome' = "abandoned"
  /\ IF pc = "clear"
     THEN draftCleared' = TRUE /\ ClearBreaks
     ELSE UNCHANGED <<draftCleared, registered, history>>
  /\ UNCHANGED <<options, done, main, fork, forkStarted, forkTerminal,
                 draftStarted, decoded, batch, draft, inflight, events>>

-----------------------------------------------------------------------------
(***************************************************************************)
(* The finally block.                                                      *)
(***************************************************************************)
CancelPending ==
  /\ pc = "cleanup"
  /\ main' = Cancelled(main)
  /\ fork' = Cancelled(fork)
  /\ draft' = IF draft \in DraftAlive THEN "over" ELSE draft
  /\ GiveUp
  /\ Goto("closeMain")
  /\ UNCHANGED <<options, done, controlVars, registered, events, outcome>>

\* _close of a stream: it runs the stream's finally block; if that raises, the
\* rest of the controller's finally block is skipped.
CloseRaises ==
  /\ Goto("done")
  /\ outcome' = "raised"
  /\ history' = [history EXCEPT !.closeFailed = TRUE]

CloseMain ==
  /\ pc = "closeMain"
  /\ main' = "closed"
  /\ \/ Goto("closeFork") /\ UNCHANGED <<outcome, history>>
     \/ main = "idle" /\ CloseRaises
  /\ UNCHANGED <<options, done, fork, controlVars, feedbackVars, events>>

CloseFork ==
  /\ pc = "closeFork"
  /\ fork' = IF fork = "none" THEN "none" ELSE "closed"
  /\ \/ Goto(IF draftStarted /\ ~draftCleared THEN "lateClear" ELSE "done")
        /\ UNCHANGED <<outcome, history>>
     \/ fork = "idle" /\ CloseRaises
  /\ UNCHANGED <<options, done, main, controlVars, feedbackVars, events>>

\* Best-effort cleanup: its failure is swallowed.
LateClear ==
  /\ pc = "lateClear"
  /\ ClearReturns \/ ClearBreaks
  /\ Goto("done")
  /\ UNCHANGED <<options, done, main, fork, controlVars, draft, inflight,
                 events, outcome>>

-----------------------------------------------------------------------------
Controller ==
  \/ Wake
  \/ MainNotDone \/ TakeMainChunk \/ TakeMainEnd \/ TakeMainError
  \/ NoFork \/ OpenFork \/ OpenForkFails
  \/ KeepGoing \/ CancelLosers
  \/ ForkNotDone \/ FeedFails \/ ForkFails
  \/ \E calls \in 0..MaxCalls : TakeForkChunk(calls) \/ TakeForkEnd(calls)
  \/ DraftNotDone \/ TakeDraft
  \/ Finish \/ Clear
  \/ CancelPending \/ CloseMain \/ CloseFork \/ LateClear

Next == Environment \/ Controller \/ Abandon

\* A fork or draft task that runs code of its own: when cancelled, it is over
\* when that code has unwound.
LoserRuns == fork = "running" \/ draft \in {"building", "submitting"}

\* The step the coroutine is at awaits, with no timeout, code that it was given:
\* the fork builder, when the trigger fires; the streams and the draft task it
\* has cancelled; a stream it closes, as it does the fork's when a chunk cannot be
\* decoded (which the state does not tell beforehand); feedback.clear.
AwaitsUserCode ==
  \/ pc = "trigger" /\ ~forkStarted
  \/ pc = "cut" /\ main \notin TaskAlive /\ LoserRuns
  \/ pc = "fork" /\ "fork" \in done /\ fork = "chunk" /\ ~options.strictFork
  \/ pc = "cleanup" /\ (main = "running" \/ LoserRuns)
  \/ pc = "closeMain" /\ main = "idle"
  \/ pc = "closeFork" /\ fork = "idle"
  \/ pc \in {"clear", "lateClear"}

\* The event loop runs every step of the coroutine that waits for no such code,
\* the consumer asks for the next event after each (or leaves), and the main
\* engine goes on to its end or fails. Nothing is assumed of the fork engine,
\* the fork builder, the draft builder, the feedback channel, or of the
\* unwinding and closing of streams and tasks.
Fairness == WF_vars(~AwaitsUserCode /\ Controller) /\ WF_vars(MainProgress)

Spec == Init /\ [][Next]_vars /\ Fairness

-----------------------------------------------------------------------------
(***************************************************************************)
(* Properties                                                              *)
(***************************************************************************)
TerminalKinds == {"ForkCompleted", "ForkSkipped", "ForkFailed"}

ForkKinds == TerminalKinds \cup {"ForkStarted", "ForkChunk", "ToolCall"}

Count(kinds) == Cardinality({i \in DOMAIN events : events[i] \in kinds})

\* Whatever the order in which tasks finish, the fork is opened at most once and
\* its first terminal event is its last event of any kind.
ForkProtocol ==
  /\ Count({"ForkStarted"}) <= 1
  /\ \A i, j \in DOMAIN events :
       (events[i] \in TerminalKinds /\ i < j) => events[j] \notin ForkKinds

\* Main completion wins every race: after it, neither the fork nor its draft is
\* heard of again, except that the fork was skipped and the draft was cleared.
MainCompletionWins ==
  \A i, j \in DOMAIN events :
    (events[i] = "MainCompleted" /\ i < j) =>
      events[j] \in {"ForkSkipped", "DraftCleared", "DraftFailed"}

\* A draft is only ever started from a completed fork, with every tool call the
\* consumer was shown.
DraftIsCompleteBatch ==
  draftStarted => /\ Count({"ForkCompleted"}) = 1
                  /\ batch = decoded /\ batch > 0
                  /\ batch = Count({"ToolCall"})

\* A run that returns has delivered all of main and told how the fork ended,
\* exactly once, whatever the fork and the draft did; if a draft was started, its
\* last event tells how the clear went.
ReturnedRunIsComplete ==
  outcome = "returned" =>
    /\ Count({"MainChunk"}) = history.mainChunks
    /\ Count({"MainCompleted"}) = 1
    /\ Count(TerminalKinds) = 1
    /\ draftStarted => events[Len(events)] \in {"DraftCleared", "DraftFailed"}

\* Without the strict options only the main stream, or a stream that cannot be
\* closed, can make a run fail.
AccelerationNeverFatal ==
  (outcome = "raised" /\ ~options.strictFork /\ ~options.strictDraft)
    => history.mainFailed \/ history.closeFailed

Released ==
  /\ main = "closed" /\ fork \in {"none", "closed"}
  /\ draft \notin DraftAlive
  /\ history.clears = IF draftStarted THEN 1 ELSE 0

\* However the run ends, when its streams can be closed: both are, and
\* feedback.clear has been called once if a draft was started and never otherwise.
ReleasedAtEnd == (pc = "done" /\ ~history.closeFailed) => Released

\* A draft never outlives its run: once the run has ended and its clear has
\* reached the channel, the channel holds nothing for the request, unless a
\* submission that its caller gave up on went on.
NoDraftOutlivesRun ==
  (pc = "done" /\ history.cleared /\ ~history.detached) => ~registered

\* The run ends when main does, even if the fork, the draft builder or the
\* submission never finish: all that can keep it is a single await, without a
\* timeout, of code that never returns (a builder, a cancelled task, a close, a
\* clear). It waits forever for no loser, and for no task that nobody drives.
RunEnds == <>(pc = "done") \/ <>[]AwaitsUserCode
=============================================================================
