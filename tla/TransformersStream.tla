-------------------------- MODULE TransformersStream --------------------------
(***************************************************************************)
(* TransformersEngine.stream (engines/transformers.py) and the prefix      *)
(* cache it may share with other engines (engines/transformers_cache.py).  *)
(* An actor's stream first looks for a cached prefix of its prompt and     *)
(* computes one in a thread if there is none; a fork's stream looks for    *)
(* its parent's. Then generate() runs in a thread and puts chunks into the *)
(* streamer's queue, and the coroutine waits for the next chunk and for    *)
(* the generation together. The streamer can be ended by either side.      *)
(*                                                                         *)
(* The steps of the coroutine between two awaits are atomic, the steps of  *)
(* the thread between two accesses to shared state. Chunks are numbered.   *)
(***************************************************************************)
EXTENDS ThreadPool

CONSTANTS
  Streams,      (* the streams of one model, each for a request of its own   *)
  MaxChunks,    (* bound: chunks of one generation                           *)
  MaxEntries,   (* max_entries of the cache                                  *)
  None

ASSUME StreamsAssumption ==
  /\ IsFiniteSet(Streams)
  /\ None \notin Streams
  /\ MaxChunks \in Nat
  /\ MaxEntries \in Nat \ {0}

VARIABLES
  parent,     (* parent_request_id of each request: None for an actor's      *)
  consumer,   (* where the coroutine of each stream is                       *)
  thread,     (* where its generate() is                                     *)
  failed,     (* generate() has raised                                       *)
  text,       (* the streamer's text_queue                                   *)
  ended,      (* the streamer's _ended                                       *)
  stop,       (* stop_event                                                  *)
  made,       (* how many chunks generate() has put                          *)
  received,   (* the chunks the coroutine has yielded                        *)
  generator,  (* whose candidate generator the model has, under its lock     *)
  cache,      (* the owners of the prefixes, least recently used first       *)
  cleared     (* history: the requests cleared                               *)

coroutine == <<consumer, received>>
streamer == <<text, ended>>
generation == <<thread, failed, made, generator>>
caching == <<parent, cache, cleared>>
transformers == <<coroutine, streamer, generation, caching, stop>>

vars == <<pool, transformers>>

StreamEnd == 0

Actors == {s \in Streams : parent[s] = None}

\* The request whose prefix a stream reads.
Owner(s) == IF s \in Actors THEN s ELSE parent[s]

\* The default draft_request_predicate: the forks take no drafts.
Drafting == Actors

Init ==
  /\ PoolInit
  /\ parent \in [Streams -> Streams \cup {None}]
  /\ \A s \in Streams : parent[s] # None => parent[parent[s]] = None
  /\ consumer = [s \in Streams |-> "idle"]
  /\ thread = [s \in Streams |-> "none"]
  /\ failed = [s \in Streams |-> FALSE]
  /\ text = [s \in Streams |-> <<>>]
  /\ ended = [s \in Streams |-> FALSE]
  /\ stop = [s \in Streams |-> FALSE]
  /\ made = [s \in Streams |-> 0]
  /\ received = [s \in Streams |-> <<>>]
  /\ generator = None
  /\ cache = <<>>
  /\ cleared = {}

Goto(s, label) == consumer' = [consumer EXCEPT ![s] = label]

Reach(s, label) == thread' = [thread EXCEPT ![s] = label]

-----------------------------------------------------------------------------
(***************************************************************************)
(* The prefix cache: one entry per owner, as the prompt of an owner does   *)
(* not change.                                                             *)
(***************************************************************************)
\* put: the newest entry, and the oldest ones dropped while there are too many.
Put(owner) ==
  LET entries == Append(RemoveFirst(cache, owner), owner)
      surplus == Len(entries) - MaxEntries
  IN IF surplus > 0 THEN SubSeq(entries, surplus + 1, Len(entries)) ELSE entries

\* fork: the entry read becomes the newest.
Touch(owner) ==
  IF Contains(cache, owner)
  THEN Append(RemoveFirst(cache, owner), owner)
  ELSE cache

-----------------------------------------------------------------------------
(***************************************************************************)
(* The coroutine                                                           *)
(***************************************************************************)
\* The generation and the first get, in this order: both are tasks.
Launch(s) ==
  /\ Goto(s, "waiting")
  /\ Reach(s, "starting")

\* The stream begins: with a prefix of its owner, or without one if it is a fork's,
\* it goes on at once.
Begin(s) ==
  /\ consumer[s] = "idle"
  /\ Contains(cache, Owner(s)) \/ s \notin Actors
  /\ cache' = Touch(Owner(s))
  /\ Launch(s)
  /\ Submit(<<Job(s, "generate"), Job(s, "next")>>)
  /\ UNCHANGED <<parent, cleared, streamer, received, failed, made, generator,
                 stop>>

\* An actor's stream without a cached prefix computes it in a thread.
BeginPrefill(s) ==
  /\ consumer[s] = "idle"
  /\ s \in Actors /\ ~Contains(cache, s)
  /\ Goto(s, "prefilling")
  /\ Submit(<<Job(s, "prefill")>>)
  /\ UNCHANGED <<streamer, generation, caching, received, stop>>

\* Variant of Prefilled: the thread itself puts the prefix into the cache.
PrefilledInThread(s) ==
  /\ cache' = Put(s)
  /\ IF consumer[s] = "prefilling"
     THEN /\ Launch(s)
          /\ Finish(Job(s, "prefill"), <<Job(s, "generate"), Job(s, "next")>>)
     ELSE /\ Finish(Job(s, "prefill"), <<>>)
          /\ UNCHANGED <<consumer, thread>>
  /\ UNCHANGED <<parent, cleared, streamer, received, failed, made, generator,
                 stop>>

\* The prefix is computed. If the coroutine still waits for it, it is put into the
\* cache and read back, and the generation starts.
Prefilled(s) ==
  /\ IF consumer[s] = "prefilling"
     THEN /\ cache' = Put(s)
          /\ Launch(s)
          /\ Finish(Job(s, "prefill"), <<Job(s, "generate"), Job(s, "next")>>)
     ELSE /\ Finish(Job(s, "prefill"), <<>>)
          /\ UNCHANGED <<cache, consumer, thread>>
  /\ UNCHANGED <<parent, cleared, streamer, received, failed, made, generator,
                 stop>>

\* The forward pass raises.
PrefillFails(s) ==
  /\ consumer[s] = "prefilling"
  /\ Goto(s, "closed")
  /\ Finish(Job(s, "prefill"), <<>>)
  /\ UNCHANGED <<streamer, generation, caching, received, stop>>

\* streamer.end(), by either side: the end is put once.
EndStreamer(s) ==
  /\ ended' = [ended EXCEPT ![s] = TRUE]
  /\ text' = [text EXCEPT ![s] = IF ended[s] THEN @ ELSE Append(@, StreamEnd)]

\* Variant of SeeGenerated: chunks that are still queued are given up.
SeeGeneratedAndJoin(s) ==
  /\ consumer[s] = "waiting"
  /\ thread[s] = "done"
  /\ Goto(s, "joining")
  /\ EndStreamer(s)
  /\ UNCHANGED <<pool, received, generation, caching, stop>>

\* Variant of SeeGenerated: only a failure ends the streamer.
SeeFailed(s) ==
  /\ consumer[s] = "waiting"
  /\ thread[s] = "done" /\ ~ended[s] /\ failed[s]
  /\ EndStreamer(s)
  /\ UNCHANGED <<pool, coroutine, generation, caching, stop>>

\* The coroutine finds the generation done: it ends the streamer, for the case
\* that generate() has not.
SeeGenerated(s) ==
  /\ consumer[s] = "waiting"
  /\ thread[s] = "done" /\ ~ended[s]
  /\ EndStreamer(s)
  /\ UNCHANGED <<pool, coroutine, generation, caching, stop>>

\* The next chunk comes out of the queue, or the end does.
Receive(s) ==
  /\ text[s] # <<>>
  /\ text' = [text EXCEPT ![s] = Tail(@)]
  /\ Finish(Job(s, "next"), <<>>)
  /\ IF consumer[s] # "waiting" THEN UNCHANGED <<consumer, received>>
     ELSE IF Head(text[s]) = StreamEnd
     THEN Goto(s, "joining") /\ UNCHANGED received
     ELSE /\ Goto(s, "paused")
          /\ received' = [received EXCEPT ![s] = Append(@, Head(text[s]))]
  /\ UNCHANGED <<generation, caching, ended, stop>>

Resume(s) ==
  /\ consumer[s] = "paused"
  /\ Goto(s, "waiting")
  /\ Submit(<<Job(s, "next")>>)
  /\ UNCHANGED <<streamer, generation, caching, received, stop>>

\* `output = await generation_task`: the usage is the last chunk, or the error of
\* the generation is raised.
Join(s) ==
  /\ consumer[s] = "joining"
  /\ thread[s] = "done"
  /\ Goto(s, IF failed[s] THEN "closed" ELSE "last")
  /\ stop' = [stop EXCEPT ![s] = failed[s]]
  /\ UNCHANGED <<pool, streamer, generation, caching, received>>

\* The consumer asks for more after the last chunk, or leaves there.
Return(s) ==
  /\ consumer[s] = "last"
  /\ Goto(s, "returned")
  /\ stop' = [stop EXCEPT ![s] = TRUE]
  /\ UNCHANGED <<pool, streamer, generation, caching, received>>

\* The consumer closes the stream, or is cancelled while it waits: the finally
\* block stops the generation and ends the streamer.
Leave(s) ==
  /\ consumer[s] \in {"waiting", "paused"}
  /\ Goto(s, "closing")
  /\ stop' = [stop EXCEPT ![s] = TRUE]
  /\ EndStreamer(s)
  /\ UNCHANGED <<pool, generation, caching, received>>

\* Cancelled while it waits for the prefix, or for a generation that has ended the
\* streamer: that future is cancelled with it, and the stream is over.
LeaveAwait(s) ==
  /\ \/ consumer[s] = "prefilling" /\ Cancel(Job(s, "prefill")) /\ UNCHANGED stop
     \/ /\ consumer[s] = "joining"
        /\ stop' = [stop EXCEPT ![s] = TRUE]
        /\ UNCHANGED pool
  /\ Goto(s, "closed")
  /\ UNCHANGED <<streamer, generation, caching, received>>

\* Variant of Close: the generation is not waited for.
CloseAfterNext(s) ==
  /\ consumer[s] = "closing"
  /\ ~Unfinished(Job(s, "next"))
  /\ Goto(s, "closed")
  /\ UNCHANGED <<pool, streamer, generation, caching, received, stop>>

\* The rest of the finally block: both tasks are awaited.
Close(s) ==
  /\ consumer[s] = "closing"
  /\ ~Unfinished(Job(s, "next"))
  /\ thread[s] = "done"
  /\ Goto(s, "closed")
  /\ UNCHANGED <<pool, streamer, generation, caching, received, stop>>

-----------------------------------------------------------------------------
(***************************************************************************)
(* The thread: generate()                                                  *)
(***************************************************************************)
\* Variant of StartGeneration: the model's lock is not taken.
StartGenerationUnlocked(s) ==
  /\ Job(s, "generate") \in running
  /\ thread[s] = "starting"
  /\ generator' = IF s \in Drafting THEN s ELSE generator
  /\ Reach(s, "generating")
  /\ UNCHANGED <<pool, coroutine, streamer, caching, failed, made, stop>>

\* _boundary_assisted_generate takes the model's lock and gives the model this
\* request's candidate generator; a generation without drafts does not.
StartGeneration(s) ==
  /\ Job(s, "generate") \in running
  /\ thread[s] = "starting"
  /\ s \in Drafting => generator = None
  /\ generator' = IF s \in Drafting THEN s ELSE generator
  /\ Reach(s, "generating")
  /\ UNCHANGED <<pool, coroutine, streamer, caching, failed, made, stop>>

\* A chunk is put, and then the stopping criteria are asked.
Generate(s) ==
  /\ thread[s] = "generating"
  /\ made[s] < MaxChunks
  /\ made' = [made EXCEPT ![s] = @ + 1]
  /\ text' = [text EXCEPT ![s] = Append(@, made'[s])]
  /\ IF stop[s] THEN Reach(s, "ending") ELSE UNCHANGED thread
  /\ UNCHANGED <<pool, coroutine, caching, ended, failed, generator, stop>>

\* The generation is over. If it raised, or is one of the standard ones, the
\* streamer is ended; a custom one may not do it.
EndGeneration(s) ==
  /\ thread[s] \in {"generating", "ending"}
  /\ Reach(s, "returning")
  /\ \/ EndStreamer(s) /\ failed' \in {failed, [failed EXCEPT ![s] = TRUE]}
     \/ UNCHANGED <<text, ended, failed>>
  /\ UNCHANGED <<pool, coroutine, caching, made, generator, stop>>

\* The thread is over; the lock, if it has it, is released.
EndThread(s) ==
  /\ thread[s] = "returning"
  /\ Reach(s, "done")
  /\ generator' = IF s \in Drafting THEN None ELSE generator
  /\ Finish(Job(s, "generate"), <<>>)
  /\ UNCHANGED <<coroutine, streamer, caching, failed, made, stop>>

-----------------------------------------------------------------------------
\* clear(request_id), which a run does when its stream is over.
ClearPrefix(r) ==
  /\ r \in Actors \ cleared
  /\ consumer[r] \in {"returned", "closed"}
  /\ cache' = RemoveFirst(cache, r)
  /\ cleared' = cleared \cup {r}
  /\ UNCHANGED <<parent, pool, coroutine, streamer, generation, stop>>

\* What the event loop does without the consumer, and the threads.
Coroutine(s) == SeeGenerated(s) \/ Join(s) \/ Close(s)

Prefill(s) == Prefilled(s) \/ PrefillFails(s)

Generation(s) ==
  StartGeneration(s) \/ Generate(s) \/ EndGeneration(s) \/ EndThread(s)

Next ==
  \/ \E s \in Streams : \/ Begin(s) \/ BeginPrefill(s)
                        \/ Resume(s) \/ Return(s)
                        \/ Leave(s) \/ LeaveAwait(s)
                        \/ Coroutine(s) \/ Prefill(s)
                        \/ Receive(s) \/ Generation(s)
  \/ \E s \in Streams : ClearPrefix(s)
  \/ TakeJob /\ UNCHANGED transformers

\* The executor, the event loop and the threads go on; a consumer may pause for
\* ever. The lock of the model is taken by each generation once.
Fairness ==
  /\ WF_vars(TakeJob /\ UNCHANGED transformers)
  /\ \A s \in Streams : /\ WF_vars(Coroutine(s)) /\ WF_vars(Prefill(s))
                        /\ WF_vars(Receive(s)) /\ WF_vars(Generation(s))

Spec == Init /\ [][Next]_vars /\ Fairness

-----------------------------------------------------------------------------
(***************************************************************************)
(* Properties                                                              *)
(***************************************************************************)
Over(s) == consumer[s] \in {"returned", "closed"}

\* The consumer gets the chunks of its own generation, in order and without a gap,
\* and all of them before the last one, which carries the usage.
ChunksInOrder ==
  \A s \in Streams :
    /\ received[s] = [n \in 1..Len(received[s]) |-> n]
    /\ consumer[s] \in {"last", "returned"} => Len(received[s]) = made[s]

\* When a stream is over, its thread generates no more, and no worker is left blocked
\* in a get. It is over when it has returned or raised, or was left or cancelled at
\* an await of its loop; a cancellation that comes while the finally block waits for
\* the thread is swallowed there and is not modelled.
NothingRunsOn ==
  \A s \in Streams : Over(s) =>
    /\ thread[s] \in {"none", "returning", "done"}
    /\ Job(s, "next") \in running => text[s] # <<>>

\* While a request's generation takes drafts, the model has its own candidate
\* generator, not that of a generation beside it.
OwnCandidates ==
  \A s \in Drafting :
    thread[s] \in {"generating", "ending"} => generator = s

\* The cache holds nothing of a request that was cleared after its stream was
\* over, not even if a prefix was still being computed.
ClearedPrefixesStayCleared ==
  \A r \in cleared : ~Contains(cache, r)

\* A consumer that asks for a chunk, or leaves, gets an answer, whatever the
\* consumers of the other streams do.
ConsumersAreAnswered ==
  \A s \in Streams :
    consumer[s] \in {"prefilling", "waiting", "joining", "closing"} ~>
      (consumer[s] \in {"paused", "last"} \/ Over(s))
=============================================================================
