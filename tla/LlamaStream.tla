----------------------------- MODULE LlamaStream -----------------------------
(***************************************************************************)
(* LlamaCppPythonEngine.stream (engines/llama_cpp_native.py). Each stream  *)
(* is a coroutine, driven by its consumer, and a thread that runs          *)
(* `produce`. The thread holds the engine's generation lock while it draws *)
(* payloads from the Llama object and puts them into an unbounded queue;   *)
(* the coroutine takes them out with one blocking get per payload, each a  *)
(* job of the shared executor.                                             *)
(*                                                                         *)
(* The steps of the coroutine between two awaits are atomic, the steps of  *)
(* the thread between two accesses to shared state. Payloads are numbered. *)
(***************************************************************************)
EXTENDS ThreadPool

CONSTANTS
  Streams,       (* the streams opened on one engine                         *)
  MaxPayloads,   (* bound: payloads of one source                            *)
  None

ASSUME StreamsAssumption ==
  /\ IsFiniteSet(Streams)
  /\ None \notin Streams
  /\ MaxPayloads \in Nat

VARIABLES
  consumer,   (* where the coroutine of each stream is                       *)
  thread,     (* where its produce() is                                      *)
  items,      (* the queue between them                                      *)
  stop,       (* stop_event                                                  *)
  made,       (* how many payloads its source has made                       *)
  received,   (* what the coroutine has taken out of the queue               *)
  lock        (* the stream whose thread holds _generation_lock, or None     *)

llama == <<consumer, thread, items, stop, made, received, lock>>

vars == <<pool, llama>>

End == 0
Failure == -1

Init ==
  /\ PoolInit
  /\ consumer = [s \in Streams |-> "idle"]
  /\ thread = [s \in Streams |-> "none"]
  /\ items = [s \in Streams |-> <<>>]
  /\ stop = [s \in Streams |-> FALSE]
  /\ made = [s \in Streams |-> 0]
  /\ received = [s \in Streams |-> <<>>]
  /\ lock = None

Goto(s, label) == consumer' = [consumer EXCEPT ![s] = label]

Reach(s, label) == thread' = [thread EXCEPT ![s] = label]

Put(s, new) == items' = [items EXCEPT ![s] = @ \o new]

-----------------------------------------------------------------------------
(***************************************************************************)
(* The coroutine                                                           *)
(***************************************************************************)
\* The producer is a task, which has not begun when the first get is submitted.
Begin(s) ==
  /\ consumer[s] = "idle"
  /\ Goto(s, "getting")
  /\ Reach(s, "created")
  /\ Submit(<<Job(s, "get")>>)
  /\ UNCHANGED <<items, stop, made, received, lock>>

\* Now the producer's task has its first turn.
Launch(s) ==
  /\ thread[s] = "created"
  /\ Reach(s, "locking")
  /\ Submit(<<Job(s, "produce")>>)
  /\ UNCHANGED <<consumer, items, stop, made, received, lock>>

\* Variant of Receive: a payload that makes no chunk ends the stream.
ReceiveUntilEmpty(s) ==
  /\ items[s] # <<>> /\ Head(items[s]) > 0
  /\ consumer[s] = "getting"
  /\ items' = [items EXCEPT ![s] = Tail(@)]
  /\ received' = [received EXCEPT ![s] = Append(@, Head(items[s]))]
  /\ Goto(s, "paused") \/ Goto(s, "joining")
  /\ Finish(Job(s, "get"), <<>>)
  /\ UNCHANGED <<thread, stop, made, lock>>

\* The get returns a payload to a coroutine that waits for it. A payload may make
\* no chunk; then the next get follows at once.
Receive(s) ==
  /\ items[s] # <<>> /\ Head(items[s]) > 0
  /\ consumer[s] = "getting"
  /\ items' = [items EXCEPT ![s] = Tail(@)]
  /\ received' = [received EXCEPT ![s] = Append(@, Head(items[s]))]
  /\ \/ Goto(s, "paused") /\ Finish(Job(s, "get"), <<>>)
     \/ /\ Finish(Job(s, "get"), <<Job(s, "get")>>)
        /\ UNCHANGED consumer
  /\ UNCHANGED <<thread, stop, made, lock>>

\* The get returns the end of the items, or the error to raise.
ReceiveLast(s) ==
  /\ items[s] # <<>> /\ Head(items[s]) \in {End, Failure}
  /\ consumer[s] = "getting"
  /\ items' = [items EXCEPT ![s] = Tail(@)]
  /\ Finish(Job(s, "get"), <<>>)
  /\ IF Head(items[s]) = End
     THEN Goto(s, "joining") /\ UNCHANGED stop
     ELSE Goto(s, "closing") /\ stop' = [stop EXCEPT ![s] = TRUE]
  /\ UNCHANGED <<thread, made, received, lock>>

\* The get of a coroutine that has left takes an item and drops it.
ReceiveLate(s) ==
  /\ items[s] # <<>>
  /\ consumer[s] # "getting"
  /\ items' = [items EXCEPT ![s] = Tail(@)]
  /\ Finish(Job(s, "get"), <<>>)
  /\ UNCHANGED <<consumer, thread, stop, made, received, lock>>

Resume(s) ==
  /\ consumer[s] = "paused"
  /\ Goto(s, "getting")
  /\ Submit(<<Job(s, "get")>>)
  /\ UNCHANGED <<thread, items, stop, made, received, lock>>

\* The consumer closes the stream, or is cancelled while it waits for an item.
Leave(s) ==
  /\ consumer[s] \in {"getting", "paused"}
  /\ Goto(s, "closing")
  /\ stop' = [stop EXCEPT ![s] = TRUE]
  /\ Cancel(Job(s, "get"))
  /\ UNCHANGED <<thread, items, made, received, lock>>

\* Variant of Join: the finally block does not wait for the producer.
JoinAtOnce(s) ==
  /\ consumer[s] \in {"joining", "closing"}
  /\ Goto(s, IF consumer[s] = "joining" THEN "returned" ELSE "closed")
  /\ UNCHANGED <<pool, thread, items, stop, made, received, lock>>

\* `await producer`, after the last item or in the finally block.
Join(s) ==
  /\ consumer[s] \in {"joining", "closing"}
  /\ thread[s] = "done"
  /\ Goto(s, IF consumer[s] = "joining" THEN "returned" ELSE "closed")
  /\ UNCHANGED <<pool, thread, items, stop, made, received, lock>>

-----------------------------------------------------------------------------
(***************************************************************************)
(* The thread: produce()                                                   *)
(***************************************************************************)
Acquire(s) ==
  /\ Job(s, "produce") \in running
  /\ thread[s] = "locking"
  /\ lock = None
  /\ lock' = s
  /\ Reach(s, "generating")
  /\ UNCHANGED <<pool, consumer, items, stop, made, received>>

\* Variant of Generate: the lock is not released when the loop is left.
GenerateLocked(s) ==
  /\ thread[s] = "generating"
  /\ made[s] < MaxPayloads
  /\ made' = [made EXCEPT ![s] = @ + 1]
  /\ IF stop[s]
     THEN Reach(s, "interrupted") /\ UNCHANGED items
     ELSE Put(s, <<made'[s]>>) /\ UNCHANGED thread
  /\ UNCHANGED <<pool, consumer, stop, received, lock>>

\* The source makes a payload; if the stream has been closed in the meantime the
\* loop is left, and with it the lock.
Generate(s) ==
  /\ thread[s] = "generating"
  /\ made[s] < MaxPayloads
  /\ made' = [made EXCEPT ![s] = @ + 1]
  /\ IF stop[s]
     THEN Reach(s, "interrupted") /\ lock' = None /\ UNCHANGED items
     ELSE Put(s, <<made'[s]>>) /\ UNCHANGED <<thread, lock>>
  /\ UNCHANGED <<pool, consumer, stop, received>>

\* The source is exhausted, or raises; the lock is released, and an error put.
Exhaust(s) ==
  /\ thread[s] = "generating"
  /\ Reach(s, "exhausted")
  /\ lock' = None
  /\ items' \in {items, [items EXCEPT ![s] = Append(@, Failure)]}
  /\ UNCHANGED <<pool, consumer, stop, made, received>>

\* produce()'s finally block: the source is closed and the end put.
CloseSource(s) ==
  /\ thread[s] \in {"interrupted", "exhausted"}
  /\ Reach(s, "done")
  /\ Put(s, <<End>>)
  /\ Finish(Job(s, "produce"), <<>>)
  /\ UNCHANGED <<consumer, stop, made, received, lock>>

-----------------------------------------------------------------------------
\* The get's thread, and the producer's.
Get(s) == Receive(s) \/ ReceiveLast(s) \/ ReceiveLate(s)

Produce(s) == Acquire(s) \/ Generate(s) \/ Exhaust(s) \/ CloseSource(s)

Next ==
  \/ \E s \in Streams : \/ Begin(s) \/ Launch(s) \/ Resume(s) \/ Leave(s)
                        \/ Join(s) \/ Get(s) \/ Produce(s)
  \/ TakeJob /\ UNCHANGED llama

\* The executor, the event loop and the threads go on. A consumer may pause for
\* ever, and never open its stream.
Fairness ==
  /\ WF_vars(TakeJob /\ UNCHANGED llama)
  /\ \A s \in Streams : /\ WF_vars(Launch(s)) /\ WF_vars(Join(s))
                        /\ WF_vars(Get(s)) /\ WF_vars(Produce(s))

Spec == Init /\ [][Next]_vars /\ Fairness

-----------------------------------------------------------------------------
(***************************************************************************)
(* Properties                                                              *)
(***************************************************************************)
Over(s) == consumer[s] \in {"returned", "closed"}

\* The consumer gets the payloads of its own source, in order and without a gap,
\* and all of them when the stream returns.
PayloadsInOrder ==
  \A s \in Streams :
    /\ received[s] = [n \in 1..Len(received[s]) |-> n]
    /\ consumer[s] = "returned" => Len(received[s]) = made[s]

\* When a stream is over, its thread is too, and no worker is left blocked in a get;
\* nor is the lock taken. It is over when it has returned or raised, or was left or
\* cancelled at an await of its loop; a cancellation that comes while the finally
\* block waits for the thread is swallowed there and is not modelled.
NothingRunsOn ==
  \A s \in Streams : Over(s) =>
    /\ thread[s] = "done" /\ lock # s
    /\ Job(s, "get") \in running => items[s] # <<>>

\* A consumer that asks for a payload, or leaves, gets an answer, whatever the
\* consumers of the other streams do.
ConsumersAreAnswered ==
  \A s \in Streams :
    consumer[s] \in {"getting", "joining", "closing"} ~>
      (consumer[s] = "paused" \/ Over(s))
=============================================================================
