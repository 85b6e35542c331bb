--------------------------- MODULE LlamaStreamProofs ---------------------------
(***************************************************************************)
(* The streams of the llama.cpp engine: for any streams, workers and       *)
(* lengths, a consumer gets its own source's payloads in order, and when a *)
(* stream is over nothing of it runs on.                                   *)
(***************************************************************************)
EXTENDS LlamaStream, LibraryLemmas

Jobs == {Job(s, role) : s \in Streams, role \in {"get", "produce"}}

Waits(job) == Contains(queued, job)

-----------------------------------------------------------------------------
(***************************************************************************)
(* The executor: no job is there twice                                     *)
(***************************************************************************)
PoolInv == Orderly(Jobs, queued, running)

LEMMA JobFacts ==
  ASSUME NEW s \in Streams, NEW t \in Streams
  PROVE  /\ Job(s, "get") \in Jobs /\ Job(s, "produce") \in Jobs
         /\ Job(s, "get") # Job(t, "produce")
         /\ s # t => /\ Job(s, "get") # Job(t, "get")
                     /\ Job(s, "produce") # Job(t, "produce")
BY DEF Jobs, Job

LEMMA SubmitFacts ==
  ASSUME PoolInv, NEW job \in Jobs, job \notin running, ~Waits(job),
         Submit(<<job>>)
  PROVE  /\ PoolInv'
         /\ running' = running
         /\ \A j : Waits(j)' => Waits(j) \/ j = job
  BY JobQueued DEF PoolInv, Waits, Submit

LEMMA FinishFacts ==
  ASSUME PoolInv, NEW job, Finish(job, <<>>)
  PROVE  /\ PoolInv'
         /\ job \in running /\ ~Waits(job)
         /\ running' = running \ {job}
         /\ \A j : Waits(j)' => Waits(j)
<1>1. queued' = queued /\ ~Waits(job)
  BY DEF PoolInv, Orderly, Finish, Waits
<1> QED
  BY <1>1, JobEnded DEF PoolInv, Finish, Waits

LEMMA FinishAgainFacts ==
  ASSUME PoolInv, NEW job, Finish(job, <<job>>)
  PROVE  /\ PoolInv'
         /\ job \in running /\ ~Waits(job)
         /\ running' = running \ {job}
         /\ \A j : Waits(j)' => Waits(j) \/ j = job
<1>1. /\ job \in Jobs /\ job \in running /\ ~Waits(job)
      /\ running' = running \ {job} /\ queued' = queued \o <<job>>
  BY DEF PoolInv, Orderly, Waits, Finish
<1>2. Orderly(Jobs, queued, running \ {job})
  BY JobEnded DEF PoolInv
<1>3. job \notin running \ {job}
  OBVIOUS
<1>4. PICK after : after = queued \o <<job>>
  OBVIOUS
<1>5. /\ Orderly(Jobs, after, running \ {job})
      /\ \A k : Contains(after, k) <=> (Contains(queued, k) \/ k = job)
  <2>1. ~Contains(queued, job)
    BY <1>1 DEF Waits
  <2> QED
    BY <1>1, <1>2, <1>3, <1>4, <2>1, JobQueued, ZenonT(60)
<1> QED
  BY <1>1, <1>4, <1>5 DEF PoolInv, Waits

LEMMA TakeJobFacts ==
  ASSUME PoolInv, TakeJob
  PROVE  /\ PoolInv'
         /\ \A j : Waits(j)' => Waits(j)
         /\ \A j \in running' : j \in running \/ Waits(j)
  BY JobTaken DEF PoolInv, Waits, TakeJob

LEMMA CancelFacts ==
  ASSUME PoolInv, NEW job \in Jobs, Cancel(job)
  PROVE  /\ PoolInv'
         /\ running' = running
         /\ \A j : Waits(j)' => Waits(j) /\ j # job
  BY JobCancelled DEF PoolInv, Waits, Cancel

-----------------------------------------------------------------------------
(***************************************************************************)
(* The invariant                                                           *)
(***************************************************************************)
Typed ==
  /\ consumer \in [Streams -> {"idle", "getting", "paused", "joining", "closing",
                               "returned", "closed"}]
  /\ thread \in [Streams -> {"none", "created", "locking", "generating",
                             "interrupted", "exhausted", "done"}]
  /\ items \in [Streams -> Seq(Int)]
  /\ stop \in [Streams -> BOOLEAN]
  /\ made \in [Streams -> Nat]
  /\ received \in [Streams -> Seq(Nat)]

\* Who may have a job: a get belongs to a coroutine that waits for it or has left,
\* and a produce to a thread that has not ended.
JobsInv(s) ==
  /\ Waits(Job(s, "get")) => consumer[s] = "getting"
  /\ Job(s, "get") \in running => consumer[s] \in {"getting", "closing", "closed"}
  /\ (Waits(Job(s, "produce")) \/ Job(s, "produce") \in running)
       => thread[s] \notin {"none", "created", "done"}

\* The coroutine and its thread.
ControlInv(s) ==
  /\ consumer[s] = "idle" <=> thread[s] = "none"
  /\ lock = s <=> thread[s] = "generating"
  /\ stop[s] <=> consumer[s] \in {"closing", "closed"}
  /\ thread[s] = "interrupted" => stop[s]
  /\ consumer[s] \in {"joining", "returned", "closed"} => thread[s] = "done"

\* Before the thread has ended there is no end in the queue; afterwards it is the
\* last item, for whoever takes one.
EndInv(s) ==
  /\ thread[s] # "done" => \A k \in 1..Len(items[s]) : items[s][k] # End
  /\ (thread[s] = "done" /\ (consumer[s] \in {"getting", "paused"}
                             \/ Job(s, "get") \in running))
       => items[s] # <<>> /\ items[s][Len(items[s])] = End

\* What was received and what waits in the queue is what the source made, in order;
\* an error and the end come after it.
OrderInv(s) ==
  LET n    == Len(received[s])
      rest == made[s] - n
  IN /\ \A k \in 1..n : received[s][k] = k
     /\ consumer[s] \in {"idle", "getting", "paused"} =>
          /\ n <= made[s] /\ rest <= Len(items[s])
          /\ \A k \in 1..rest : items[s][k] = n + k
          /\ \A k \in (rest + 1)..Len(items[s]) : items[s][k] \in {End, Failure}
          /\ thread[s] \in {"none", "created", "locking", "generating"}
               => Len(items[s]) = rest
     /\ consumer[s] \in {"joining", "returned"} => n = made[s]

StreamInv(s) == JobsInv(s) /\ ControlInv(s) /\ EndInv(s) /\ OrderInv(s)

Inv == Typed /\ PoolInv /\ \A s \in Streams : StreamInv(s)

LEMMA InitEstablishesInv == Init => Inv
<1> SUFFICES ASSUME Init PROVE Inv
  OBVIOUS
<1>1. Typed
  BY DEF Init, Typed
<1>2. queued = <<>> /\ running = {}
  BY DEF Init, PoolInit
<1>3. PoolInv
  BY <1>2 DEF PoolInv, Orderly, Contains
<1>4. ASSUME NEW s \in Streams PROVE StreamInv(s)
  <2>1. ~Waits(Job(s, "get")) /\ ~Waits(Job(s, "produce"))
    BY <1>2 DEF Waits, Contains
  <2>2. JobsInv(s)
    BY <1>2, <2>1 DEF JobsInv
  <2>3. ControlInv(s)
    BY StreamsAssumption DEF Init, ControlInv
  <2>4. EndInv(s) /\ OrderInv(s)
    BY <1>2 DEF Init, EndInv, OrderInv
  <2> QED
    BY <2>2, <2>3, <2>4 DEF StreamInv
<1> QED
  BY <1>1, <1>3, <1>4 DEF Inv

\* A step of one stream leaves the others alone.
LEMMA OthersKeepInv ==
  ASSUME Inv, NEW s \in Streams, Typed', PoolInv', StreamInv(s)',
         \A t \in Streams : t # s =>
           /\ consumer'[t] = consumer[t] /\ thread'[t] = thread[t]
           /\ items'[t] = items[t] /\ stop'[t] = stop[t]
           /\ made'[t] = made[t] /\ received'[t] = received[t]
           /\ (lock' = t <=> lock = t),
         \A t \in Streams : t # s => \A role \in {"get", "produce"} :
           /\ Waits(Job(t, role))' => Waits(Job(t, role))
           /\ Job(t, role) \in running' => Job(t, role) \in running
  PROVE  Inv'
<1> SUFFICES ASSUME NEW t \in Streams, t # s
             PROVE  StreamInv(t)'
  BY DEF Inv
<1>1. StreamInv(t)
  BY DEF Inv
<1>2. JobsInv(t)'
  BY <1>1 DEF StreamInv, JobsInv, Job
<1>3. ControlInv(t)'
  BY <1>1 DEF StreamInv, ControlInv
<1>4. EndInv(t)'
  BY <1>1 DEF StreamInv, EndInv
<1>5. OrderInv(t)'
  BY <1>1 DEF StreamInv, OrderInv
<1> QED
  BY <1>2, <1>3, <1>4, <1>5 DEF StreamInv
-----------------------------------------------------------------------------
(***************************************************************************)
(* The steps                                                               *)
(***************************************************************************)
LEMMA BeginPreservesInv ==
  ASSUME Inv, NEW s \in Streams, Begin(s)
  PROVE  Inv'
<1> DEFINE get == Job(s, "get")
<1>1. /\ consumer[s] = "idle" /\ thread[s] = "none" /\ get \in Jobs
      /\ StreamInv(s)
  BY JobFacts DEF Inv, Begin, StreamInv, ControlInv
<1>2. /\ consumer' = [consumer EXCEPT ![s] = "getting"]
      /\ thread' = [thread EXCEPT ![s] = "created"]
      /\ UNCHANGED <<items, stop, made, received, lock>>
  BY DEF Begin, Goto, Reach
<1>3. /\ PoolInv' /\ running' = running
      /\ \A j : Waits(j)' => Waits(j) \/ j = get
  BY <1>1, SubmitFacts DEF Inv, Begin, StreamInv, JobsInv
<1>4. Typed' /\ consumer'[s] = "getting" /\ thread'[s] = "created"
  BY <1>2 DEF Inv, Typed
<1>5. JobsInv(s)'
  BY <1>1, <1>3, <1>4, JobFacts DEF StreamInv, JobsInv
<1>6. ControlInv(s)' /\ EndInv(s)' /\ OrderInv(s)'
  BY <1>1, <1>2, <1>3, <1>4
     DEF StreamInv, JobsInv, ControlInv, EndInv, OrderInv
<1> QED
  BY <1>2, <1>3, <1>4, <1>5, <1>6, OthersKeepInv, JobFacts
     DEF Inv, Typed, StreamInv

LEMMA LaunchPreservesInv ==
  ASSUME Inv, NEW s \in Streams, Launch(s)
  PROVE  Inv'
<1> DEFINE produce == Job(s, "produce")
<1>1. /\ thread[s] = "created" /\ produce \in Jobs
      /\ StreamInv(s)
  BY JobFacts DEF Inv, Launch
<1>2. /\ thread' = [thread EXCEPT ![s] = "locking"]
      /\ UNCHANGED <<consumer, items, stop, made, received, lock>>
  BY DEF Launch, Reach
<1>3. /\ PoolInv' /\ running' = running
      /\ \A j : Waits(j)' => Waits(j) \/ j = produce
  BY <1>1, SubmitFacts DEF Inv, Launch, StreamInv, JobsInv
<1>4. Typed' /\ thread'[s] = "locking"
  BY <1>2 DEF Inv, Typed
<1>5. JobsInv(s)'
  BY <1>1, <1>2, <1>3, <1>4, JobFacts DEF StreamInv, JobsInv
<1>6. ControlInv(s)' /\ EndInv(s)' /\ OrderInv(s)'
  BY <1>1, <1>2, <1>3, <1>4 DEF StreamInv, ControlInv, EndInv, OrderInv
<1> QED
  BY <1>2, <1>3, <1>4, <1>5, <1>6, OthersKeepInv, JobFacts
     DEF Inv, Typed, StreamInv

\* What taking the first item of a queue leaves.
LEMMA TakingFirst ==
  ASSUME NEW q \in Seq(Int), q # <<>>
  PROVE  /\ Head(q) = q[1] /\ Head(q) \in Int /\ Tail(q) \in Seq(Int)
         /\ Len(q) \in Nat \ {0} /\ Len(Tail(q)) = Len(q) - 1
         /\ \A k \in 1..(Len(q) - 1) : Tail(q)[k] = q[k + 1]
OBVIOUS

LEMMA ReceivePreservesInv ==
  ASSUME Inv, NEW s \in Streams, Receive(s)
  PROVE  Inv'
<1> DEFINE get == Job(s, "get")
           q == items[s]
           r == received[s]
<1>1. /\ q \in Seq(Int) /\ q # <<>> /\ Head(q) > 0 /\ r \in Seq(Nat)
      /\ consumer[s] = "getting" /\ StreamInv(s)
  BY DEF Inv, Typed, Receive
<1>2. /\ items' = [items EXCEPT ![s] = Tail(q)]
      /\ received' = [received EXCEPT ![s] = Append(r, Head(q))]
      /\ UNCHANGED <<thread, stop, made, lock>>
  BY DEF Receive
<1>3. /\ PoolInv'
      /\ \A t \in Streams : consumer'[t] = consumer[t] \/
           (t = s /\ consumer'[t] = "paused")
      /\ consumer' \in [Streams -> {"idle", "getting", "paused", "joining", "closing",
                                    "returned", "closed"}]
      /\ running' = running \ {get} /\ get \in running
      /\ \A j : Waits(j)' => Waits(j) \/ (j = get /\ consumer'[s] = "getting")
      /\ ~Waits(get)
  <2>1. CASE Goto(s, "paused") /\ Finish(get, <<>>)
    BY <2>1, FinishFacts DEF Inv, Typed, Goto
  <2>2. CASE Finish(get, <<get>>) /\ UNCHANGED consumer
    BY <1>1, <2>2, FinishAgainFacts DEF Inv, Typed
  <2> QED
    BY <2>1, <2>2 DEF Receive
<1>4. /\ Head(q) = q[1] /\ Head(q) \in Int /\ Tail(q) \in Seq(Int)
      /\ Len(q) \in Nat \ {0} /\ Len(Tail(q)) = Len(q) - 1
      /\ \A k \in 1..(Len(q) - 1) : Tail(q)[k] = q[k + 1]
  BY <1>1, TakingFirst
<1>5. /\ items'[s] = Tail(q) /\ received'[s] = Append(r, Head(q))
      /\ consumer'[s] \in {"getting", "paused"}
      /\ thread'[s] = thread[s] /\ made'[s] = made[s] /\ stop'[s] = stop[s]
  BY <1>1, <1>2, <1>3 DEF Inv, Typed
<1>6. Typed'
  <2>1. Append(r, Head(q)) \in Seq(Nat)
    BY <1>1, <1>4
  <2>2. received' \in [Streams -> Seq(Nat)] /\ items' \in [Streams -> Seq(Int)]
    BY <1>2, <1>4, <2>1 DEF Inv, Typed
  <2> QED
    BY <1>2, <1>3, <2>2 DEF Inv, Typed
<1>7. JobsInv(s)'
  BY <1>1, <1>2, <1>3, <1>5, JobFacts DEF StreamInv, JobsInv
<1>8. ControlInv(s)'
  BY <1>1, <1>2, <1>5 DEF StreamInv, ControlInv
<1>9. EndInv(s)'
  <2>1. CASE thread[s] # "done"
    BY <1>1, <1>4, <1>5, <2>1 DEF StreamInv, EndInv
  <2>2. CASE thread[s] = "done"
    <3>1. q[Len(q)] = End
      BY <1>1, <2>2 DEF StreamInv, EndInv
    <3>2. Len(q) > 1
      BY <1>1, <1>4, <3>1 DEF End
    <3>3. /\ Len(q) - 1 \in 1..(Len(q) - 1) /\ (Len(q) - 1) + 1 = Len(q)
          /\ Tail(q) # <<>>
      <4>1. PICK u : u = Tail(q)
        OBVIOUS
      <4>2. Len(u) # 0
        BY <1>4, <3>2, <4>1
      <4>3. u # <<>>
        BY <4>2
      <4> QED
        BY <1>4, <3>2, <4>1, <4>3
    <3>4. Tail(q)[Len(Tail(q))] = End
      BY <1>4, <3>1, <3>3
    <3> QED
      BY <1>5, <2>2, <3>3, <3>4 DEF EndInv
  <2> QED
    BY <2>1, <2>2
<1>10. OrderInv(s)'
  <2> DEFINE n == Len(r)
             rest == made[s] - n
  <2>1. /\ n \in Nat /\ made[s] \in Nat /\ n <= made[s] /\ rest <= Len(q)
        /\ \A k \in 1..n : r[k] = k
        /\ \A k \in 1..rest : q[k] = n + k
        /\ \A k \in (rest + 1)..Len(q) : q[k] \in {End, Failure}
        /\ thread[s] \in {"none", "created", "locking", "generating"}
             => Len(q) = rest
    BY <1>1 DEF Inv, Typed, StreamInv, OrderInv
  <2>2. rest > 0
    <3>1. q[1] \notin {End, Failure} /\ 1 \in 1..Len(q)
      BY <1>1, <1>4 DEF End, Failure
    <3>2. rest \in Nat /\ ~(1 \in (rest + 1)..Len(q))
      BY <2>1, <3>1
    <3> QED
      BY <3>1, <3>2
  <2>3. Head(q) = n + 1
    BY <1>4, <2>1, <2>2
  <2>4. /\ Len(received'[s]) = n + 1
        /\ \A k \in 1..(n + 1) : received'[s][k] = k
    <3>1. PICK h : h = Head(q)
      OBVIOUS
    <3>2. /\ Len(Append(r, h)) = n + 1 /\ Append(r, h)[n + 1] = h
          /\ \A k \in 1..n : Append(r, h)[k] = r[k]
      BY <1>1
    <3>3. received'[s] = Append(r, h) /\ h = n + 1
      BY <1>5, <2>3, <3>1
    <3> HIDE DEF n
    <3> QED
      BY <2>1, <3>2, <3>3
  <2>5. /\ Len(items'[s]) = Len(q) - 1
        /\ \A k \in 1..(Len(q) - 1) : items'[s][k] = q[k + 1]
    BY <1>4, <1>5
  <2>6. ASSUME NEW k \in 1..(rest - 1)
        PROVE  items'[s][k] = (n + 1) + k
    <3>1. k \in 1..(Len(q) - 1) /\ k + 1 \in 1..rest
      BY <1>4, <2>1, <2>2, SMTT(30)
    <3>2. items'[s][k] = n + (k + 1)
      BY <2>1, <2>5, <3>1
    <3>3. n \in Int /\ k \in Int
      BY <2>1
    <3> HIDE DEF n
    <3> QED
      BY <3>2, <3>3
  <2>7. ASSUME NEW k \in ((rest - 1) + 1)..(Len(q) - 1)
        PROVE  items'[s][k] \in {End, Failure}
    <3>1. k \in 1..(Len(q) - 1) /\ k + 1 \in (rest + 1)..Len(q)
      BY <1>4, <2>1, <2>2
    <3> QED
      BY <2>1, <2>5, <3>1
  <2>8. /\ made'[s] - Len(received'[s]) = rest - 1
        /\ n + 1 <= made'[s] /\ rest - 1 <= Len(items'[s])
        /\ thread'[s] \in {"none", "created", "locking", "generating"}
             => Len(items'[s]) = rest - 1
    <3>1. /\ made'[s] - Len(received'[s]) = rest - 1
          /\ n + 1 <= made'[s] /\ rest - 1 <= Len(items'[s])
      BY <1>4, <1>5, <2>1, <2>2, <2>4, <2>5
    <3>2. thread'[s] \in {"none", "created", "locking", "generating"}
            => Len(items'[s]) = rest - 1
      BY <1>5, <2>1, <2>5
    <3> QED
      BY <3>1, <3>2
  <2>9. PICK n1 \in Nat, rest1 \in Nat : n1 = n + 1 /\ rest1 = rest - 1
    <3>1. n + 1 \in Nat /\ rest - 1 \in Nat
      BY <2>1, <2>2
    <3> HIDE DEF n, rest
    <3> QED
      BY <3>1
  <2>10. /\ n1 = Len(received'[s]) /\ rest1 = made'[s] - n1
         /\ n1 <= made'[s] /\ rest1 <= Len(items'[s])
         /\ \A k \in 1..n1 : received'[s][k] = k
         /\ \A k \in 1..rest1 : items'[s][k] = n1 + k
         /\ \A k \in (rest1 + 1)..Len(items'[s]) : items'[s][k] \in {End, Failure}
         /\ thread'[s] \in {"none", "created", "locking", "generating"}
              => Len(items'[s]) = rest1
    BY <2>4, <2>5, <2>6, <2>7, <2>8, <2>9
  <2> HIDE DEF n, rest
  <2> QED
    BY <1>5, <2>10 DEF OrderInv
<1>11. \A t \in Streams : t # s =>
         /\ consumer'[t] = consumer[t] /\ thread'[t] = thread[t]
         /\ items'[t] = items[t] /\ stop'[t] = stop[t]
         /\ made'[t] = made[t] /\ received'[t] = received[t]
         /\ (lock' = t <=> lock = t)
  BY <1>2, <1>3 DEF Inv, Typed
<1>12. \A t \in Streams : t # s => \A role \in {"get", "produce"} :
         /\ Waits(Job(t, role))' => Waits(Job(t, role))
         /\ Job(t, role) \in running' => Job(t, role) \in running
  <2>1. \A t \in Streams : t # s => \A role \in {"get", "produce"} : Job(t, role) # get
    BY DEF Job
  <2> HIDE DEF get
  <2> QED
    BY <1>3, <2>1
<1> QED
  BY <1>3, <1>6, <1>7, <1>8, <1>9, <1>10, <1>11, <1>12, OthersKeepInv DEF StreamInv

LEMMA ReceiveLastPreservesInv ==
  ASSUME Inv, NEW s \in Streams, ReceiveLast(s)
  PROVE  Inv'
<1> DEFINE get == Job(s, "get")
           q == items[s]
<1>1. /\ q \in Seq(Int) /\ q # <<>> /\ Head(q) \in {End, Failure}
      /\ consumer[s] = "getting" /\ StreamInv(s)
  BY DEF Inv, Typed, ReceiveLast
<1>2. /\ items' = [items EXCEPT ![s] = Tail(q)]
      /\ UNCHANGED <<thread, made, received, lock>>
  BY DEF ReceiveLast
<1>3. /\ PoolInv' /\ running' = running \ {get}
      /\ \A j : Waits(j)' => Waits(j)
      /\ get \in running /\ ~Waits(get)
  BY FinishFacts DEF Inv, ReceiveLast
<1>4. /\ Head(q) = q[1] /\ Tail(q) \in Seq(Int)
      /\ Len(q) \in Nat \ {0} /\ Len(Tail(q)) = Len(q) - 1
      /\ \A k \in 1..(Len(q) - 1) : Tail(q)[k] = q[k + 1]
  BY <1>1, TakingFirst
<1>5. PICK label \in {"joining", "closing"} :
        /\ consumer' = [consumer EXCEPT ![s] = label]
        /\ label = "joining" => Head(q) = End /\ UNCHANGED stop
        /\ label = "closing" => stop' = [stop EXCEPT ![s] = TRUE]
  BY DEF ReceiveLast, Goto
<1>6. Typed'
  <2>1. stop' \in [Streams -> BOOLEAN]
    BY <1>5 DEF Inv, Typed
  <2> QED
    BY <1>2, <1>4, <1>5, <2>1 DEF Inv, Typed
<1>7. /\ consumer'[s] = label /\ items'[s] = Tail(q)
      /\ thread'[s] = thread[s] /\ made'[s] = made[s]
      /\ received'[s] = received[s]
      /\ label = "joining" => stop'[s] = stop[s]
      /\ label = "closing" => stop'[s] = TRUE
  BY <1>2, <1>5 DEF Inv, Typed
<1>8. label = "joining" =>
        /\ thread[s] = "done" /\ Len(received[s]) = made[s]
  <2> SUFFICES ASSUME label = "joining"
               PROVE  thread[s] = "done" /\ Len(received[s]) = made[s]
    OBVIOUS
  <2>1. q[1] = End /\ 1 \in 1..Len(q)
    BY <1>4, <1>5
  <2>2. thread[s] = "done"
    BY <1>1, <2>1 DEF StreamInv, EndInv
  <2>3. /\ Len(received[s]) \in Nat /\ made[s] \in Nat
        /\ Len(received[s]) <= made[s]
        /\ \A k \in 1..(made[s] - Len(received[s])) : q[k] = Len(received[s]) + k
    BY <1>1 DEF Inv, Typed, StreamInv, OrderInv
  <2>4. ~(made[s] - Len(received[s]) >= 1)
    BY <2>1, <2>3 DEF End
  <2> QED
    BY <2>2, <2>3, <2>4
<1>9. JobsInv(s)'
  BY <1>1, <1>3, <1>7, JobFacts DEF StreamInv, JobsInv
<1>10. ControlInv(s)'
  BY <1>1, <1>2, <1>7, <1>8 DEF StreamInv, ControlInv
<1>11. EndInv(s)'
  BY <1>1, <1>3, <1>4, <1>7 DEF StreamInv, EndInv
<1>12. OrderInv(s)'
  BY <1>1, <1>7, <1>8 DEF StreamInv, OrderInv
<1> QED
  BY <1>2, <1>3, <1>5, <1>6, <1>9, <1>10, <1>11, <1>12, OthersKeepInv, JobFacts
     DEF Inv, Typed, StreamInv

LEMMA ReceiveLatePreservesInv ==
  ASSUME Inv, NEW s \in Streams, ReceiveLate(s)
  PROVE  Inv'
<1> DEFINE get == Job(s, "get")
           q == items[s]
<1>1. /\ q \in Seq(Int) /\ q # <<>> /\ consumer[s] # "getting" /\ StreamInv(s)
  BY DEF Inv, Typed, ReceiveLate
<1>2. /\ items' = [items EXCEPT ![s] = Tail(q)]
      /\ UNCHANGED <<consumer, thread, stop, made, received, lock>>
  BY DEF ReceiveLate
<1>3. /\ PoolInv' /\ running' = running \ {get}
      /\ \A j : Waits(j)' => Waits(j)
      /\ get \in running
  BY FinishFacts DEF Inv, ReceiveLate
<1>4. /\ Tail(q) \in Seq(Int) /\ Len(q) \in Nat \ {0}
      /\ Len(Tail(q)) = Len(q) - 1
      /\ \A k \in 1..(Len(q) - 1) : Tail(q)[k] = q[k + 1]
  BY <1>1, TakingFirst
<1>5. Typed' /\ items'[s] = Tail(q)
  BY <1>2, <1>4 DEF Inv, Typed
<1>6. consumer[s] \in {"closing", "closed"}
  BY <1>1, <1>3 DEF StreamInv, JobsInv
<1>7. JobsInv(s)' /\ ControlInv(s)'
  BY <1>1, <1>2, <1>3 DEF StreamInv, JobsInv, ControlInv
<1>8. EndInv(s)' /\ OrderInv(s)'
  BY <1>1, <1>2, <1>3, <1>4, <1>5, <1>6 DEF StreamInv, EndInv, OrderInv
<1> QED
  BY <1>2, <1>3, <1>5, <1>7, <1>8, OthersKeepInv, JobFacts DEF Inv, Typed, StreamInv

LEMMA ResumePreservesInv ==
  ASSUME Inv, NEW s \in Streams, Resume(s)
  PROVE  Inv'
<1> DEFINE get == Job(s, "get")
<1>1. /\ consumer[s] = "paused" /\ get \in Jobs /\ StreamInv(s)
  BY JobFacts DEF Inv, Resume
<1>2. /\ consumer' = [consumer EXCEPT ![s] = "getting"]
      /\ UNCHANGED <<thread, items, stop, made, received, lock>>
  BY DEF Resume, Goto
<1>3. /\ PoolInv' /\ running' = running
      /\ \A j : Waits(j)' => Waits(j) \/ j = get
  BY <1>1, SubmitFacts DEF Inv, Resume, StreamInv, JobsInv
<1>4. Typed' /\ consumer'[s] = "getting"
  BY <1>2 DEF Inv, Typed
<1>5. JobsInv(s)'
  BY <1>1, <1>2, <1>3, <1>4, JobFacts DEF StreamInv, JobsInv
<1>6. ControlInv(s)' /\ EndInv(s)' /\ OrderInv(s)'
  BY <1>1, <1>2, <1>3, <1>4 DEF StreamInv, ControlInv, EndInv, OrderInv
<1> QED
  BY <1>2, <1>3, <1>4, <1>5, <1>6, OthersKeepInv, JobFacts
     DEF Inv, Typed, StreamInv

LEMMA LeavePreservesInv ==
  ASSUME Inv, NEW s \in Streams, Leave(s)
  PROVE  Inv'
<1> DEFINE get == Job(s, "get")
<1>1. /\ consumer[s] \in {"getting", "paused"} /\ get \in Jobs /\ StreamInv(s)
  BY JobFacts DEF Inv, Leave
<1>2. /\ consumer' = [consumer EXCEPT ![s] = "closing"]
      /\ stop' = [stop EXCEPT ![s] = TRUE]
      /\ UNCHANGED <<thread, items, made, received, lock>>
  BY DEF Leave, Goto
<1>3. /\ PoolInv' /\ running' = running
      /\ \A j : Waits(j)' => Waits(j) /\ j # get
  BY <1>1, CancelFacts DEF Inv, Leave
<1>4. Typed' /\ consumer'[s] = "closing" /\ stop'[s] = TRUE
  BY <1>2 DEF Inv, Typed
<1>5. JobsInv(s)'
  BY <1>1, <1>2, <1>3, <1>4, JobFacts DEF StreamInv, JobsInv
<1>6. ControlInv(s)' /\ EndInv(s)' /\ OrderInv(s)'
  BY <1>1, <1>2, <1>3, <1>4 DEF StreamInv, ControlInv, EndInv, OrderInv
<1> QED
  BY <1>2, <1>3, <1>4, <1>5, <1>6, OthersKeepInv, JobFacts
     DEF Inv, Typed, StreamInv

LEMMA JoinPreservesInv ==
  ASSUME Inv, NEW s \in Streams, Join(s)
  PROVE  Inv'
<1>1. /\ consumer[s] \in {"joining", "closing"} /\ thread[s] = "done"
      /\ StreamInv(s)
  BY DEF Inv, Join
<1>2. PICK label \in {"returned", "closed"} :
        /\ consumer' = [consumer EXCEPT ![s] = label]
        /\ label = "returned" <=> consumer[s] = "joining"
  BY DEF Join, Goto
<1>3. UNCHANGED <<queued, running, thread, items, stop, made, received, lock>>
  BY DEF Join, pool
<1>4. PoolInv' /\ \A j : Waits(j)' <=> Waits(j)
  BY <1>3 DEF Inv, PoolInv, Waits
<1>5. Typed' /\ consumer'[s] = label
  BY <1>2, <1>3 DEF Inv, Typed
<1>6. JobsInv(s)' /\ ControlInv(s)' /\ EndInv(s)'
  BY <1>1, <1>2, <1>3, <1>4, <1>5 DEF StreamInv, JobsInv, ControlInv, EndInv
<1>7. OrderInv(s)'
  BY <1>1, <1>2, <1>3, <1>5 DEF StreamInv, OrderInv
<1> QED
  BY <1>2, <1>3, <1>4, <1>5, <1>6, <1>7, OthersKeepInv
     DEF Inv, Typed, StreamInv

\* The thread's steps before its last: the executor and the coroutine stay.
LEMMA ThreadKeepsJobs ==
  ASSUME Inv, NEW s \in Streams, UNCHANGED <<queued, running, consumer>>,
         thread'[s] \notin {"none", "created", "done"}
  PROVE  PoolInv' /\ JobsInv(s)' /\ \A j : Waits(j)' <=> Waits(j)
BY DEF Inv, PoolInv, Waits, StreamInv, JobsInv

LEMMA AcquirePreservesInv ==
  ASSUME Inv, NEW s \in Streams, Acquire(s)
  PROVE  Inv'
<1>1. thread[s] = "locking" /\ lock = None /\ StreamInv(s)
  BY DEF Inv, Acquire
<1>2. /\ thread' = [thread EXCEPT ![s] = "generating"] /\ lock' = s
      /\ UNCHANGED <<queued, running, consumer, items, stop, made, received>>
  BY DEF Acquire, Reach, pool
<1>3. Typed' /\ thread'[s] = "generating"
  BY <1>2 DEF Inv, Typed
<1>4. PoolInv' /\ JobsInv(s)' /\ \A j : Waits(j)' <=> Waits(j)
  BY <1>2, <1>3, ThreadKeepsJobs
<1>5. ControlInv(s)' /\ EndInv(s)' /\ OrderInv(s)'
  BY <1>1, <1>2, <1>3 DEF StreamInv, ControlInv, EndInv, OrderInv
<1>6. \A t \in Streams : t # s => (lock' = t <=> lock = t)
  BY <1>1, <1>2, StreamsAssumption
<1> QED
  BY <1>2, <1>3, <1>4, <1>5, <1>6, OthersKeepInv DEF Inv, Typed, StreamInv

\* What an item at the end of a queue changes.
LEMMA Putting ==
  ASSUME NEW q \in Seq(Int), NEW x \in Int
  PROVE  /\ q \o <<x>> = Append(q, x)
         /\ q \o <<x>> \in Seq(Int) /\ q \o <<x>> # <<>>
         /\ Len(q \o <<x>>) = Len(q) + 1 /\ Len(q) \in Nat
         /\ (q \o <<x>>)[Len(q) + 1] = x
         /\ \A k \in 1..Len(q) : (q \o <<x>>)[k] = q[k]
OBVIOUS

LEMMA GeneratePreservesInv ==
  ASSUME Inv, NEW s \in Streams, Generate(s)
  PROVE  Inv'
<1> DEFINE q == items[s]
           m == made[s] + 1
           p == q \o <<m>>
<1>1. /\ thread[s] = "generating" /\ StreamInv(s) /\ lock = s
      /\ q \in Seq(Int) /\ made[s] \in Nat
  BY DEF Inv, Typed, Generate, StreamInv, ControlInv
<1>2. /\ made' = [made EXCEPT ![s] = m] /\ made'[s] = m
      /\ UNCHANGED <<queued, running, consumer, stop, received>>
  BY DEF Inv, Typed, Generate, pool
<1>3. CASE stop[s]
  <2>1. /\ thread' = [thread EXCEPT ![s] = "interrupted"] /\ lock' = None
        /\ UNCHANGED items
    BY <1>3 DEF Generate, Reach
  <2>2. Typed' /\ thread'[s] = "interrupted"
    BY <1>1, <1>2, <2>1 DEF Inv, Typed
  <2>3. PoolInv' /\ JobsInv(s)' /\ \A j : Waits(j)' <=> Waits(j)
    BY <1>2, <2>2, ThreadKeepsJobs
  <2>4. ControlInv(s)' /\ EndInv(s)' /\ OrderInv(s)'
    BY <1>1, <1>2, <1>3, <2>1, <2>2, StreamsAssumption
       DEF StreamInv, ControlInv, EndInv, OrderInv
  <2>5. \A t \in Streams : t # s => (lock' = t <=> lock = t)
    BY <1>1, <2>1, StreamsAssumption
  <2> QED
    BY <1>2, <2>1, <2>2, <2>3, <2>4, <2>5, OthersKeepInv DEF Inv, Typed, StreamInv
<1>4. CASE ~stop[s]
  <2>1. /\ items' = [items EXCEPT ![s] = p]
        /\ UNCHANGED <<thread, lock>>
    BY <1>2, <1>4 DEF Generate, Put
  <2>2. /\ p \in Seq(Int) /\ Len(p) = Len(q) + 1 /\ Len(q) \in Nat
        /\ p[Len(q) + 1] = m /\ \A k \in 1..Len(q) : p[k] = q[k]
    BY <1>1, Putting
  <2> HIDE DEF p
  <2>3. Typed' /\ items'[s] = p /\ thread'[s] = "generating"
    BY <1>1, <1>2, <2>1, <2>2 DEF Inv, Typed
  <2>4. PoolInv' /\ JobsInv(s)' /\ \A j : Waits(j)' <=> Waits(j)
    BY <1>2, <2>3, ThreadKeepsJobs
  <2>5. ControlInv(s)'
    BY <1>1, <1>2, <2>1 DEF StreamInv, ControlInv
  <2>6. EndInv(s)'
    <3>1. \A k \in 1..Len(q) : q[k] # End
      BY <1>1 DEF StreamInv, EndInv
    <3>2. m # End
      BY <1>1 DEF End
    <3>3. \A k \in 1..Len(p) : p[k] # End
      <4> HIDE DEF m
      <4> QED
        BY <2>2, <3>1, <3>2
    <3> QED
      BY <2>3, <3>3 DEF EndInv
  <2>7. OrderInv(s)'
    <3> DEFINE n == Len(received[s])
    <3>1. /\ n \in Nat /\ \A k \in 1..n : received[s][k] = k
          /\ consumer[s] \notin {"joining", "returned"}
          /\ consumer[s] \in {"idle", "getting", "paused"} =>
               /\ n <= made[s] /\ Len(q) = made[s] - n
               /\ \A k \in 1..(made[s] - n) : q[k] = n + k
      BY <1>1 DEF Inv, Typed, StreamInv, ControlInv, OrderInv
    <3>2. consumer[s] \in {"idle", "getting", "paused"} =>
            /\ n <= m /\ Len(p) = m - n
            /\ \A k \in 1..(m - n) : p[k] = n + k
      <4> SUFFICES ASSUME consumer[s] \in {"idle", "getting", "paused"}
                   PROVE  /\ n <= m /\ Len(p) = m - n
                          /\ \A k \in 1..(m - n) : p[k] = n + k
        OBVIOUS
      <4> HIDE DEF n, q
      <4>1. PICK b \in Nat : b = made[s] - n
        BY <1>1, <3>1
      <4>2. m \in Int /\ m = n + (b + 1) /\ m - n = b + 1 /\ n <= m
        BY <1>1, <3>1, <4>1
      <4>3. Len(q) = b /\ \A k \in 1..b : q[k] = n + k
        BY <3>1, <4>1
      <4> HIDE DEF m
      <4>4. ASSUME NEW k \in 1..(b + 1) PROVE p[k] = n + k
        <5>1. k \in 1..b \/ k = b + 1
          OBVIOUS
        <5>2. CASE k \in 1..b
          BY <2>2, <4>3, <5>2
        <5>3. CASE k = b + 1
          BY <2>2, <4>2, <4>3, <5>3
        <5> QED
          BY <5>1, <5>2, <5>3
      <4> QED
        BY <2>2, <4>2, <4>3, <4>4
    <3>3. /\ consumer'[s] = consumer[s] /\ received'[s] = received[s]
      BY <1>2
    <3> HIDE DEF m
    <3>4. /\ made'[s] = m /\ items'[s] = p /\ thread'[s] = "generating"
          /\ Len(p) \in Nat /\ (m - n = Len(p) => (m - n) + 1 > Len(p))
      BY <1>2, <2>2, <2>3
    <3> HIDE DEF q
    <3> QED
      BY <3>1, <3>2, <3>3, <3>4 DEF OrderInv
  <2> QED
    BY <1>2, <2>1, <2>3, <2>4, <2>5, <2>6, <2>7, OthersKeepInv
       DEF Inv, Typed, StreamInv
<1> QED
  BY <1>1, <1>3, <1>4

LEMMA ExhaustPreservesInv ==
  ASSUME Inv, NEW s \in Streams, Exhaust(s)
  PROVE  Inv'
<1> DEFINE q == items[s]
<1>1. /\ thread[s] = "generating" /\ StreamInv(s) /\ lock = s
      /\ q \in Seq(Int)
  BY DEF Inv, Typed, Exhaust, StreamInv, ControlInv
<1>2. /\ thread' = [thread EXCEPT ![s] = "exhausted"] /\ lock' = None
      /\ UNCHANGED <<queued, running, consumer, stop, made, received>>
  BY DEF Exhaust, Reach, pool
<1>3. PICK p : /\ items' = [items EXCEPT ![s] = p]
              /\ p \in {q, Append(q, Failure)}
  BY DEF Exhaust, Inv, Typed
<1>4. /\ p \in Seq(Int) /\ Len(p) \in Nat /\ Len(q) \in Nat /\ Len(q) <= Len(p)
      /\ \A k \in 1..Len(q) : p[k] = q[k]
      /\ \A k \in (Len(q) + 1)..Len(p) : p[k] = Failure
  <2>1. CASE p = q
    BY <1>1, <2>1
  <2>2. CASE p = Append(q, Failure)
    <3>1. p = q \o <<Failure>> /\ Failure \in Int
      BY <1>1, <2>2 DEF Failure
    <3> QED
      BY <1>1, <3>1, Putting
  <2> QED
    BY <1>3, <2>1, <2>2
<1>5. Typed' /\ thread'[s] = "exhausted" /\ items'[s] = p
  BY <1>2, <1>3, <1>4 DEF Inv, Typed
<1>6. PoolInv' /\ JobsInv(s)' /\ \A j : Waits(j)' <=> Waits(j)
  BY <1>2, <1>5, ThreadKeepsJobs
<1>7. ControlInv(s)'
  BY <1>1, <1>2, <1>5, StreamsAssumption DEF StreamInv, ControlInv
<1>8. EndInv(s)'
  <2>1. \A k \in 1..Len(q) : q[k] # End
    BY <1>1 DEF StreamInv, EndInv
  <2> HIDE DEF q
  <2>2. ASSUME NEW k \in 1..Len(p) PROVE p[k] # End
    <3>1. CASE k \in 1..Len(q)
      BY <1>4, <2>1, <3>1
    <3>2. CASE k \in (Len(q) + 1)..Len(p)
      BY <1>4, <3>2 DEF End, Failure
    <3> QED
      BY <1>4, <3>1, <3>2
  <2> QED
    BY <1>5, <2>2 DEF EndInv
<1>9. OrderInv(s)'
  <2>1. /\ made'[s] = made[s] /\ received'[s] = received[s]
        /\ consumer'[s] = consumer[s]
        /\ made[s] \in Nat /\ Len(received[s]) \in Nat
    BY <1>2 DEF Inv, Typed
  <2> QED
    BY <1>1, <1>4, <1>5, <2>1 DEF StreamInv, OrderInv
<1>10. \A t \in Streams : t # s => (lock' = t <=> lock = t)
  BY <1>1, <1>2, StreamsAssumption
<1> QED
  BY <1>2, <1>3, <1>5, <1>6, <1>7, <1>8, <1>9, <1>10, OthersKeepInv
     DEF Inv, Typed, StreamInv

LEMMA CloseSourcePreservesInv ==
  ASSUME Inv, NEW s \in Streams, CloseSource(s)
  PROVE  Inv'
<1> DEFINE q == items[s]
           p == q \o <<End>>
           produce == Job(s, "produce")
<1>1. /\ thread[s] \in {"interrupted", "exhausted"} /\ StreamInv(s)
      /\ q \in Seq(Int)
  BY DEF Inv, Typed, CloseSource
<1>2. /\ thread' = [thread EXCEPT ![s] = "done"]
      /\ items' = [items EXCEPT ![s] = p]
      /\ UNCHANGED <<consumer, stop, made, received, lock>>
  BY DEF CloseSource, Reach, Put
<1>3. /\ PoolInv' /\ running' = running \ {produce}
      /\ \A j : Waits(j)' => Waits(j)
      /\ produce \in running /\ ~Waits(produce)
  BY FinishFacts DEF Inv, CloseSource
<1>4. /\ p \in Seq(Int) /\ p # <<>> /\ Len(p) = Len(q) + 1 /\ Len(q) \in Nat
      /\ p[Len(q) + 1] = End /\ \A k \in 1..Len(q) : p[k] = q[k]
  BY <1>1, Putting DEF End
<1> HIDE DEF p
<1>5. Typed' /\ thread'[s] = "done" /\ items'[s] = p
  BY <1>2, <1>4 DEF Inv, Typed
<1>6. JobsInv(s)'
  BY <1>1, <1>2, <1>3, JobFacts DEF StreamInv, JobsInv
<1>7. ControlInv(s)' /\ EndInv(s)'
  BY <1>1, <1>2, <1>4, <1>5 DEF StreamInv, ControlInv, EndInv
<1>8. OrderInv(s)'
  <2>1. /\ made'[s] = made[s] /\ received'[s] = received[s]
        /\ consumer'[s] = consumer[s]
        /\ made[s] \in Nat /\ Len(received[s]) \in Nat
    BY <1>2 DEF Inv, Typed
  <2>2. consumer[s] \in {"idle", "getting", "paused"} =>
          \A k \in (made[s] - Len(received[s]) + 1)..Len(p) : p[k] \in {End, Failure}
    <3> SUFFICES ASSUME consumer[s] \in {"idle", "getting", "paused"},
                        NEW k \in (made[s] - Len(received[s]) + 1)..Len(p)
                 PROVE  p[k] \in {End, Failure}
      OBVIOUS
    <3>1. /\ Len(received[s]) <= made[s]
          /\ \A i \in (made[s] - Len(received[s]) + 1)..Len(q) : q[i] \in {End, Failure}
      BY <1>1 DEF StreamInv, OrderInv
    <3>2. CASE k = Len(q) + 1
      BY <1>4, <3>2
    <3>3. CASE k # Len(q) + 1
      <4>1. PICK b \in Nat : b = made[s] - Len(received[s])
        BY <2>1, <3>1
      <4>2. k \in (b + 1)..Len(q) /\ k \in 1..Len(q)
        <5>1. k \in (b + 1)..(Len(q) + 1)
          BY <1>4, <4>1
        <5> QED
          BY <1>4, <3>3, <5>1
      <4> QED
        BY <1>4, <3>1, <4>1, <4>2
    <3> QED
      BY <3>2, <3>3
  <2>3. consumer[s] \in {"idle", "getting", "paused"} =>
          /\ made[s] - Len(received[s]) <= Len(p)
          /\ \A k \in 1..(made[s] - Len(received[s])) :
               p[k] = Len(received[s]) + k
    <3> SUFFICES ASSUME consumer[s] \in {"idle", "getting", "paused"}
                 PROVE  /\ made[s] - Len(received[s]) <= Len(p)
                        /\ \A k \in 1..(made[s] - Len(received[s])) :
                             p[k] = Len(received[s]) + k
      OBVIOUS
    <3>1. /\ Len(received[s]) <= made[s] /\ made[s] - Len(received[s]) <= Len(q)
          /\ \A k \in 1..(made[s] - Len(received[s])) : q[k] = Len(received[s]) + k
      BY <1>1 DEF StreamInv, OrderInv
    <3>2. \A k \in 1..(made[s] - Len(received[s])) : k \in 1..Len(q)
      BY <1>4, <2>1, <3>1
    <3>3. \A k \in 1..(made[s] - Len(received[s])) : p[k] = q[k]
      BY <1>4, <3>2
    <3>4. made[s] - Len(received[s]) <= Len(p)
      BY <1>4, <2>1, <3>1
    <3> QED
      BY <3>1, <3>3, <3>4
  <2> QED
    BY <1>1, <1>5, <2>1, <2>2, <2>3 DEF StreamInv, OrderInv
<1> QED
  BY <1>2, <1>3, <1>5, <1>6, <1>7, <1>8, OthersKeepInv, JobFacts
     DEF Inv, Typed, StreamInv

\* A worker takes a job: of no stream is there more to run than there was to do.
LEMMA TakeJobPreservesInv ==
  ASSUME Inv, TakeJob, UNCHANGED llama
  PROVE  Inv'
<1>1. /\ PoolInv' /\ \A j : Waits(j)' => Waits(j)
      /\ \A j \in running' : j \in running \/ Waits(j)
  BY TakeJobFacts DEF Inv
<1>2. Typed'
  BY DEF Inv, Typed, llama
<1>3. ASSUME NEW s \in Streams PROVE StreamInv(s)'
  <2>1. StreamInv(s)
    BY DEF Inv
  <2>2. JobsInv(s)' /\ ControlInv(s)' /\ OrderInv(s)'
    BY <1>1, <2>1 DEF StreamInv, JobsInv, ControlInv, OrderInv, llama
  <2>3. EndInv(s)'
    BY <1>1, <2>1 DEF StreamInv, JobsInv, EndInv, llama
  <2> QED
    BY <2>2, <2>3 DEF StreamInv
<1> QED
  BY <1>1, <1>2, <1>3 DEF Inv

LEMMA NextPreservesInv == Inv /\ [Next]_vars => Inv'
<1> SUFFICES ASSUME Inv, [Next]_vars PROVE Inv'
  OBVIOUS
<1>1. ASSUME NEW s \in Streams,
             Begin(s) \/ Launch(s) \/ Resume(s) \/ Leave(s) \/ Join(s)
      PROVE  Inv'
  BY <1>1, BeginPreservesInv, LaunchPreservesInv, ResumePreservesInv,
     LeavePreservesInv, JoinPreservesInv
<1>2. ASSUME NEW s \in Streams, Get(s)
      PROVE  Inv'
  BY <1>2, ReceivePreservesInv, ReceiveLastPreservesInv, ReceiveLatePreservesInv
     DEF Get
<1>3. ASSUME NEW s \in Streams, Produce(s)
      PROVE  Inv'
  BY <1>3, AcquirePreservesInv, GeneratePreservesInv, ExhaustPreservesInv,
     CloseSourcePreservesInv DEF Produce
<1>4. CASE UNCHANGED vars
  BY <1>4 DEF vars, pool, llama, Inv, Typed, PoolInv, Waits, StreamInv, JobsInv,
              ControlInv, EndInv, OrderInv
<1> QED
  BY <1>1, <1>2, <1>3, <1>4, TakeJobPreservesInv DEF Next

LEMMA InvHolds == Spec => []Inv
BY InitEstablishesInv, NextPreservesInv, PTL DEF Spec

-----------------------------------------------------------------------------
\* A consumer gets what its own source made, in order and without a gap, and all of
\* it when the stream returns (stream, produce).
THEOREM PayloadsComeInOrder == Spec => []PayloadsInOrder
<1>1. Inv => PayloadsInOrder
  <2> SUFFICES ASSUME Inv, NEW s \in Streams
               PROVE  /\ received[s] = [n \in 1..Len(received[s]) |-> n]
                      /\ consumer[s] = "returned" => Len(received[s]) = made[s]
    BY DEF PayloadsInOrder
  <2>1. received[s] \in Seq(Nat) /\ OrderInv(s)
    BY DEF Inv, Typed, StreamInv
  <2> QED
    BY <2>1 DEF OrderInv
<1> QED
  BY <1>1, InvHolds, PTL

\* When a stream is over, returned, failed, or left or cancelled at an await of its
\* loop, its thread has ended, the generation lock is not its, and no worker is blocked in its get (the finally
\* blocks of stream and produce).
THEOREM NothingOfAStreamRunsOn == Spec => []NothingRunsOn
<1>1. Inv => NothingRunsOn
  BY DEF Inv, StreamInv, ControlInv, EndInv, NothingRunsOn, Over
<1> QED
  BY <1>1, InvHolds, PTL
=============================================================================
