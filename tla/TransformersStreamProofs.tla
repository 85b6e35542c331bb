------------------------ MODULE TransformersStreamProofs ------------------------
(***************************************************************************)
(* The streams of the transformers engine and the prefix cache: for any    *)
(* streams, workers, lengths and cache size, a consumer gets its own       *)
(* chunks in order, nothing of a stream that is over runs on, a generation *)
(* has its own candidates, and the cache forgets what was cleared.         *)
(***************************************************************************)
EXTENDS TransformersStream, LibraryLemmas

Jobs == {Job(s, role) : s \in Streams, role \in {"generate", "next", "prefill"}}

Waits(job) == Contains(queued, job)

PoolInv == Orderly(Jobs, queued, running)

-----------------------------------------------------------------------------
(***************************************************************************)
(* The executor                                                            *)
(***************************************************************************)
LEMMA JobFacts ==
  ASSUME NEW s, NEW t, NEW role, NEW other
  PROVE  /\ Job(s, role) = Job(t, other) => s = t /\ role = other
         /\ (s \in Streams /\ role \in {"generate", "next", "prefill"})
              => Job(s, role) \in Jobs
BY DEF Jobs, Job

LEMMA SubmitFacts ==
  ASSUME PoolInv, NEW job \in Jobs, ~Unfinished(job), Submit(<<job>>)
  PROVE  /\ PoolInv'
         /\ \A j : Unfinished(j)' => Unfinished(j) \/ j = job
BY JobQueued DEF PoolInv, Unfinished, Submit

\* Two jobs are queued one after the other.
LEMMA TwoJobsQueued ==
  ASSUME NEW queue, NEW working, Orderly(Jobs, queue, working),
         NEW a \in Jobs, a \notin working, ~Contains(queue, a),
         NEW b \in Jobs, b \notin working, ~Contains(queue, b), a # b,
         NEW after, after = queue \o <<a, b>>
  PROVE  /\ Orderly(Jobs, after, working)
         /\ \A k : Contains(after, k) => Contains(queue, k) \/ k \in {a, b}
<1>1. PICK first : first = queue \o <<a>>
  OBVIOUS
<1>2. /\ Orderly(Jobs, first, working)
      /\ \A k : Contains(first, k) <=> (Contains(queue, k) \/ k = a)
  BY <1>1, JobQueued
<1>3. after = first \o <<b>>
  BY <1>1 DEF Orderly
<1>4. /\ Orderly(Jobs, after, working)
      /\ \A k : Contains(after, k) <=> (Contains(first, k) \/ k = b)
  BY <1>2, <1>3, JobQueued
<1> QED
  BY <1>2, <1>4

LEMMA SubmitTwoFacts ==
  ASSUME PoolInv, NEW a \in Jobs, NEW b \in Jobs, a # b,
         ~Unfinished(a), ~Unfinished(b), Submit(<<a, b>>)
  PROVE  /\ PoolInv'
         /\ \A j : Unfinished(j)' => Unfinished(j) \/ j \in {a, b}
BY TwoJobsQueued DEF PoolInv, Unfinished, Submit

LEMMA FinishFacts ==
  ASSUME PoolInv, NEW job, Finish(job, <<>>)
  PROVE  /\ PoolInv'
         /\ Unfinished(job)
         /\ \A j : Unfinished(j)' => Unfinished(j) /\ j # job
<1>1. queued' = queued /\ running' = running \ {job} /\ job \in running
  BY DEF PoolInv, Orderly, Finish
<1>2. ~Waits(job)
  BY <1>1 DEF PoolInv, Orderly, Waits
<1> QED
  BY <1>1, <1>2, JobEnded DEF PoolInv, Unfinished, Waits

LEMMA FinishWithTwoFacts ==
  ASSUME PoolInv, NEW job, NEW a \in Jobs, NEW b \in Jobs, a # b,
         ~Unfinished(a), ~Unfinished(b), Finish(job, <<a, b>>)
  PROVE  /\ PoolInv'
         /\ Unfinished(job)
         /\ \A j : Unfinished(j)' => (Unfinished(j) /\ j # job) \/ j \in {a, b}
<1>1. /\ queued' = queued \o <<a, b>> /\ running' = running \ {job}
      /\ job \in running
  BY DEF Finish
<1>2. ~Waits(job) /\ Orderly(Jobs, queued, running \ {job})
  BY <1>1, JobEnded DEF PoolInv, Orderly, Waits
<1>3. /\ a \notin running \ {job} /\ ~Contains(queued, a)
      /\ b \notin running \ {job} /\ ~Contains(queued, b)
  BY DEF Unfinished
<1>4. /\ Orderly(Jobs, queued', running \ {job})
      /\ \A k : Contains(queued', k) => Contains(queued, k) \/ k \in {a, b}
  BY <1>1, <1>2, <1>3, TwoJobsQueued
<1> QED
  BY <1>1, <1>2, <1>4 DEF PoolInv, Unfinished, Waits

LEMMA TakeJobFacts ==
  ASSUME PoolInv, TakeJob
  PROVE  /\ PoolInv'
         /\ \A j : Unfinished(j)' => Unfinished(j)
BY JobTaken DEF PoolInv, Unfinished, TakeJob

LEMMA CancelFacts ==
  ASSUME PoolInv, NEW job \in Jobs, Cancel(job)
  PROVE  /\ PoolInv'
         /\ \A j : Unfinished(j)' => Unfinished(j)
BY JobCancelled DEF PoolInv, Unfinished, Cancel

LEMMA IdlePoolFacts ==
  ASSUME PoolInv, UNCHANGED pool
  PROVE  /\ PoolInv'
         /\ \A j : Unfinished(j)' => Unfinished(j)
BY DEF PoolInv, Unfinished, pool

-----------------------------------------------------------------------------
(***************************************************************************)
(* The invariant                                                           *)
(***************************************************************************)
Typed ==
  /\ parent \in [Streams -> Streams \cup {None}]
  /\ consumer \in [Streams -> {"idle", "prefilling", "waiting", "paused", "joining",
                               "last", "returned", "closing", "closed"}]
  /\ thread \in [Streams -> {"none", "starting", "generating", "ending",
                             "returning", "done"}]
  /\ text \in [Streams -> Seq(Nat)]
  /\ ended \in [Streams -> BOOLEAN]
  /\ made \in [Streams -> Nat]
  /\ received \in [Streams -> Seq(Nat)]

\* Who may have a job: a get belongs to a coroutine that waits for it, a prefix to
\* one whose generation was never started, a generation to a thread.
JobsInv(s) ==
  /\ Unfinished(Job(s, "next")) => consumer[s] \in {"waiting", "closing"}
  /\ Unfinished(Job(s, "prefill")) =>
       thread[s] = "none" /\ consumer[s] \in {"prefilling", "closed"}
  /\ Unfinished(Job(s, "generate")) => thread[s] \notin {"none", "done"}

\* The coroutine and its thread.
ControlInv(s) ==
  /\ thread[s] = "none" => consumer[s] \in {"idle", "prefilling", "closed"}
  /\ consumer[s] \in {"idle", "prefilling"} => thread[s] = "none"
  /\ consumer[s] = "joining" => thread[s] \in {"returning", "done"}
  /\ consumer[s] \in {"last", "returned"} => thread[s] = "done"
  /\ consumer[s] = "closed" => thread[s] \in {"none", "returning", "done"}

Listening(s) == consumer[s] \in {"idle", "prefilling", "waiting", "paused"}

\* What is queued: the chunks after the first n of m, and then the end, if it was
\* put.
Follows(q, n, m, end) ==
  /\ Len(q) = IF end THEN (m - n) + 1 ELSE m - n
  /\ \A k \in 1..(m - n) : q[k] = n + k
  /\ end => q[(m - n) + 1] = StreamEnd

\* As long as somebody listens, the streamer is ended when generate() is over, and
\* not before; what was received and what is queued is what was made, in order, and
\* then the end.
OrderInv(s) ==
  LET n == Len(received[s])
  IN /\ \A k \in 1..n : received[s][k] = k
     /\ Listening(s) =>
          /\ ended[s] => thread[s] \in {"returning", "done"}
          /\ n <= made[s]
          /\ Follows(text[s], n, made[s], ended[s])
     /\ consumer[s] \in {"joining", "last", "returned"} => n = made[s]

\* The lock of the model.
GeneratorInv(s) ==
  (s \in Drafting /\ thread[s] \in {"generating", "ending", "returning"})
    => generator = s

CacheInv ==
  /\ cache \in Seq(Streams)
  /\ \A i, j \in DOMAIN cache : cache[i] = cache[j] => i = j
  /\ cleared \subseteq {s \in Streams : Over(s)}
  /\ \A r \in cleared : ~Contains(cache, r)

StreamInv(s) ==
  JobsInv(s) /\ ControlInv(s) /\ OrderInv(s) /\ GeneratorInv(s)

Inv == Typed /\ PoolInv /\ CacheInv /\ \A s \in Streams : StreamInv(s)

-----------------------------------------------------------------------------
(***************************************************************************)
(* The cache                                                               *)
(***************************************************************************)
\* An entry is made the newest; all the others were there.
LEMMA EntryMadeNewest ==
  ASSUME NEW entries \in Seq(Streams), NEW owner \in Streams,
         \A i, j \in DOMAIN entries : entries[i] = entries[j] => i = j,
         NEW after, after = Append(RemoveFirst(entries, owner), owner)
  PROVE  /\ after \in Seq(Streams)
         /\ \A i, j \in DOMAIN after : after[i] = after[j] => i = j
         /\ \A k : Contains(after, k) => Contains(entries, k) \/ k = owner
<1>1. PICK others : others = RemoveFirst(entries, owner)
  OBVIOUS
<1>2. /\ others \in Seq(Streams)
      /\ \A i \in DOMAIN others :
           others[i] # owner /\ \E k \in DOMAIN entries : entries[k] = others[i]
      /\ \A i, j \in DOMAIN others : others[i] = others[j] => i = j
  BY <1>1, RemoveFirstFacts
<1>3. /\ after \in Seq(Streams) /\ Len(others) \in Nat
      /\ DOMAIN after = 1..(Len(others) + 1) /\ DOMAIN others = 1..Len(others)
      /\ after[Len(others) + 1] = owner
      /\ \A i \in 1..Len(others) : after[i] = others[i]
  BY <1>1, <1>2
<1>4. \A i, j \in DOMAIN after : after[i] = after[j] => i = j
  BY <1>2, <1>3
<1>5. \A k : Contains(after, k) => Contains(entries, k) \/ k = owner
  <2>1. ASSUME NEW i \in DOMAIN after, after[i] # owner
        PROVE  Contains(entries, after[i])
    <3>1. i \in 1..Len(others) /\ after[i] = others[i]
      BY <1>3, <2>1
    <3> QED
      BY <1>2, <1>3, <3>1 DEF Contains
  <2> QED
    BY <2>1 DEF Contains
<1> QED
  BY <1>3, <1>4, <1>5

LEMMA TouchFacts ==
  ASSUME CacheInv, NEW owner \in Streams, NEW after, after = Touch(owner)
  PROVE  /\ after \in Seq(Streams)
         /\ \A i, j \in DOMAIN after : after[i] = after[j] => i = j
         /\ \A k : Contains(after, k) => Contains(cache, k)
BY EntryMadeNewest DEF CacheInv, Touch

LEMMA PutFacts ==
  ASSUME CacheInv, NEW owner \in Streams, NEW after, after = Put(owner)
  PROVE  /\ after \in Seq(Streams)
         /\ \A i, j \in DOMAIN after : after[i] = after[j] => i = j
         /\ \A k : Contains(after, k) => Contains(cache, k) \/ k = owner
<1>1. PICK entries : entries = Append(RemoveFirst(cache, owner), owner)
  OBVIOUS
<1>2. /\ entries \in Seq(Streams)
      /\ \A i, j \in DOMAIN entries : entries[i] = entries[j] => i = j
      /\ \A k : Contains(entries, k) => Contains(cache, k) \/ k = owner
  BY <1>1, EntryMadeNewest DEF CacheInv
<1>3. PICK surplus \in Int : surplus = Len(entries) - MaxEntries
  <2>1. Len(entries) \in Nat /\ MaxEntries \in Nat
    BY <1>2, StreamsAssumption
  <2> QED
    BY <2>1
<1>4. after = IF surplus > 0 THEN SubSeq(entries, surplus + 1, Len(entries))
              ELSE entries
  BY <1>1, <1>3 DEF Put
<1>5. CASE surplus > 0
  <2>1. /\ after \in Seq(Streams) /\ Len(entries) \in Nat
        /\ DOMAIN after = 1..(Len(entries) - surplus)
        /\ DOMAIN entries = 1..Len(entries)
        /\ \A i \in 1..(Len(entries) - surplus) : after[i] = entries[surplus + i]
    BY <1>2, <1>3, <1>4, <1>5, StreamsAssumption
  <2>2. \A i \in DOMAIN after :
          surplus + i \in DOMAIN entries /\ after[i] = entries[surplus + i]
    BY <1>5, <2>1
  <2>3. \A i, j \in DOMAIN after : after[i] = after[j] => i = j
    <3> SUFFICES ASSUME NEW i \in DOMAIN after, NEW j \in DOMAIN after,
                        after[i] = after[j]
                 PROVE  i = j
      OBVIOUS
    <3>1. surplus + i = surplus + j
      BY <1>2, <2>2
    <3> QED
      BY <2>1, <3>1
  <2>4. \A k : Contains(after, k) => Contains(entries, k)
    BY <2>1, <2>2 DEF Contains
  <2> QED
    BY <1>2, <2>1, <2>3, <2>4
<1> QED
  BY <1>2, <1>4, <1>5

LEMMA InitEstablishesInv == Init => Inv
<1> SUFFICES ASSUME Init PROVE Inv
  OBVIOUS
<1>1. Typed
  BY DEF Init, Typed
<1>2. queued = <<>> /\ running = {}
  BY DEF Init, PoolInit
<1>3. PoolInv
  BY <1>2 DEF PoolInv, Orderly, Contains
<1>4. CacheInv
  BY DEF Init, CacheInv, Contains
<1>5. ASSUME NEW s \in Streams PROVE StreamInv(s)
  <2>1. JobsInv(s)
    BY <1>2 DEF JobsInv, Unfinished, Contains
  <2>2. ControlInv(s) /\ OrderInv(s) /\ GeneratorInv(s)
    BY DEF Init, ControlInv, OrderInv, Follows, GeneratorInv, Listening
  <2> QED
    BY <2>1, <2>2 DEF StreamInv
<1> QED
  BY <1>1, <1>3, <1>4, <1>5 DEF Inv

\* A step of one stream leaves the others alone; only a stream that has nobody's
\* generator beside it takes the lock.
LEMMA OthersKeepInv ==
  ASSUME Inv, NEW s \in Streams, Typed', PoolInv', CacheInv', StreamInv(s)',
         parent' = parent,
         \A t \in Streams : t # s =>
           /\ consumer'[t] = consumer[t] /\ thread'[t] = thread[t]
           /\ text'[t] = text[t] /\ ended'[t] = ended[t]
           /\ made'[t] = made[t] /\ received'[t] = received[t]
           /\ (t \in Drafting /\ generator = t) => generator' = t,
         \A t \in Streams, role \in {"generate", "next", "prefill"} : t # s =>
           (Unfinished(Job(t, role))' => Unfinished(Job(t, role)))
  PROVE  Inv'
<1> SUFFICES ASSUME NEW t \in Streams, t # s
             PROVE  StreamInv(t)'
  BY DEF Inv
<1>1. StreamInv(t)
  BY DEF Inv
<1>2. JobsInv(t)'
  <2>1. \A role \in {"generate", "next", "prefill"} :
          (Unfinished(Job(t, role))' => Unfinished(Job(t, role)))
    OBVIOUS
  <2>2. /\ Unfinished(Job(t, "next"))' => Unfinished(Job(t, "next"))
        /\ Unfinished(Job(t, "prefill"))' => Unfinished(Job(t, "prefill"))
        /\ Unfinished(Job(t, "generate"))' => Unfinished(Job(t, "generate"))
    BY <2>1
  <2> QED
    BY <1>1, <2>2 DEF StreamInv, JobsInv, Job
<1>3. ControlInv(t)'
  BY <1>1 DEF StreamInv, ControlInv
<1>4. OrderInv(t)'
  BY <1>1 DEF StreamInv, OrderInv, Listening
<1>5. GeneratorInv(t)'
  BY <1>1 DEF StreamInv, GeneratorInv, Drafting, Actors
<1> QED
  BY <1>2, <1>3, <1>4, <1>5 DEF StreamInv

\* What is over stays over, and the cache is left alone.
LEMMA CacheUntouched ==
  ASSUME CacheInv, UNCHANGED <<cache, cleared>>,
         \A t \in Streams : Over(t) => Over(t)'
  PROVE  CacheInv'
BY DEF CacheInv, Over

\* streamer.end(), once or again.
LEMMA EndStreamerFacts ==
  ASSUME Typed, NEW s \in Streams, EndStreamer(s)
  PROVE  /\ text' \in [Streams -> Seq(Nat)] /\ ended' \in [Streams -> BOOLEAN]
         /\ ended'[s]
         /\ text'[s] = IF ended[s] THEN text[s] ELSE Append(text[s], StreamEnd)
         /\ \A t \in Streams : t # s => text'[t] = text[t] /\ ended'[t] = ended[t]
<1>1. text[s] \in Seq(Nat) /\ Append(text[s], StreamEnd) \in Seq(Nat)
  BY DEF Typed, StreamEnd
<1>2. text' \in [Streams -> Seq(Nat)]
  BY <1>1 DEF Typed, EndStreamer
<1> QED
  BY <1>2 DEF Typed, EndStreamer

\* The end comes after what is still queued.
LEMMA EndKeepsOrder ==
  ASSUME Typed, NEW s \in Streams, OrderInv(s), EndStreamer(s),
         consumer'[s] = consumer[s], received'[s] = received[s],
         made'[s] = made[s], thread'[s] \in {"returning", "done"}
  PROVE  OrderInv(s)'
<1> DEFINE n == Len(received[s])
           m == made[s]
           q == text[s]
<1>1. n \in Nat /\ m \in Nat /\ q \in Seq(Nat) /\ Len(q) \in Nat
  BY DEF Typed
<1>2. ended'[s] /\ text'[s] = IF ended[s] THEN q ELSE Append(q, StreamEnd)
  BY EndStreamerFacts
<1>3. ASSUME Listening(s) PROVE n <= m /\ Follows(text'[s], n, m, TRUE)
  <2>1. n <= m /\ Follows(q, n, m, ended[s])
    BY <1>3 DEF OrderInv
  <2>2. CASE ended[s]
    BY <1>2, <2>1, <2>2 DEF Follows
  <2>3. CASE ~ended[s]
    <3>1. /\ text'[s] = Append(q, StreamEnd) /\ Len(q) = m - n
          /\ \A k \in 1..(m - n) : q[k] = n + k
      BY <1>2, <2>1, <2>3 DEF Follows
    <3>2. /\ Len(text'[s]) = Len(q) + 1 /\ text'[s][Len(q) + 1] = StreamEnd
          /\ \A k \in 1..Len(q) : text'[s][k] = q[k]
      BY <1>1, <3>1
    <3> QED
      BY <1>1, <2>1, <3>1, <3>2 DEF Follows
  <2> QED
    BY <2>2, <2>3
<1>4. Listening(s)' <=> Listening(s)
  BY DEF Listening
<1>5. Listening(s) => Follows(text'[s], n, m, ended'[s])
  BY <1>2, <1>3 DEF Follows
<1> QED
  BY <1>1, <1>3, <1>4, <1>5 DEF OrderInv

-----------------------------------------------------------------------------
(***************************************************************************)
(* The steps of the coroutine                                              *)
(***************************************************************************)
LEMMA BeginPreservesInv ==
  ASSUME Inv, NEW s \in Streams, Begin(s)
  PROVE  Inv'
<1> DEFINE generate == Job(s, "generate")
           next == Job(s, "next")
<1>1. /\ consumer[s] = "idle" /\ thread[s] = "none" /\ StreamInv(s)
      /\ ~Unfinished(generate) /\ ~Unfinished(next)
      /\ ~Unfinished(Job(s, "prefill"))
  BY DEF Inv, Begin, StreamInv, ControlInv, JobsInv
<1>2. /\ consumer' = [consumer EXCEPT ![s] = "waiting"]
      /\ thread' = [thread EXCEPT ![s] = "starting"]
      /\ UNCHANGED <<parent, text, ended, made, received, generator, cleared>>
  BY DEF Begin, Launch, Goto, Reach, streamer
<1>3. /\ PoolInv'
      /\ \A j : Unfinished(j)' => Unfinished(j) \/ j \in {generate, next}
  <2>1. generate \in Jobs /\ next \in Jobs /\ generate # next
    BY JobFacts
  <2> QED
    BY <1>1, <2>1, SubmitTwoFacts DEF Inv, Begin
<1>4. Typed' /\ consumer'[s] = "waiting" /\ thread'[s] = "starting"
  BY <1>2 DEF Inv, Typed
<1>5. CacheInv'
  <2>1. Owner(s) \in Streams
    BY DEF Inv, Typed, Owner, Actors
  <2>2. cache' = Touch(Owner(s))
    BY DEF Begin
  <2>3. /\ cache' \in Seq(Streams)
        /\ \A i, j \in DOMAIN cache' : cache'[i] = cache'[j] => i = j
        /\ \A k : Contains(cache', k) => Contains(cache, k)
    BY <2>1, <2>2, TouchFacts DEF Inv
  <2>4. \A t \in Streams : Over(t) => Over(t)'
    BY <1>1, <1>2 DEF Inv, Typed, Over
  <2> QED
    BY <1>2, <2>3, <2>4 DEF Inv, CacheInv
<1>6. StreamInv(s)'
  <2>1. JobsInv(s)'
    BY <1>1, <1>3, <1>4, JobFacts DEF JobsInv
  <2>2. ControlInv(s)' /\ GeneratorInv(s)'
    BY <1>4 DEF ControlInv, GeneratorInv
  <2>3. OrderInv(s)'
    BY <1>1, <1>2, <1>4 DEF StreamInv, OrderInv, Listening
  <2> QED
    BY <2>1, <2>2, <2>3 DEF StreamInv
<1>7. \A t \in Streams, role \in {"generate", "next", "prefill"} : t # s =>
        (Unfinished(Job(t, role))' => Unfinished(Job(t, role)))
  BY <1>3, JobFacts
<1> QED
  BY <1>2, <1>3, <1>4, <1>5, <1>6, <1>7, OthersKeepInv DEF Inv, Typed

LEMMA BeginPrefillPreservesInv ==
  ASSUME Inv, NEW s \in Streams, BeginPrefill(s)
  PROVE  Inv'
<1> DEFINE prefill == Job(s, "prefill")
<1>1. /\ consumer[s] = "idle" /\ thread[s] = "none" /\ StreamInv(s)
      /\ ~Unfinished(Job(s, "generate")) /\ ~Unfinished(Job(s, "next"))
      /\ ~Unfinished(prefill)
  BY DEF Inv, BeginPrefill, StreamInv, ControlInv, JobsInv
<1>2. /\ consumer' = [consumer EXCEPT ![s] = "prefilling"]
      /\ UNCHANGED <<parent, thread, text, ended, made, received, generator, cache,
                     cleared>>
  BY DEF BeginPrefill, Goto, streamer, generation, caching
<1>3. PoolInv' /\ \A j : Unfinished(j)' => Unfinished(j) \/ j = prefill
  BY <1>1, JobFacts, SubmitFacts DEF Inv, BeginPrefill
<1>4. Typed' /\ consumer'[s] = "prefilling" /\ thread'[s] = "none"
  BY <1>1, <1>2 DEF Inv, Typed
<1>5. CacheInv'
  BY <1>1, <1>2, CacheUntouched DEF Inv, Typed, Over
<1>6. StreamInv(s)'
  <2>1. JobsInv(s)'
    BY <1>1, <1>3, <1>4, JobFacts DEF JobsInv
  <2>2. ControlInv(s)' /\ GeneratorInv(s)'
    BY <1>4 DEF ControlInv, GeneratorInv
  <2>3. OrderInv(s)'
    BY <1>1, <1>2, <1>4 DEF StreamInv, OrderInv, Listening
  <2> QED
    BY <2>1, <2>2, <2>3 DEF StreamInv
<1>7. \A t \in Streams, role \in {"generate", "next", "prefill"} : t # s =>
        (Unfinished(Job(t, role))' => Unfinished(Job(t, role)))
  BY <1>3, JobFacts
<1> QED
  BY <1>2, <1>3, <1>4, <1>5, <1>6, <1>7, OthersKeepInv DEF Inv, Typed

LEMMA PrefilledPreservesInv ==
  ASSUME Inv, NEW s \in Streams, Prefilled(s)
  PROVE  Inv'
<1> DEFINE prefill == Job(s, "prefill")
           generate == Job(s, "generate")
           next == Job(s, "next")
<1>1. StreamInv(s) /\ UNCHANGED <<parent, text, ended, made, received, generator,
                                  cleared>>
  BY DEF Inv, Prefilled, streamer
<1>2. prefill \in Jobs /\ generate \in Jobs /\ next \in Jobs /\ generate # next
  BY JobFacts
<1>3. CASE consumer[s] = "prefilling"
  <2>1. /\ consumer' = [consumer EXCEPT ![s] = "waiting"]
        /\ thread' = [thread EXCEPT ![s] = "starting"]
        /\ cache' = Put(s) /\ Finish(prefill, <<generate, next>>)
    BY <1>3 DEF Prefilled, Launch, Goto, Reach
  <2>2. ~Unfinished(generate) /\ ~Unfinished(next)
    BY <1>1, <1>3 DEF StreamInv, JobsInv, ControlInv
  <2>3. /\ PoolInv'
        /\ \A j : Unfinished(j)' =>
             (Unfinished(j) /\ j # prefill) \/ j \in {generate, next}
    BY <1>2, <2>1, <2>2, FinishWithTwoFacts DEF Inv
  <2>4. Typed' /\ consumer'[s] = "waiting" /\ thread'[s] = "starting"
    BY <1>1, <2>1 DEF Inv, Typed
  <2>5. CacheInv'
    <3>1. /\ cache' \in Seq(Streams)
          /\ \A i, j \in DOMAIN cache' : cache'[i] = cache'[j] => i = j
          /\ \A k : Contains(cache', k) => Contains(cache, k) \/ k = s
      BY <2>1, PutFacts DEF Inv
    <3>2. s \notin cleared
      BY <1>3 DEF Inv, CacheInv, Over
    <3>3. \A t \in Streams : Over(t) => Over(t)'
      BY <1>3, <2>1 DEF Inv, Typed, Over
    <3> QED
      BY <1>1, <3>1, <3>2, <3>3 DEF Inv, CacheInv
  <2>6. StreamInv(s)'
    <3>1. JobsInv(s)'
      BY <2>3, <2>4, JobFacts DEF JobsInv
    <3>2. ControlInv(s)' /\ GeneratorInv(s)'
      BY <2>4 DEF ControlInv, GeneratorInv
    <3>3. OrderInv(s)'
      BY <1>1, <1>3, <2>4 DEF StreamInv, OrderInv, ControlInv, Listening
    <3> QED
      BY <3>1, <3>2, <3>3 DEF StreamInv
  <2>7. \A t \in Streams, role \in {"generate", "next", "prefill"} : t # s =>
          (Unfinished(Job(t, role))' => Unfinished(Job(t, role)))
    BY <2>3, JobFacts
  <2> QED
    BY <1>1, <2>1, <2>3, <2>4, <2>5, <2>6, <2>7, OthersKeepInv DEF Inv, Typed
<1>4. CASE consumer[s] # "prefilling"
  <2>1. Finish(prefill, <<>>) /\ UNCHANGED <<cache, consumer, thread>>
    BY <1>4 DEF Prefilled
  <2>2. PoolInv' /\ \A j : Unfinished(j)' => Unfinished(j)
    BY <2>1, FinishFacts DEF Inv
  <2>3. Typed'
    BY <1>1, <2>1 DEF Inv, Typed
  <2>4. CacheInv'
    BY <1>1, <2>1, CacheUntouched DEF Inv, Over
  <2>5. JobsInv(s)'
    BY <1>1, <2>1, <2>2 DEF StreamInv, JobsInv, Job
  <2>6. ControlInv(s)' /\ GeneratorInv(s)' /\ OrderInv(s)'
    BY <1>1, <2>1
       DEF StreamInv, ControlInv, GeneratorInv, OrderInv, Listening, Drafting, Actors
  <2> QED
    BY <1>1, <2>1, <2>2, <2>3, <2>4, <2>5, <2>6, OthersKeepInv DEF StreamInv
<1> QED
  BY <1>3, <1>4

LEMMA PrefillFailsPreservesInv ==
  ASSUME Inv, NEW s \in Streams, PrefillFails(s)
  PROVE  Inv'
<1> DEFINE prefill == Job(s, "prefill")
<1>1. consumer[s] = "prefilling" /\ thread[s] = "none" /\ StreamInv(s)
  BY DEF Inv, PrefillFails, StreamInv, ControlInv
<1>2. /\ consumer' = [consumer EXCEPT ![s] = "closed"]
      /\ UNCHANGED <<parent, thread, text, ended, made, received, generator, cache,
                     cleared>>
  BY DEF PrefillFails, Goto, streamer, generation, caching
<1>3. PoolInv' /\ \A j : Unfinished(j)' => Unfinished(j) /\ j # prefill
  BY FinishFacts DEF Inv, PrefillFails
<1>4. Typed' /\ consumer'[s] = "closed" /\ thread'[s] = "none"
  BY <1>1, <1>2 DEF Inv, Typed
<1>5. CacheInv'
  BY <1>1, <1>2, CacheUntouched DEF Inv, Typed, Over
<1>6. StreamInv(s)'
  <2>1. JobsInv(s)'
    BY <1>1, <1>3, <1>4 DEF StreamInv, JobsInv, Job
  <2>2. ControlInv(s)' /\ GeneratorInv(s)'
    BY <1>4 DEF ControlInv, GeneratorInv
  <2>3. OrderInv(s)'
    BY <1>1, <1>2, <1>4 DEF StreamInv, OrderInv, Listening
  <2> QED
    BY <2>1, <2>2, <2>3 DEF StreamInv
<1> QED
  BY <1>2, <1>3, <1>4, <1>5, <1>6, OthersKeepInv DEF Inv, Typed

LEMMA ResumePreservesInv ==
  ASSUME Inv, NEW s \in Streams, Resume(s)
  PROVE  Inv'
<1> DEFINE next == Job(s, "next")
<1>1. consumer[s] = "paused" /\ StreamInv(s) /\ ~Unfinished(next)
  BY DEF Inv, Resume, StreamInv, JobsInv
<1>2. /\ consumer' = [consumer EXCEPT ![s] = "waiting"]
      /\ UNCHANGED <<parent, thread, text, ended, made, received, generator, cache,
                     cleared>>
  BY DEF Resume, Goto, streamer, generation, caching
<1>3. PoolInv' /\ \A j : Unfinished(j)' => Unfinished(j) \/ j = next
  BY <1>1, JobFacts, SubmitFacts DEF Inv, Resume
<1>4. Typed' /\ consumer'[s] = "waiting"
  BY <1>2 DEF Inv, Typed
<1>5. CacheInv'
  BY <1>1, <1>2, CacheUntouched DEF Inv, Typed, Over
<1>6. StreamInv(s)'
  <2>1. JobsInv(s)'
    BY <1>1, <1>2, <1>3, <1>4, JobFacts DEF StreamInv, JobsInv
  <2>2. ControlInv(s)' /\ GeneratorInv(s)'
    BY <1>1, <1>2, <1>4 DEF StreamInv, ControlInv, GeneratorInv, Drafting, Actors
  <2>3. OrderInv(s)'
    BY <1>1, <1>2, <1>4 DEF StreamInv, OrderInv, Listening
  <2> QED
    BY <2>1, <2>2, <2>3 DEF StreamInv
<1>7. \A t \in Streams, role \in {"generate", "next", "prefill"} : t # s =>
        (Unfinished(Job(t, role))' => Unfinished(Job(t, role)))
  BY <1>3, JobFacts
<1> QED
  BY <1>2, <1>3, <1>4, <1>5, <1>6, <1>7, OthersKeepInv DEF Inv, Typed

\* A coroutine that only goes on from one place to another.
LEMMA MovingPreservesInv ==
  ASSUME Inv, NEW s \in Streams, NEW label, Goto(s, label),
         label \in {"last", "returned", "closed"}, ~Over(s),
         consumer[s] \in {"joining", "last", "closing"},
         thread[s] \in {"returning", "done"},
         label \in {"last", "returned"} =>
           thread[s] = "done" /\ consumer[s] \in {"joining", "last"},
         ~Unfinished(Job(s, "next")),
         UNCHANGED <<pool, streamer, generation, caching, received>>
  PROVE  Inv'
<1>1. StreamInv(s)
  BY DEF Inv
<1>2. /\ consumer' = [consumer EXCEPT ![s] = label]
      /\ UNCHANGED <<parent, thread, text, ended, made, received, generator, cache,
                     cleared>>
  BY DEF Goto, streamer, generation, caching
<1>3. PoolInv' /\ \A j : Unfinished(j)' => Unfinished(j)
  BY IdlePoolFacts DEF Inv
<1>4. Typed' /\ consumer'[s] = label
  BY <1>2 DEF Inv, Typed
<1>5. CacheInv'
  BY <1>2, CacheUntouched DEF Inv, Typed, Over
<1>6. StreamInv(s)'
  <2>1. JobsInv(s)'
    BY <1>1, <1>2, <1>3, <1>4 DEF StreamInv, JobsInv, Job
  <2>2. ControlInv(s)' /\ GeneratorInv(s)'
    BY <1>1, <1>2, <1>4 DEF StreamInv, ControlInv, GeneratorInv, Drafting, Actors
  <2>3. OrderInv(s)'
    BY <1>1, <1>2, <1>4 DEF StreamInv, OrderInv, Listening
  <2> QED
    BY <2>1, <2>2, <2>3 DEF StreamInv
<1> QED
  BY <1>2, <1>3, <1>4, <1>5, <1>6, OthersKeepInv DEF Inv, Typed

LEMMA JoinPreservesInv ==
  ASSUME Inv, NEW s \in Streams, Join(s)
  PROVE  Inv'
<1>1. /\ consumer[s] = "joining" /\ thread[s] = "done"
      /\ ~Unfinished(Job(s, "next"))
  BY DEF Inv, Join, StreamInv, JobsInv
<1>2. PICK label : label = IF failed[s] THEN "closed" ELSE "last"
  OBVIOUS
<1>3. Goto(s, label) /\ UNCHANGED <<pool, streamer, generation, caching, received>>
  BY <1>2 DEF Join
<1>4. label \in {"last", "closed"}
  BY <1>2
<1> QED
  BY <1>1, <1>3, <1>4, MovingPreservesInv DEF Over

LEMMA ReturnPreservesInv ==
  ASSUME Inv, NEW s \in Streams, Return(s)
  PROVE  Inv'
<1>1. /\ consumer[s] = "last" /\ thread[s] = "done"
      /\ ~Unfinished(Job(s, "next"))
  BY DEF Inv, Return, StreamInv, JobsInv, ControlInv
<1>2. /\ Goto(s, "returned")
      /\ UNCHANGED <<pool, streamer, generation, caching, received>>
  BY DEF Return
<1> QED
  BY <1>1, <1>2, MovingPreservesInv DEF Over

LEMMA ClosePreservesInv ==
  ASSUME Inv, NEW s \in Streams, Close(s)
  PROVE  Inv'
<1>1. /\ consumer[s] = "closing" /\ thread[s] = "done"
      /\ ~Unfinished(Job(s, "next")) /\ Goto(s, "closed")
      /\ UNCHANGED <<pool, streamer, generation, caching, received>>
  BY DEF Close
<1> QED
  BY <1>1, MovingPreservesInv DEF Over

LEMMA LeaveAwaitPreservesInv ==
  ASSUME Inv, NEW s \in Streams, LeaveAwait(s)
  PROVE  Inv'
<1>1. StreamInv(s)
  BY DEF Inv
<1>2. CASE consumer[s] = "prefilling" /\ Cancel(Job(s, "prefill"))
  <2>1. thread[s] = "none" /\ Job(s, "prefill") \in Jobs
    BY <1>1, <1>2, JobFacts DEF StreamInv, ControlInv
  <2>2. /\ consumer' = [consumer EXCEPT ![s] = "closed"]
        /\ UNCHANGED <<parent, thread, text, ended, made, received, generator, cache,
                       cleared>>
    BY DEF LeaveAwait, Goto, streamer, generation, caching
  <2>3. PoolInv' /\ \A j : Unfinished(j)' => Unfinished(j)
    BY <1>2, <2>1, CancelFacts DEF Inv
  <2>4. Typed' /\ consumer'[s] = "closed" /\ thread'[s] = "none"
    BY <2>1, <2>2 DEF Inv, Typed
  <2>5. CacheInv'
    BY <1>2, <2>2, CacheUntouched DEF Inv, Typed, Over
  <2>6. JobsInv(s)'
    BY <1>1, <1>2, <2>1, <2>3, <2>4 DEF StreamInv, JobsInv, Job
  <2>7. ControlInv(s)' /\ GeneratorInv(s)'
    BY <2>4 DEF ControlInv, GeneratorInv
  <2>8. OrderInv(s)'
    BY <1>1, <1>2, <2>2, <2>4 DEF StreamInv, OrderInv, Listening
  <2> QED
    BY <2>2, <2>3, <2>4, <2>5, <2>6, <2>7, <2>8, OthersKeepInv
       DEF Inv, Typed, StreamInv
<1>3. CASE consumer[s] = "joining" /\ UNCHANGED pool
  <2>1. thread[s] \in {"returning", "done"} /\ ~Unfinished(Job(s, "next"))
    BY <1>1, <1>3 DEF StreamInv, ControlInv, JobsInv
  <2>2. /\ Goto(s, "closed")
        /\ UNCHANGED <<pool, streamer, generation, caching, received>>
    BY <1>3 DEF LeaveAwait
  <2> QED
    BY <1>3, <2>1, <2>2, MovingPreservesInv DEF Over
<1> QED
  BY <1>2, <1>3 DEF LeaveAwait

LEMMA SeeGeneratedPreservesInv ==
  ASSUME Inv, NEW s \in Streams, SeeGenerated(s)
  PROVE  Inv'
<1>1. /\ consumer[s] = "waiting" /\ thread[s] = "done" /\ EndStreamer(s)
      /\ StreamInv(s)
  BY DEF Inv, SeeGenerated
<1>2. UNCHANGED <<parent, consumer, thread, made, received, generator, cache, cleared>>
  BY DEF SeeGenerated, coroutine, generation, caching
<1>3. PoolInv' /\ \A j : Unfinished(j)' => Unfinished(j)
  BY IdlePoolFacts DEF Inv, SeeGenerated
<1>4. /\ Typed'
      /\ \A t \in Streams : t # s => text'[t] = text[t] /\ ended'[t] = ended[t]
  BY <1>1, <1>2, EndStreamerFacts DEF Inv, Typed
<1>5. CacheInv'
  BY <1>2, CacheUntouched DEF Inv, Over
<1>6. StreamInv(s)'
  <2>1. JobsInv(s)'
    BY <1>1, <1>2, <1>3 DEF StreamInv, JobsInv, Job
  <2>2. ControlInv(s)' /\ GeneratorInv(s)'
    BY <1>1, <1>2 DEF StreamInv, ControlInv, GeneratorInv, Drafting, Actors
  <2>3. OrderInv(s)'
    BY <1>1, <1>2, EndKeepsOrder DEF Inv, StreamInv
  <2> QED
    BY <2>1, <2>2, <2>3 DEF StreamInv
<1> QED
  BY <1>2, <1>3, <1>4, <1>5, <1>6, OthersKeepInv

LEMMA LeavePreservesInv ==
  ASSUME Inv, NEW s \in Streams, Leave(s)
  PROVE  Inv'
<1>1. consumer[s] \in {"waiting", "paused"} /\ EndStreamer(s) /\ StreamInv(s)
  BY DEF Inv, Leave
<1>2. /\ consumer' = [consumer EXCEPT ![s] = "closing"]
      /\ UNCHANGED <<parent, thread, made, received, generator, cache, cleared>>
  BY DEF Leave, Goto, generation, caching
<1>3. PoolInv' /\ \A j : Unfinished(j)' => Unfinished(j)
  BY IdlePoolFacts DEF Inv, Leave
<1>4. /\ Typed' /\ consumer'[s] = "closing"
      /\ \A t \in Streams : t # s => text'[t] = text[t] /\ ended'[t] = ended[t]
  BY <1>1, <1>2, EndStreamerFacts DEF Inv, Typed
<1>5. CacheInv'
  BY <1>1, <1>2, CacheUntouched DEF Inv, Typed, Over
<1>6. StreamInv(s)'
  <2>1. JobsInv(s)'
    BY <1>1, <1>2, <1>3, <1>4 DEF StreamInv, JobsInv, Job
  <2>2. ControlInv(s)' /\ GeneratorInv(s)'
    BY <1>1, <1>2, <1>4 DEF StreamInv, ControlInv, GeneratorInv, Drafting, Actors
  <2>3. OrderInv(s)'
    BY <1>1, <1>2, <1>4 DEF StreamInv, OrderInv, Listening
  <2> QED
    BY <2>1, <2>2, <2>3 DEF StreamInv
<1> QED
  BY <1>2, <1>3, <1>4, <1>5, <1>6, OthersKeepInv DEF Inv, Typed

\* What taking the first chunk of a queue leaves.
LEMMA TakingFirst ==
  ASSUME NEW q \in Seq(Nat), q # <<>>
  PROVE  /\ Head(q) = q[1] /\ Head(q) \in Nat /\ Tail(q) \in Seq(Nat)
         /\ Len(q) \in Nat \ {0} /\ Len(Tail(q)) = Len(q) - 1
         /\ \A k \in 1..(Len(q) - 1) : Tail(q)[k] = q[k + 1]
OBVIOUS

\* The first in a queue is the end, or the chunk after those received.
LEMMA FirstFollows ==
  ASSUME NEW n \in Nat, NEW m \in Nat, NEW end, n <= m,
         NEW q \in Seq(Nat), q # <<>>, Follows(q, n, m, end)
  PROVE  /\ Head(q) = StreamEnd => end /\ n = m
         /\ Head(q) # StreamEnd =>
              Head(q) = n + 1 /\ n + 1 <= m /\ Follows(Tail(q), n + 1, m, end)
<1>1. PICK u : u = Tail(q)
  OBVIOUS
<1>2. /\ Head(q) = q[1]
      /\ Len(q) \in Nat \ {0} /\ Len(u) = Len(q) - 1
      /\ \A k \in 1..(Len(q) - 1) : u[k] = q[k + 1]
  BY <1>1, TakingFirst
<1>3. CASE n = m
  BY <1>2, <1>3 DEF StreamEnd, Follows
<1>4. CASE n < m
  <2>1. 1 \in 1..(m - n) /\ n + 1 <= m /\ (m - (n + 1)) + 1 = m - n
    BY <1>4
  <2>2. Head(q) = n + 1 /\ Head(q) # StreamEnd
    BY <1>2, <2>1 DEF StreamEnd, Follows
  <2>3. Len(u) = IF end THEN (m - (n + 1)) + 1 ELSE m - (n + 1)
    BY <1>2 DEF Follows
  <2>4. \A k \in 1..(m - (n + 1)) : u[k] = (n + 1) + k
    <3> SUFFICES ASSUME NEW k \in 1..(m - (n + 1))
                 PROVE  u[k] = (n + 1) + k
      OBVIOUS
    <3>1. k \in 1..(Len(q) - 1) /\ k + 1 \in 1..(m - n)
      BY <1>2 DEF Follows
    <3>2. u[k] = n + (k + 1)
      BY <1>2, <3>1 DEF Follows
    <3> QED
      BY <3>2
  <2>5. ASSUME end PROVE u[(m - (n + 1)) + 1] = StreamEnd
    <3>1. m - n \in 1..(Len(q) - 1)
      BY <1>2, <1>4, <2>5 DEF Follows
    <3>2. u[m - n] = StreamEnd
      BY <1>2, <2>5, <3>1 DEF Follows
    <3> QED
      BY <2>1, <3>2
  <2> QED
    BY <1>1, <2>1, <2>2, <2>3, <2>4, <2>5 DEF Follows
<1> QED
  BY <1>3, <1>4

\* The next chunk, or the end, is the first of what is queued.
LEMMA ReceiveKeepsOrder ==
  ASSUME Typed, NEW s \in Streams, OrderInv(s),
         text[s] # <<>>, text'[s] = Tail(text[s]), consumer[s] = "waiting",
         made'[s] = made[s], ended'[s] = ended[s], thread'[s] = thread[s]
  PROVE  /\ Head(text[s]) = StreamEnd => thread[s] \in {"returning", "done"}
         /\ (Head(text[s]) = StreamEnd /\ consumer'[s] = "joining"
             /\ received'[s] = received[s]) => OrderInv(s)'
         /\ (Head(text[s]) # StreamEnd /\ consumer'[s] = "paused"
             /\ received'[s] = Append(received[s], Head(text[s]))) => OrderInv(s)'
<1>1. PICK n \in Nat : n = Len(received[s])
  BY DEF Typed
<1>2. /\ n <= made[s] /\ Follows(text[s], n, made[s], ended[s])
      /\ \A k \in 1..n : received[s][k] = k
      /\ ended[s] => thread[s] \in {"returning", "done"}
  BY <1>1 DEF OrderInv, Listening
<1>3. /\ Head(text[s]) = StreamEnd => ended[s] /\ n = made[s]
      /\ Head(text[s]) # StreamEnd =>
           /\ Head(text[s]) = n + 1 /\ n + 1 <= made[s]
           /\ Follows(Tail(text[s]), n + 1, made[s], ended[s])
  BY <1>2, FirstFollows DEF Typed
<1>4. ASSUME Head(text[s]) = StreamEnd, consumer'[s] = "joining",
             received'[s] = received[s]
      PROVE  OrderInv(s)'
  BY <1>1, <1>2, <1>3, <1>4 DEF OrderInv, Listening
<1>5. ASSUME Head(text[s]) # StreamEnd, consumer'[s] = "paused",
             received'[s] = Append(received[s], Head(text[s]))
      PROVE  OrderInv(s)'
  <2>1. PICK r \in Seq(Nat) : r = received[s]
    BY DEF Typed
  <2>2. PICK w : w = Append(r, n + 1)
    OBVIOUS
  <2>3. Len(w) = n + 1 /\ w[n + 1] = n + 1 /\ \A k \in 1..n : w[k] = k
    BY <1>1, <1>2, <2>1, <2>2
  <2>4. received'[s] = w
    BY <1>3, <1>5, <2>1, <2>2
  <2>5. \A k \in 1..(n + 1) : w[k] = k
    <3> SUFFICES ASSUME NEW k \in 1..(n + 1), k # n + 1 PROVE w[k] = k
      BY <2>3
    <3>1. k \in 1..n
      BY <1>1
    <3> QED
      BY <2>3, <3>1
  <2> QED
    BY <1>2, <1>3, <1>5, <2>3, <2>4, <2>5 DEF OrderInv
<1> QED
  BY <1>2, <1>3, <1>4, <1>5

LEMMA ReceivePreservesInv ==
  ASSUME Inv, NEW s \in Streams, Receive(s)
  PROVE  Inv'
<1> DEFINE next == Job(s, "next")
           q == text[s]
           r == received[s]
<1>1. /\ q \in Seq(Nat) /\ q # <<>> /\ r \in Seq(Nat) /\ StreamInv(s)
      /\ text' = [text EXCEPT ![s] = Tail(q)]
      /\ UNCHANGED <<parent, thread, ended, made, generator, cache, cleared>>
  BY DEF Inv, Typed, Receive, generation, caching
<1>2. /\ PoolInv' /\ Unfinished(next)
      /\ \A j : Unfinished(j)' => Unfinished(j) /\ j # next
  BY FinishFacts DEF Inv, Receive
<1>3. Head(q) \in Nat /\ Tail(q) \in Seq(Nat)
  BY <1>1, TakingFirst
<1>4. /\ text' \in [Streams -> Seq(Nat)] /\ text'[s] = Tail(q)
      /\ \A t \in Streams : t # s => text'[t] = text[t]
  BY <1>1, <1>3 DEF Inv, Typed
<1>5. CASE consumer[s] # "waiting"
  <2>1. UNCHANGED <<consumer, received>>
    BY <1>5 DEF Receive
  <2>2. consumer[s] = "closing"
    BY <1>1, <1>2, <1>5 DEF StreamInv, JobsInv
  <2>3. Typed'
    BY <1>1, <1>4, <2>1 DEF Inv, Typed
  <2>4. CacheInv'
    BY <1>1, <2>1, CacheUntouched DEF Inv, Over
  <2>5. JobsInv(s)'
    BY <1>1, <1>2, <2>1 DEF StreamInv, JobsInv, Job
  <2>6. ControlInv(s)' /\ GeneratorInv(s)' /\ OrderInv(s)'
    BY <1>1, <2>1, <2>2
       DEF StreamInv, ControlInv, GeneratorInv, OrderInv, Listening, Drafting, Actors
  <2> QED
    BY <1>1, <1>2, <1>4, <2>1, <2>3, <2>4, <2>5, <2>6, OthersKeepInv DEF StreamInv
<1>6. CASE consumer[s] = "waiting"
  <2>1. PICK label \in {"joining", "paused"} :
          /\ consumer' = [consumer EXCEPT ![s] = label]
          /\ label = "joining" => Head(q) = StreamEnd /\ received' = received
          /\ label = "paused" =>
               /\ Head(q) # StreamEnd
               /\ received' = [received EXCEPT ![s] = Append(r, Head(q))]
    <3>1. CASE Head(q) = StreamEnd
      BY <1>6, <3>1 DEF Receive, Goto
    <3>2. CASE Head(q) # StreamEnd
      BY <1>6, <3>2 DEF Receive, Goto
    <3> QED
      BY <3>1, <3>2
  <2>2. /\ received' \in [Streams -> Seq(Nat)]
        /\ label = "joining" => received'[s] = r
        /\ label = "paused" => received'[s] = Append(r, Head(q))
        /\ \A t \in Streams : t # s => received'[t] = received[t]
    <3>1. Append(r, Head(q)) \in Seq(Nat)
      BY <1>1, <1>3
    <3> QED
      BY <2>1, <3>1 DEF Inv, Typed
  <2>3. Typed' /\ consumer'[s] = label
    BY <1>1, <1>4, <2>1, <2>2 DEF Inv, Typed
  <2>4. CacheInv'
    BY <1>1, <1>6, <2>1, CacheUntouched DEF Inv, Typed, Over
  <2>5. /\ OrderInv(s)'
        /\ label = "joining" => thread[s] \in {"returning", "done"}
    BY <1>1, <1>4, <1>6, <2>1, <2>2, <2>3, ReceiveKeepsOrder DEF Inv, StreamInv
  <2>6. JobsInv(s)'
    BY <1>1, <1>2, <1>6, <2>3 DEF StreamInv, JobsInv, Job
  <2>7. ControlInv(s)' /\ GeneratorInv(s)'
    BY <1>1, <1>6, <2>3, <2>5
       DEF StreamInv, ControlInv, GeneratorInv, Drafting, Actors
  <2> QED
    BY <1>1, <1>2, <1>4, <2>1, <2>2, <2>3, <2>4, <2>5, <2>6, <2>7, OthersKeepInv
       DEF Inv, Typed, StreamInv
<1> QED
  BY <1>5, <1>6

-----------------------------------------------------------------------------
(***************************************************************************)
(* The steps of the thread                                                 *)
(***************************************************************************)
LEMMA StartGenerationPreservesInv ==
  ASSUME Inv, NEW s \in Streams, StartGeneration(s)
  PROVE  Inv'
<1>1. /\ thread[s] = "starting" /\ StreamInv(s)
      /\ thread' = [thread EXCEPT ![s] = "generating"]
      /\ generator' = IF s \in Drafting THEN s ELSE generator
      /\ s \in Drafting => generator = None
  BY DEF Inv, StartGeneration, Reach
<1>2. UNCHANGED <<parent, consumer, text, ended, made, received, cache, cleared>>
  BY DEF StartGeneration, coroutine, streamer, caching
<1>3. PoolInv' /\ \A j : Unfinished(j)' => Unfinished(j)
  BY IdlePoolFacts DEF Inv, StartGeneration
<1>4. Typed' /\ thread'[s] = "generating"
  BY <1>1, <1>2 DEF Inv, Typed
<1>5. CacheInv'
  BY <1>2, CacheUntouched DEF Inv, Over
<1>6. StreamInv(s)'
  <2>1. JobsInv(s)'
    BY <1>1, <1>2, <1>3, <1>4 DEF StreamInv, JobsInv, Job
  <2>2. ControlInv(s)' /\ GeneratorInv(s)'
    BY <1>1, <1>2, <1>4 DEF StreamInv, ControlInv, GeneratorInv, Drafting, Actors
  <2>3. OrderInv(s)'
    BY <1>1, <1>2, <1>4 DEF StreamInv, OrderInv, Listening
  <2> QED
    BY <2>1, <2>2, <2>3 DEF StreamInv
<1>7. \A t \in Streams : (t \in Drafting /\ generator = t) => generator' = t
  BY <1>1, StreamsAssumption
<1> QED
  BY <1>1, <1>2, <1>3, <1>4, <1>5, <1>6, <1>7, OthersKeepInv DEF Inv, Typed

LEMMA GeneratePreservesInv ==
  ASSUME Inv, NEW s \in Streams, Generate(s)
  PROVE  Inv'
<1> DEFINE q == text[s]
           m == made[s]
<1>1. /\ thread[s] = "generating" /\ StreamInv(s) /\ q \in Seq(Nat) /\ m \in Nat
      /\ made' = [made EXCEPT ![s] = m + 1]
      /\ UNCHANGED <<parent, consumer, received, ended, generator, cache, cleared>>
  BY DEF Inv, Typed, Generate, coroutine, caching
<1>2. made'[s] = m + 1 /\ \A t \in Streams : t # s => made'[t] = made[t]
  BY <1>1 DEF Inv, Typed
<1>3. PICK p \in Seq(Nat) : p = Append(q, m + 1)
  <2>1. Append(q, m + 1) \in Seq(Nat)
    BY <1>1
  <2> QED
    BY <2>1
<1>4. text' = [text EXCEPT ![s] = p]
  BY <1>2, <1>3 DEF Generate
<1>5. PICK label \in {"generating", "ending"} :
        thread' = [thread EXCEPT ![s] = label]
  BY <1>1 DEF Inv, Typed, Generate, Reach
<1>6. Typed' /\ thread'[s] = label /\ text'[s] = p
  BY <1>1, <1>3, <1>4, <1>5 DEF Inv, Typed
<1>7. PoolInv' /\ \A j : Unfinished(j)' => Unfinished(j)
  BY IdlePoolFacts DEF Inv, Generate
<1>8. CacheInv'
  BY <1>1, CacheUntouched DEF Inv, Over
<1>9. StreamInv(s)'
  <2>1. JobsInv(s)'
    BY <1>1, <1>6, <1>7 DEF StreamInv, JobsInv, Job
  <2>2. ControlInv(s)' /\ GeneratorInv(s)'
    BY <1>1, <1>6 DEF StreamInv, ControlInv, GeneratorInv, Drafting, Actors
  <2>3. ASSUME Listening(s)
        PROVE  /\ ~ended[s] /\ Len(received[s]) <= m
               /\ Follows(p, Len(received[s]), m + 1, ended[s])
    <3>1. PICK n \in Nat : n = Len(received[s])
      BY DEF Inv, Typed
    <3>2. ~ended[s] /\ n <= m /\ Follows(q, n, m, ended[s])
      BY <1>1, <2>3, <3>1 DEF StreamInv, OrderInv
    <3>3. Len(q) = m - n /\ \A k \in 1..(m - n) : q[k] = n + k
      BY <3>2 DEF Follows
    <3>4. /\ Len(p) = Len(q) + 1 /\ p[Len(q) + 1] = m + 1
          /\ \A k \in 1..Len(q) : p[k] = q[k]
      BY <1>1, <1>3
    <3>5. Len(p) = (m + 1) - n /\ (m - n) + 1 = (m + 1) - n
      BY <1>1, <3>3, <3>4
    <3>6. \A k \in 1..((m + 1) - n) : p[k] = n + k
      <4> SUFFICES ASSUME NEW k \in 1..((m + 1) - n) PROVE p[k] = n + k
        OBVIOUS
      <4>1. CASE k \in 1..(m - n)
        BY <3>3, <3>4, <4>1
      <4>2. CASE k = (m + 1) - n
        BY <1>1, <3>1, <3>3, <3>4, <3>5, <4>2
      <4>3. n \in Nat /\ m \in Nat
        BY <1>1, <3>1
      <4> HIDE DEF m, q
      <4> QED
        BY <4>1, <4>2, <4>3
    <3> QED
      BY <3>1, <3>2, <3>5, <3>6 DEF Follows
  <2>4. Listening(s)' <=> Listening(s)
    BY <1>1 DEF Listening
  <2>5. consumer[s] \notin {"joining", "last", "returned"}
    BY <1>1 DEF StreamInv, ControlInv
  <2>6. OrderInv(s)'
    <3>1. Len(received[s]) \in Nat
      BY DEF Inv, Typed
    <3> QED
      BY <1>1, <1>2, <1>6, <2>3, <2>4, <2>5, <3>1 DEF StreamInv, OrderInv
  <2> QED
    BY <2>1, <2>2, <2>6 DEF StreamInv
<1> QED
  BY <1>1, <1>2, <1>4, <1>5, <1>6, <1>7, <1>8, <1>9, OthersKeepInv DEF Inv, Typed

LEMMA EndGenerationPreservesInv ==
  ASSUME Inv, NEW s \in Streams, EndGeneration(s)
  PROVE  Inv'
<1>1. /\ thread[s] \in {"generating", "ending"} /\ StreamInv(s)
      /\ thread' = [thread EXCEPT ![s] = "returning"]
      /\ UNCHANGED <<parent, consumer, received, made, generator, cache, cleared>>
  BY DEF Inv, EndGeneration, Reach, coroutine, caching
<1>2. thread'[s] = "returning"
  BY <1>1 DEF Inv, Typed
<1>3. /\ Typed' /\ OrderInv(s)'
      /\ \A t \in Streams : t # s => text'[t] = text[t] /\ ended'[t] = ended[t]
  <2>1. CASE EndStreamer(s)
    <3>1. OrderInv(s)'
      BY <1>1, <1>2, <2>1, EndKeepsOrder DEF Inv, StreamInv
    <3> QED
      BY <1>1, <2>1, <3>1, EndStreamerFacts DEF Inv, Typed
  <2>2. CASE UNCHANGED <<text, ended>>
    <3>1. OrderInv(s)'
      BY <1>1, <1>2, <2>2 DEF StreamInv, OrderInv, Listening
    <3> QED
      BY <1>1, <2>2, <3>1 DEF Inv, Typed
  <2> QED
    BY <2>1, <2>2 DEF EndGeneration
<1>4. PoolInv' /\ \A j : Unfinished(j)' => Unfinished(j)
  BY IdlePoolFacts DEF Inv, EndGeneration
<1>5. CacheInv'
  BY <1>1, CacheUntouched DEF Inv, Over
<1>6. JobsInv(s)'
  BY <1>1, <1>2, <1>4 DEF StreamInv, JobsInv, Job
<1>7. ControlInv(s)' /\ GeneratorInv(s)'
  BY <1>1, <1>2 DEF StreamInv, ControlInv, GeneratorInv, Drafting, Actors
<1> QED
  BY <1>1, <1>3, <1>4, <1>5, <1>6, <1>7, OthersKeepInv DEF Inv, Typed, StreamInv

LEMMA EndThreadPreservesInv ==
  ASSUME Inv, NEW s \in Streams, EndThread(s)
  PROVE  Inv'
<1> DEFINE generate == Job(s, "generate")
<1>1. /\ thread[s] = "returning" /\ StreamInv(s)
      /\ thread' = [thread EXCEPT ![s] = "done"]
      /\ generator' = IF s \in Drafting THEN None ELSE generator
      /\ UNCHANGED <<parent, consumer, received, text, ended, made, cache, cleared>>
  BY DEF Inv, EndThread, Reach, coroutine, streamer, caching
<1>2. PoolInv' /\ \A j : Unfinished(j)' => Unfinished(j) /\ j # generate
  BY FinishFacts DEF Inv, EndThread
<1>3. Typed' /\ thread'[s] = "done"
  BY <1>1 DEF Inv, Typed
<1>4. CacheInv'
  BY <1>1, CacheUntouched DEF Inv, Over
<1>5. JobsInv(s)'
  BY <1>1, <1>2, <1>3 DEF StreamInv, JobsInv, Job
<1>6. ControlInv(s)' /\ GeneratorInv(s)'
  BY <1>1, <1>3 DEF StreamInv, ControlInv, GeneratorInv
<1>7. OrderInv(s)'
  BY <1>1, <1>3 DEF StreamInv, OrderInv, Listening
<1>8. \A t \in Streams : t # s =>
        ((t \in Drafting /\ generator = t) => generator' = t)
  BY <1>1 DEF StreamInv, GeneratorInv
<1> QED
  BY <1>1, <1>2, <1>3, <1>4, <1>5, <1>6, <1>7, <1>8, OthersKeepInv
     DEF Inv, Typed, StreamInv

-----------------------------------------------------------------------------
(***************************************************************************)
(* Clearing, the workers, and the whole                                    *)
(***************************************************************************)
LEMMA ClearPrefixPreservesInv ==
  ASSUME Inv, NEW s \in Streams, ClearPrefix(s)
  PROVE  Inv'
<1>1. /\ Over(s) /\ cache' = RemoveFirst(cache, s) /\ cleared' = cleared \cup {s}
      /\ StreamInv(s)
  BY DEF Inv, ClearPrefix, Over
<1>2. UNCHANGED <<parent, consumer, thread, text, ended, made, received, generator>>
  BY DEF ClearPrefix, coroutine, streamer, generation
<1>3. PoolInv' /\ \A j : Unfinished(j)' => Unfinished(j)
  BY IdlePoolFacts DEF Inv, ClearPrefix
<1>4. Typed'
  BY <1>2 DEF Inv, Typed
<1>5. CacheInv'
  <2>1. PICK left : left = RemoveFirst(cache, s)
    OBVIOUS
  <2>2. /\ left \in Seq(Streams)
        /\ \A i \in DOMAIN left :
             left[i] # s /\ \E k \in DOMAIN cache : cache[k] = left[i]
        /\ \A i, j \in DOMAIN left : left[i] = left[j] => i = j
    BY <2>1, RemoveFirstFacts DEF Inv, CacheInv
  <2>3. \A r : Contains(left, r) => r # s /\ Contains(cache, r)
    BY <2>2 DEF Contains, Inv, CacheInv
  <2>4. \A t \in Streams : Over(t)' <=> Over(t)
    BY <1>2 DEF Over
  <2> QED
    BY <1>1, <2>1, <2>2, <2>3, <2>4 DEF Inv, CacheInv
<1>6. JobsInv(s)'
  BY <1>1, <1>2, <1>3 DEF StreamInv, JobsInv, Job
<1>7. ControlInv(s)' /\ GeneratorInv(s)' /\ OrderInv(s)'
  BY <1>1, <1>2
     DEF StreamInv, ControlInv, GeneratorInv, OrderInv, Listening, Drafting, Actors
<1> QED
  BY <1>2, <1>3, <1>4, <1>5, <1>6, <1>7, OthersKeepInv DEF StreamInv

\* Only the pool moves.
LEMMA PoolStepPreservesInv ==
  ASSUME Inv, PoolInv', \A j : Unfinished(j)' => Unfinished(j),
         UNCHANGED transformers
  PROVE  Inv'
<1>1. UNCHANGED <<parent, consumer, thread, text, ended, made, received, generator,
                  cache, cleared>>
  BY DEF transformers, coroutine, streamer, generation, caching
<1>2. Typed' /\ CacheInv'
  BY <1>1, CacheUntouched DEF Inv, Typed, Over
<1>3. ASSUME NEW s \in Streams PROVE StreamInv(s)'
  <2>1. StreamInv(s)
    BY DEF Inv
  <2>2. JobsInv(s)'
    BY <1>1, <2>1 DEF StreamInv, JobsInv, Job
  <2>3. ControlInv(s)' /\ GeneratorInv(s)' /\ OrderInv(s)'
    BY <1>1, <2>1
       DEF StreamInv, ControlInv, GeneratorInv, OrderInv, Listening, Drafting, Actors
  <2> QED
    BY <2>2, <2>3 DEF StreamInv
<1> QED
  BY <1>2, <1>3 DEF Inv

LEMMA StepPreservesInv ==
  ASSUME Inv, [Next]_vars
  PROVE  Inv'
<1>1. ASSUME NEW s \in Streams, Begin(s) PROVE Inv'
  BY <1>1, BeginPreservesInv
<1>2. ASSUME NEW s \in Streams, BeginPrefill(s) PROVE Inv'
  BY <1>2, BeginPrefillPreservesInv
<1>3. ASSUME NEW s \in Streams, Resume(s) PROVE Inv'
  BY <1>3, ResumePreservesInv
<1>4. ASSUME NEW s \in Streams, Return(s) PROVE Inv'
  BY <1>4, ReturnPreservesInv
<1>5. ASSUME NEW s \in Streams, Leave(s) PROVE Inv'
  BY <1>5, LeavePreservesInv
<1>6. ASSUME NEW s \in Streams, LeaveAwait(s) PROVE Inv'
  BY <1>6, LeaveAwaitPreservesInv
<1>7. ASSUME NEW s \in Streams, Coroutine(s) PROVE Inv'
  BY <1>7, SeeGeneratedPreservesInv, JoinPreservesInv, ClosePreservesInv DEF Coroutine
<1>8. ASSUME NEW s \in Streams, Prefill(s) PROVE Inv'
  BY <1>8, PrefilledPreservesInv, PrefillFailsPreservesInv DEF Prefill
<1>9. ASSUME NEW s \in Streams, Receive(s) PROVE Inv'
  BY <1>9, ReceivePreservesInv
<1>10. ASSUME NEW s \in Streams, Generation(s) PROVE Inv'
  BY <1>10, StartGenerationPreservesInv, GeneratePreservesInv,
     EndGenerationPreservesInv, EndThreadPreservesInv DEF Generation
<1>11. ASSUME NEW s \in Streams, ClearPrefix(s) PROVE Inv'
  BY <1>11, ClearPrefixPreservesInv
<1>12. CASE TakeJob /\ UNCHANGED transformers
  BY <1>12, TakeJobFacts, PoolStepPreservesInv DEF Inv
<1>13. CASE UNCHANGED vars
  BY <1>13, IdlePoolFacts, PoolStepPreservesInv DEF Inv, vars
<1> QED
  BY <1>1, <1>2, <1>3, <1>4, <1>5, <1>6, <1>7, <1>8, <1>9, <1>10, <1>11, <1>12,
     <1>13 DEF Next

\* The invariant that the theorems rest on.
LEMMA Invariant == Spec => []Inv
<1>1. Init => Inv
  BY InitEstablishesInv
<1>2. Inv /\ [Next]_vars => Inv'
  BY StepPreservesInv
<1> QED
  BY <1>1, <1>2, PTL DEF Spec

-----------------------------------------------------------------------------
(***************************************************************************)
(* The theorems                                                            *)
(***************************************************************************)
\* Whatever the interleaving of the consumer, the two tasks and the thread, a
\* consumer of TransformersEngine.stream gets its own chunks in order, and all of
\* them before the last one.
THEOREM ChunksAreInOrder == Spec => []ChunksInOrder
<1>1. Inv => ChunksInOrder
  <2> SUFFICES ASSUME Inv, NEW s \in Streams
               PROVE  /\ received[s] = [k \in 1..Len(received[s]) |-> k]
                      /\ consumer[s] \in {"last", "returned"} =>
                           Len(received[s]) = made[s]
    BY DEF ChunksInOrder
  <2>1. /\ received[s] \in Seq(Nat)
        /\ \A k \in 1..Len(received[s]) : received[s][k] = k
        /\ consumer[s] \in {"last", "returned"} => Len(received[s]) = made[s]
    BY DEF Inv, Typed, StreamInv, OrderInv
  <2> QED
    BY <2>1
<1> QED
  BY <1>1, Invariant, PTL

\* When a stream has returned, failed, or been left or cancelled at an await of its
\* loop, its thread has left generate() and no worker is left in a get of it.
THEOREM NothingIsLeftRunning == Spec => []NothingRunsOn
<1>1. Inv => NothingRunsOn
  BY DEF Inv, StreamInv, ControlInv, JobsInv, Unfinished, NothingRunsOn, Over
<1> QED
  BY <1>1, Invariant, PTL

\* The lock around the model's candidate generator keeps the generations that take
\* drafts apart, however many there are.
THEOREM CandidatesAreOwn == Spec => []OwnCandidates
<1>1. Inv => OwnCandidates
  BY DEF Inv, StreamInv, GeneratorInv, OwnCandidates, Drafting, Actors
<1> QED
  BY <1>1, Invariant, PTL

\* Neither a prefix that was still being computed nor a fork's read brings a
\* cleared request back into the cache, however small it is.
THEOREM ClearingIsFinal == Spec => []ClearedPrefixesStayCleared
<1>1. Inv => ClearedPrefixesStayCleared
  BY DEF Inv, CacheInv, ClearedPrefixesStayCleared
<1> QED
  BY <1>1, Invariant, PTL
=============================================================================
