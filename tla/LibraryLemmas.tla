---------------------------- MODULE LibraryLemmas -----------------------------
(***************************************************************************)
(* Facts that the proofs of several components rest on: what Min and Max   *)
(* pick, what RemoveFirst leaves, and how jobs go through a thread pool.   *)
(***************************************************************************)
EXTENDS Integers, FiniteSetsExt, SequencesExt, SequenceTheorems,
        WellFoundedInduction, TLAPS

\* A nonempty set of naturals has a smallest element, which Min picks.
LEMMA MinOfNaturals ==
  ASSUME NEW S \in SUBSET Nat, S # {}
  PROVE  /\ Min(S) \in S
         /\ \A n \in S : Min(S) <= n
<1>1. \E m \in S : \A n \in S : <<n, m>> \notin OpToRel(<, Nat)
  BY NatLessThanWellFounded, WFMin
<1>2. ASSUME NEW m \in Nat, NEW n \in Nat, n < m
      PROVE  <<n, m>> \in OpToRel(<, Nat)
  <2>1. OpToRel(<, Nat) = {p \in Nat \X Nat : p[1] < p[2]}
    BY DEF OpToRel
  <2> QED
    BY <1>2, <2>1
<1>3. PICK m \in S : \A n \in S : ~(n < m)
  BY <1>1, <1>2, S \subseteq Nat, Zenon
<1>4. \A n \in S : m <= n
  BY <1>3
<1> QED
  BY <1>4 DEF Min

\* A nonempty bounded set of naturals has a largest element, which Max picks.
LEMMA MaxOfNaturals ==
  ASSUME NEW S \in SUBSET Nat, S # {}, NEW b \in Nat, \A n \in S : n <= b
  PROVE  /\ Max(S) \in S
         /\ \A n \in S : n <= Max(S)
<1> DEFINE Distance == {d \in 0..b : b - d \in S}
<1>1. Distance # {}
  <2>1. PICK n \in S : TRUE
    OBVIOUS
  <2>2. b - n \in Distance
    BY <2>1
  <2> QED
    BY <2>2
<1>2. Min(Distance) \in Distance /\ \A d \in Distance : Min(Distance) <= d
  BY <1>1, MinOfNaturals
<1>3. PICK d \in Distance : \A e \in Distance : d <= e
  BY <1>2
<1>4. \A n \in S : b - n \in Distance
  OBVIOUS
<1>5. b - d \in S /\ \A n \in S : n <= b - d
  BY <1>3, <1>4
<1> QED
  BY <1>5 DEF Max

\* Removing an element that occurs at most once leaves a distinct sequence
\* without it.
LEMMA RemoveFirstFacts ==
  ASSUME NEW S, NEW t \in Seq(S), NEW e \in S,
         \A i, j \in DOMAIN t : t[i] = t[j] => i = j,
         NEW u, u = RemoveFirst(t, e)
  PROVE  /\ u \in Seq(S)
         /\ Len(u) <= Len(t)
         /\ \A i \in DOMAIN u : u[i] # e /\ \E k \in DOMAIN t : t[k] = u[i]
         /\ \A i, j \in DOMAIN u : u[i] = u[j] => i = j
<1>1. CASE ~\E i \in 1..Len(t) : t[i] = e
  <2>1. u = t
    BY <1>1 DEF RemoveFirst
  <2> QED
    BY <1>1, <2>1
<1>2. CASE \E i \in 1..Len(t) : t[i] = e
  <2> DEFINE I == {i \in 1..Len(t) : t[i] = e}
  <2>1. I # {} /\ I \in SUBSET Nat
    BY <1>2
  <2>2. Min(I) \in I
    BY <2>1, MinOfNaturals
  <2>3. SelectInSeq(t, LAMBDA v : v = e) = Min(I)
    BY <2>1 DEF SelectInSeq
  <2>4. PICK p \in I : p = Min(I)
    BY <2>2
  <2>5. u = SubSeq(t, 1, p - 1) \o SubSeq(t, p + 1, Len(t))
    BY <1>2, <2>3, <2>4 DEF RemoveFirst, RemoveAt
  <2>6. p \in 1..Len(t) /\ t[p] = e /\ Len(t) \in Nat
    OBVIOUS
  <2> DEFINE left == SubSeq(t, 1, p - 1)
             right == SubSeq(t, p + 1, Len(t))
  <2>7. /\ left \in Seq(S) /\ Len(left) = p - 1
        /\ \A i \in 1..(p - 1) : left[i] = t[i]
    BY <2>6
  <2>8. /\ right \in Seq(S) /\ Len(right) = Len(t) - p
        /\ \A i \in 1..(Len(t) - p) : right[i] = t[p + i]
    BY <2>6
  <2> HIDE DEF left, right
  <2>9. /\ u \in Seq(S) /\ Len(u) = Len(t) - 1
        /\ \A i \in 1..(Len(t) - 1) :
             u[i] = IF i <= p - 1 THEN left[i] ELSE right[i - (p - 1)]
    <3>1. u = left \o right
      BY <2>5 DEF left, right
    <3>2. /\ left \o right \in Seq(S)
          /\ Len(left \o right) = Len(left) + Len(right)
          /\ \A i \in 1..(Len(left) + Len(right)) :
               (left \o right)[i] = IF i <= Len(left) THEN left[i]
                                                     ELSE right[i - Len(left)]
      <4>1. left \in Seq(S) /\ right \in Seq(S)
        BY <2>7, <2>8
      <4> QED
        BY <4>1, ConcatProperties, ZenonT(60)
    <3>3. Len(left) + Len(right) = Len(t) - 1
      BY <2>6, <2>7, <2>8
    <3> QED
      BY <2>7, <3>1, <3>2, <3>3
  <2>10. \A i \in 1..(Len(t) - 1) : u[i] = t[IF i < p THEN i ELSE i + 1]
    BY <2>6, <2>7, <2>8, <2>9
  <2>11. DOMAIN u = 1..(Len(t) - 1)
    BY <2>9
  <2>12. ASSUME NEW i \in DOMAIN u
         PROVE  u[i] # e /\ \E k \in DOMAIN t : t[k] = u[i]
    BY <2>6, <2>10, <2>11
  <2>13. ASSUME NEW i \in DOMAIN u, NEW j \in DOMAIN u, u[i] = u[j]
         PROVE  i = j
    <3> DEFINE old(n) == IF n < p THEN n ELSE n + 1
    <3>1. old(i) \in DOMAIN t /\ old(j) \in DOMAIN t
      BY <2>6, <2>11
    <3>2. t[old(i)] = t[old(j)]
      BY <2>10, <2>11, <2>13
    <3>3. old(i) = old(j)
      BY <3>1, <3>2
    <3> QED
      BY <2>6, <2>11, <3>3
  <2> QED
    BY <2>6, <2>9, <2>12, <2>13
<1> QED
  BY <1>1, <1>2

-----------------------------------------------------------------------------
(***************************************************************************)
(* A pool: a queue of jobs, and the jobs that are being worked at          *)
(***************************************************************************)
\* No job is there twice.
Orderly(jobs, queue, working) ==
  /\ queue \in Seq(jobs)
  /\ working \subseteq jobs
  /\ \A i, j \in DOMAIN queue : queue[i] = queue[j] => i = j
  /\ \A job \in working : ~Contains(queue, job)

\* A job that is new to the pool can be appended to the queue.
LEMMA JobQueued ==
  ASSUME NEW jobs, NEW queue, NEW working, Orderly(jobs, queue, working),
         NEW job \in jobs, job \notin working, ~Contains(queue, job),
         NEW after, after = queue \o <<job>>
  PROVE  /\ Orderly(jobs, after, working)
         /\ \A k : Contains(after, k) <=> (Contains(queue, k) \/ k = job)
<1>1. /\ after \in Seq(jobs) /\ Len(after) = Len(queue) + 1
      /\ DOMAIN after = 1..(Len(queue) + 1) /\ DOMAIN queue = 1..Len(queue)
      /\ Len(queue) \in Nat
      /\ after[Len(queue) + 1] = job
      /\ \A i \in 1..Len(queue) : after[i] = queue[i]
  BY DEF Orderly
<1>2. \A i, j \in DOMAIN after : after[i] = after[j] => i = j
  BY <1>1 DEF Orderly, Contains
<1>3. \A k : Contains(after, k) <=> (Contains(queue, k) \/ k = job)
  BY <1>1 DEF Contains
<1> QED
  BY <1>1, <1>2, <1>3 DEF Orderly

\* A job that ends is gone, and the queue is left alone.
LEMMA JobEnded ==
  ASSUME NEW jobs, NEW queue, NEW working, Orderly(jobs, queue, working),
         NEW job
  PROVE  Orderly(jobs, queue, working \ {job})
  BY DEF Orderly

\* The oldest job is taken up.
LEMMA JobTaken ==
  ASSUME NEW jobs, NEW queue, NEW working, Orderly(jobs, queue, working),
         queue # <<>>
  PROVE  /\ Orderly(jobs, Tail(queue), working \cup {Head(queue)})
         /\ Contains(queue, Head(queue))
         /\ \A k : Contains(Tail(queue), k) => Contains(queue, k)
<1>1. PICK rest : rest = Tail(queue)
  OBVIOUS
<1>2. /\ Len(queue) \in Nat /\ Len(queue) > 0 /\ rest \in Seq(jobs)
      /\ DOMAIN queue = 1..Len(queue) /\ DOMAIN rest = 1..(Len(queue) - 1)
      /\ Len(rest) = Len(queue) - 1
      /\ \A i \in 1..(Len(queue) - 1) : rest[i] = queue[i + 1]
      /\ Head(queue) = queue[1] /\ queue[1] \in jobs
  BY <1>1 DEF Orderly
<1>3. \A i \in DOMAIN rest : i + 1 \in DOMAIN queue /\ i + 1 # 1
  BY <1>2
<1>4. \A i, j \in DOMAIN rest : rest[i] = rest[j] => i = j
  <2> SUFFICES ASSUME NEW i \in DOMAIN rest, NEW j \in DOMAIN rest,
                      rest[i] = rest[j]
               PROVE  i = j
    OBVIOUS
  <2>1. i + 1 = j + 1
    BY <1>2, <1>3 DEF Orderly
  <2> QED
    BY <1>2, <2>1
<1>5. \A k : Contains(rest, k) => Contains(queue, k) /\ k # Head(queue)
  BY <1>2, <1>3 DEF Contains, Orderly
<1>6. Contains(queue, Head(queue))
  BY <1>2 DEF Contains
<1> QED
  BY <1>1, <1>2, <1>4, <1>5, <1>6 DEF Orderly

\* A job is taken out of the queue.
LEMMA JobCancelled ==
  ASSUME NEW jobs, NEW queue, NEW working, Orderly(jobs, queue, working),
         NEW job \in jobs, NEW after, after = RemoveFirst(queue, job)
  PROVE  /\ Orderly(jobs, after, working)
         /\ \A k : Contains(after, k) => Contains(queue, k) /\ k # job
<1>1. /\ after \in Seq(jobs)
      /\ \A i \in DOMAIN after :
           after[i] # job /\ \E k \in DOMAIN queue : queue[k] = after[i]
      /\ \A i, j \in DOMAIN after : after[i] = after[j] => i = j
  BY RemoveFirstFacts DEF Orderly
<1>2. /\ DOMAIN after = 1..Len(after) /\ DOMAIN queue = 1..Len(queue)
  BY <1>1 DEF Orderly
<1>3. \A k : Contains(after, k) => Contains(queue, k) /\ k # job
  BY <1>1, <1>2 DEF Contains
<1> QED
  BY <1>1, <1>3 DEF Orderly
===============================================================================
