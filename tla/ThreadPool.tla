------------------------------ MODULE ThreadPool ------------------------------
(***************************************************************************)
(* The event loop's default executor, as asyncio.to_thread uses it: a      *)
(* fixed number of worker threads and a FIFO queue of jobs. A job is given *)
(* to the executor when the coroutine that awaits to_thread reaches it, or *)
(* when the task that wraps it gets its first turn. (External: the Python  *)
(* standard library.)                                                      *)
(***************************************************************************)
EXTENDS Integers, FiniteSets, Sequences, SequencesExt

CONSTANT Workers      (* number of worker threads *)

ASSUME WorkersAssumption == Workers \in Nat \ {0}

VARIABLES
  queued,    (* the jobs that no worker has taken yet, oldest first *)
  running    (* the jobs the workers are at                         *)

pool == <<queued, running>>

Job(stream, role) == [stream |-> stream, role |-> role]

PoolInit == queued = <<>> /\ running = {}

Submit(jobs) == queued' = queued \o jobs /\ UNCHANGED running

Unfinished(job) == job \in running \/ Contains(queued, job)

\* A worker that is free takes the oldest job.
TakeJob ==
  /\ queued # <<>>
  /\ Cardinality(running) < Workers
  /\ running' = running \cup {Head(queued)}
  /\ queued' = Tail(queued)

\* The job ends; `jobs` are submitted in the same turn of the event loop.
Finish(job, jobs) ==
  /\ job \in running
  /\ running' = running \ {job}
  /\ queued' = queued \o jobs

\* Cancelling the future of a job takes it out of the queue (no job is there twice);
\* once a worker is at it, it goes on.
Cancel(job) ==
  /\ queued' = RemoveFirst(queued, job)
  /\ UNCHANGED running
=============================================================================
