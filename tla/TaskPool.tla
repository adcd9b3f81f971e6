------------------------------ MODULE TaskPool ------------------------------
(***************************************************************************)
(* What a pool of worker threads promises to the code that submits jobs to *)
(* it, with no lock, no condition variable and no wakeup in sight:         *)
(*                                                                         *)
(*   - a job is started at most once, and jobs are started in the order    *)
(*     in which they were submitted;                                       *)
(*   - a job that was submitted is queued, running or done, never lost;    *)
(*   - a worker leaves the pool only after the pool was closed, and only   *)
(*     at a moment when nothing is queued.                                 *)
(*                                                                         *)
(* ThreadEnvironment and HttpPool are shown to implement this module.      *)
(***************************************************************************)
EXTENDS Sequences

CONSTANTS Jobs,     \* the callables submitted over the life of the pool
          Workers,  \* the threads of the pool
          NoJob     \* "this worker runs nothing"

VARIABLES queue,    \* submitted and not started, oldest first
          current,  \* what each worker runs
          done,     \* jobs that ran to completion
          closed,   \* no worker may wait for jobs any more
          retired   \* workers that have left the pool

vars == <<queue, current, done, closed, retired>>

\* A job that was ever submitted.
Submitted(j) ==
  \/ \E i \in DOMAIN queue : queue[i] = j
  \/ \E w \in Workers : current[w] = j
  \/ j \in done

Init ==
  /\ queue = <<>>
  /\ current = [w \in Workers |-> NoJob]
  /\ done = {}
  /\ closed = FALSE
  /\ retired = {}

Submit(j) ==
  /\ ~Submitted(j)
  /\ queue' = Append(queue, j)
  /\ UNCHANGED <<current, done, closed, retired>>

Start(w) ==
  /\ w \notin retired
  /\ current[w] = NoJob
  /\ queue # <<>>
  /\ current' = [current EXCEPT ![w] = Head(queue)]
  /\ queue' = Tail(queue)
  /\ UNCHANGED <<done, closed, retired>>

Finish(w) ==
  /\ current[w] # NoJob
  /\ done' = done \cup {current[w]}
  /\ current' = [current EXCEPT ![w] = NoJob]
  /\ UNCHANGED <<queue, closed, retired>>

Close ==
  /\ closed' = TRUE
  /\ UNCHANGED <<queue, current, done, retired>>

Retire(w) ==
  /\ closed
  /\ queue = <<>>
  /\ current[w] = NoJob
  /\ retired' = retired \cup {w}
  /\ UNCHANGED <<queue, current, done, closed>>

Next ==
  \/ \E j \in Jobs : Submit(j)
  \/ \E w \in Workers : Start(w) \/ Finish(w) \/ Retire(w)
  \/ Close

Spec == Init /\ [][Next]_vars

=============================================================================
