------------------------------ MODULE HttpPool ------------------------------
(***************************************************************************)
(* The thread pool that httplib::Server makes for itself (httplib.h,       *)
(* ThreadPool): some threads for its whole life and, under load, threads   *)
(* that are added by enqueue and leave after a time without work.  One     *)
(* thread, the listener, calls enqueue and in the end shutdown.            *)
(*                                                                         *)
(* Unlike ThreadEnvironment it counts the threads that wait, to decide     *)
(* whether to add one, and it keeps threads in three lists, of which those *)
(* that time out change from one to another.  The queue is unbounded       *)
(* (max_queued_requests_ is 0).  As there, one critical section of mutex_  *)
(* is one action.                                                          *)
(***************************************************************************)
EXTENDS Naturals, Sequences, FiniteSets

CONSTANTS
  Jobs,     \* the jobs that are handed to enqueue, each once
  Base,     \* threads_, started by the constructor
  Dynamic,  \* room for dynamic_threads_: max_thread_count_ less Base
  NoJob     \* the empty std::function

ASSUME HttpPoolAssumption ==
  /\ IsFiniteSet(Base) /\ Base # {}
  /\ IsFiniteSet(Dynamic)
  /\ Base \cap Dynamic = {}
  /\ NoJob \notin Jobs

VARIABLES
  jobs,      \* jobs_
  shutdown,  \* shutdown_
  idle,      \* idle_thread_count_
  tpc,       \* where each thread is in worker()
  fn,        \* its local variable fn
  owner,     \* where the listener is in enqueue or shutdown
  finished   \* history: the jobs that returned

poolVars == <<jobs, shutdown, idle, tpc, fn, owner, finished>>

Threads  == Base \cup Dynamic
Asleep   == {t \in Threads : tpc[t] = "wait"}
Counted  == {t \in Threads : tpc[t] \in {"wait", "awake", "expired"}}
\* dynamic_threads_ and finished_threads_; the rest of Dynamic is room.
Spawned  == {t \in Dynamic : tpc[t] \notin {"none", "finished"}}
Ready    == jobs # <<>> \/ shutdown

PoolInit ==
  /\ jobs = <<>>
  /\ shutdown = FALSE
  /\ idle = 0
  /\ tpc = [t \in Threads |-> IF t \in Base THEN "loop" ELSE "none"]
  /\ fn = [t \in Threads |-> NoJob]
  /\ owner = "ready"
  /\ finished = {}

-----------------------------------------------------------------------------
(***************************************************************************)
(* enqueue, under the mutex: queue the job, and if no thread is idle and   *)
(* there is room, join the threads that finished and start another.        *)
(***************************************************************************)
Spawns == idle = 0 /\ Spawned # Dynamic

Enqueue(j) ==
  /\ owner = "ready"
  /\ ~shutdown
  /\ jobs' = Append(jobs, j)
  /\ IF Spawns
     THEN \E d \in Dynamic \ Spawned :
            tpc' = [t \in Threads |-> IF t = d THEN "loop"
                                      ELSE IF tpc[t] = "finished" THEN "none" ELSE tpc[t]]
     ELSE UNCHANGED tpc
  /\ owner' = "notify"
  /\ UNCHANGED <<shutdown, idle, fn, finished>>

\* notify_one, after the mutex was released.
NotifyOne ==
  /\ owner = "notify"
  /\ \/ \E t \in Asleep : tpc' = [tpc EXCEPT ![t] = "awake"]
     \/ Asleep = {} /\ UNCHANGED tpc
  /\ owner' = "ready"
  /\ UNCHANGED <<jobs, shutdown, idle, fn, finished>>

-----------------------------------------------------------------------------
(***************************************************************************)
(* worker(): a thread that enters its critical section counts itself idle, *)
(* looks at the predicate and, unless it sleeps, uncounts itself again.    *)
(***************************************************************************)
Idle(t) == IF tpc[t] = "loop" THEN idle + 1 ELSE idle

Awake(t) == tpc[t] \in {"loop", "awake", "expired"}

Sleep(t) ==
  /\ tpc[t] \in {"loop", "awake"}
  /\ ~Ready
  /\ idle' = Idle(t)
  /\ tpc' = [tpc EXCEPT ![t] = "wait"]
  /\ UNCHANGED <<jobs, shutdown, fn, owner, finished>>

\* wait_for wakes up by itself: the time is over, or for no reason at all.
Timeout(t) ==
  /\ tpc[t] = "wait"
  /\ \/ t \in Dynamic /\ tpc' = [tpc EXCEPT ![t] = "expired"]
     \/ tpc' = [tpc EXCEPT ![t] = "awake"]
  /\ UNCHANGED <<jobs, shutdown, idle, fn, owner, finished>>

\* Mutant: a thread that times out leaves without uncounting itself.
RetireCounted(t) ==
  /\ tpc[t] = "expired"
  /\ ~Ready
  /\ tpc' = [tpc EXCEPT ![t] = "finished"]
  /\ UNCHANGED <<jobs, shutdown, idle, fn, owner, finished>>

\* Timed out with no work: a dynamic thread moves itself to finished_threads_.
Retire(t) ==
  /\ tpc[t] = "expired"
  /\ ~Ready
  /\ idle' = idle - 1
  /\ tpc' = [tpc EXCEPT ![t] = "finished"]
  /\ UNCHANGED <<jobs, shutdown, fn, owner, finished>>

\* Mutant: a thread leaves as soon as it sees the flag.
LeaveAtOnce(t) ==
  /\ Awake(t)
  /\ shutdown
  /\ idle' = Idle(t) - 1
  /\ tpc' = [tpc EXCEPT ![t] = "exit"]
  /\ UNCHANGED <<jobs, shutdown, fn, owner, finished>>

Leave(t) ==
  /\ Awake(t)
  /\ shutdown /\ jobs = <<>>
  /\ idle' = Idle(t) - 1
  /\ tpc' = [tpc EXCEPT ![t] = "exit"]
  /\ UNCHANGED <<jobs, shutdown, fn, owner, finished>>

\* Mutant: front() without pop_front().
TakePeek(t) ==
  /\ Awake(t)
  /\ jobs # <<>>
  /\ idle' = Idle(t) - 1
  /\ fn' = [fn EXCEPT ![t] = Head(jobs)]
  /\ tpc' = [tpc EXCEPT ![t] = "run"]
  /\ UNCHANGED <<jobs, shutdown, owner, finished>>

Take(t) ==
  /\ Awake(t)
  /\ jobs # <<>>
  /\ idle' = Idle(t) - 1
  /\ fn' = [fn EXCEPT ![t] = Head(jobs)]
  /\ jobs' = Tail(jobs)
  /\ tpc' = [tpc EXCEPT ![t] = "run"]
  /\ UNCHANGED <<shutdown, owner, finished>>

Return(t) ==
  /\ tpc[t] = "run"
  /\ finished' = finished \cup {fn[t]}
  /\ fn' = [fn EXCEPT ![t] = NoJob]
  /\ tpc' = [tpc EXCEPT ![t] = "loop"]
  /\ UNCHANGED <<jobs, shutdown, idle, owner>>

-----------------------------------------------------------------------------
(***************************************************************************)
(* shutdown(): set the flag, wake everyone, join threads_, then what is in *)
(* dynamic_threads_, then what is in finished_threads_.                    *)
(***************************************************************************)
SetShutdown ==
  /\ owner = "ready"
  /\ shutdown' = TRUE
  /\ owner' = "wake"
  /\ UNCHANGED <<jobs, idle, tpc, fn, finished>>

NotifyAll ==
  /\ owner = "wake"
  /\ tpc' = [t \in Threads |-> IF t \in Asleep THEN "awake" ELSE tpc[t]]
  /\ owner' = "join"
  /\ UNCHANGED <<jobs, shutdown, idle, fn, finished>>

JoinBase ==
  /\ owner = "join"
  /\ \A t \in Base : tpc[t] = "exit"
  /\ owner' = "collect"
  /\ UNCHANGED <<jobs, shutdown, idle, tpc, fn, finished>>

\* No thread times out any more, so the two lists stay what they are.
JoinDynamic ==
  /\ owner = "collect"
  /\ \A t \in Spawned : tpc[t] = "exit"
  /\ tpc' = [t \in Threads |-> IF tpc[t] = "finished" THEN "none" ELSE tpc[t]]
  /\ owner' = "down"
  /\ UNCHANGED <<jobs, shutdown, idle, fn, finished>>

=============================================================================
