-------------------------- MODULE ThreadEnvironment --------------------------
(***************************************************************************)
(* The worker pool of src/core/Classes/ThreadEnvironment.hpp: a queue of   *)
(* callables, a mutex, a condition variable, a stop flag and num_threads   *)
(* worker threads.  oflib::Server runs one job per accepted switch on such *)
(* a pool, and the northbound interface one job per accepted event.        *)
(*                                                                         *)
(* Every critical section of mtx touches shared state once, so each is one *)
(* action; what lies outside the lock (the two notifications, the call of  *)
(* the task, the joins) is an action of its own.  Waiting on the condition *)
(* variable releases the mutex in the same step, and a thread that was     *)
(* woken has to acquire the mutex and evaluate the predicate again.        *)
(***************************************************************************)
EXTENDS Naturals, Sequences, FiniteSets

CONSTANTS Jobs,      \* the callables handed to enqueue, one per call
          Throwing,  \* those whose call ends in an exception
          Workers,   \* the num_threads worker threads
          NoJob      \* the empty std::function

ASSUME JobsAssumption == IsFiniteSet(Jobs) /\ Throwing \subseteq Jobs
ASSUME WorkersAssumption == IsFiniteSet(Workers) /\ Workers # {}
ASSUME NoJobAssumption == NoJob \notin Jobs

VARIABLES
  tasks,     \* the queue of callables
  stop,      \* the stop flag
  call,      \* call[j]: how far the enqueue of j has come
  wpc,       \* where each worker is in its loop
  task,      \* the worker's local variable task
  dpc,       \* where the destructor is
  done,      \* jobs whose call returned
  early,     \* history: jobs put in the queue before stop was set
  aborted    \* std::terminate was called

vars == <<tasks, stop, call, wpc, task, dpc, done, early, aborted>>

Waiting   == {w \in Workers : wpc[w] = "wait"}
Acquiring == {w \in Workers : wpc[w] = "acquire"}
Exited    == {w \in Workers : wpc[w] = "exit"}
Notifying == {j \in Jobs : call[j] = "notify"}

-----------------------------------------------------------------------------
(* The constructor starts the workers; each begins by taking the mutex.    *)

Init ==
  /\ tasks = <<>>
  /\ stop = FALSE
  /\ call = [j \in Jobs |-> "new"]
  /\ wpc = [w \in Workers |-> "acquire"]
  /\ task = [w \in Workers |-> NoJob]
  /\ dpc = "alive"
  /\ done = {}
  /\ early = {}
  /\ aborted = FALSE

\* Mutant: the task is queued and nobody is told.
EnqueueSilently(j) ==
  /\ call[j] = "new"
  /\ dpc # "destroyed"
  /\ tasks' = Append(tasks, j)
  /\ call' = [call EXCEPT ![j] = "returned"]
  /\ early' = IF stop THEN early ELSE early \cup {j}
  /\ UNCHANGED <<stop, wpc, task, dpc, done, aborted>>

(***************************************************************************)
(* enqueue: the task is put in the queue under the lock, the notification  *)
(* is sent after the lock was released.  The stop flag is not looked at.   *)
(***************************************************************************)
Enqueue(j) ==
  /\ call[j] = "new"
  /\ dpc # "destroyed"
  /\ tasks' = Append(tasks, j)
  /\ call' = [call EXCEPT ![j] = "notify"]
  /\ early' = IF stop THEN early ELSE early \cup {j}
  /\ UNCHANGED <<stop, wpc, task, dpc, done, aborted>>

NotifyOne(j) ==
  /\ call[j] = "notify"
  /\ call' = [call EXCEPT ![j] = "returned"]
  /\ \/ \E w \in Waiting : wpc' = [wpc EXCEPT ![w] = "acquire"]
     \/ Waiting = {} /\ UNCHANGED wpc
  /\ UNCHANGED <<tasks, stop, task, dpc, done, early, aborted>>

-----------------------------------------------------------------------------
(***************************************************************************)
(* One critical section of a worker: wait(lock, pred) evaluates the        *)
(* predicate; if it holds the worker leaves or takes the oldest task, and  *)
(* if not it goes to sleep.                                                *)
(***************************************************************************)
Sleep(w) ==
  /\ wpc[w] = "acquire"
  /\ ~(stop \/ tasks # <<>>)
  /\ wpc' = [wpc EXCEPT ![w] = "wait"]
  /\ UNCHANGED <<tasks, stop, call, task, dpc, done, early, aborted>>

\* Mutant: the worker leaves as soon as it sees stop.
LeaveAtOnce(w) ==
  /\ wpc[w] = "acquire"
  /\ stop
  /\ wpc' = [wpc EXCEPT ![w] = "exit"]
  /\ UNCHANGED <<tasks, stop, call, task, dpc, done, early, aborted>>

Leave(w) ==
  /\ wpc[w] = "acquire"
  /\ stop /\ tasks = <<>>
  /\ wpc' = [wpc EXCEPT ![w] = "exit"]
  /\ UNCHANGED <<tasks, stop, call, task, dpc, done, early, aborted>>

\* Mutant: front() without pop().
TakePeek(w) ==
  /\ wpc[w] = "acquire"
  /\ tasks # <<>>
  /\ task' = [task EXCEPT ![w] = Head(tasks)]
  /\ wpc' = [wpc EXCEPT ![w] = "run"]
  /\ UNCHANGED <<tasks, stop, call, dpc, done, early, aborted>>

Take(w) ==
  /\ wpc[w] = "acquire"
  /\ tasks # <<>>
  /\ task' = [task EXCEPT ![w] = Head(tasks)]
  /\ tasks' = Tail(tasks)
  /\ wpc' = [wpc EXCEPT ![w] = "run"]
  /\ UNCHANGED <<stop, call, dpc, done, early, aborted>>

\* A condition variable may wake a waiter that nobody notified.
SpuriousWakeup(w) ==
  /\ wpc[w] = "wait"
  /\ wpc' = [wpc EXCEPT ![w] = "acquire"]
  /\ UNCHANGED <<tasks, stop, call, task, dpc, done, early, aborted>>

\* Mutant: task is declared outside the loop and keeps the last callable.
ReturnKeeps(w) ==
  /\ wpc[w] = "run"
  /\ task[w] \notin Throwing
  /\ done' = done \cup {task[w]}
  /\ wpc' = [wpc EXCEPT ![w] = "acquire"]
  /\ UNCHANGED <<tasks, stop, call, task, dpc, early, aborted>>

\* task() returns and the local variable goes out of scope.
Return(w) ==
  /\ wpc[w] = "run"
  /\ task[w] \notin Throwing
  /\ done' = done \cup {task[w]}
  /\ task' = [task EXCEPT ![w] = NoJob]
  /\ wpc' = [wpc EXCEPT ![w] = "acquire"]
  /\ UNCHANGED <<tasks, stop, call, dpc, early, aborted>>

\* Nothing catches what task() throws: the process ends.
Throw(w) ==
  /\ wpc[w] = "run"
  /\ task[w] \in Throwing
  /\ aborted' = TRUE
  /\ UNCHANGED <<tasks, stop, call, wpc, task, dpc, done, early>>

-----------------------------------------------------------------------------
(* The destructor: stop is set under the lock, everyone is woken, joined.  *)

SetStop ==
  /\ dpc = "alive"
  /\ stop' = TRUE
  /\ dpc' = "notify"
  /\ UNCHANGED <<tasks, call, wpc, task, done, early, aborted>>

\* Mutant: notify_one in the place of notify_all.
NotifyAny ==
  /\ dpc = "notify"
  /\ \/ \E v \in Waiting : wpc' = [wpc EXCEPT ![v] = "acquire"]
     \/ Waiting = {} /\ UNCHANGED wpc
  /\ dpc' = "join"
  /\ UNCHANGED <<tasks, stop, call, task, done, early, aborted>>

NotifyAll ==
  /\ dpc = "notify"
  /\ wpc' = [w \in Workers |-> IF w \in Waiting THEN "acquire" ELSE wpc[w]]
  /\ dpc' = "join"
  /\ UNCHANGED <<tasks, stop, call, task, done, early, aborted>>

\* Mutant: the destructor does not wait for the workers.
JoinNobody ==
  /\ dpc = "join"
  /\ dpc' = "destroyed"
  /\ UNCHANGED <<tasks, stop, call, wpc, task, done, early, aborted>>

Join ==
  /\ dpc = "join"
  /\ Exited = Workers
  /\ dpc' = "destroyed"
  /\ UNCHANGED <<tasks, stop, call, wpc, task, done, early, aborted>>

-----------------------------------------------------------------------------
CriticalSection(w) == Sleep(w) \/ Leave(w) \/ Take(w)

Worker(w) == CriticalSection(w) \/ Return(w) \/ Throw(w)

Step ==
  \/ \E j \in Jobs : Enqueue(j) \/ NotifyOne(j)
  \/ \E w \in Workers : Worker(w) \/ SpuriousWakeup(w)
  \/ SetStop \/ NotifyAll \/ Join

\* The process was terminated, or the pool is gone and nobody uses it.
Halted ==
  /\ aborted \/ (dpc = "destroyed" /\ Notifying = {})
  /\ UNCHANGED vars

Next == (~aborted /\ Step) \/ Halted

Spec == Init /\ [][Next]_vars

(***************************************************************************)
(* Every thread that can take its next step eventually does: the critical  *)
(* sections are short and each call of a task returns.  Nobody has to call *)
(* enqueue or the destructor, and nobody may count on a spurious wakeup.   *)
(***************************************************************************)
Fairness ==
  /\ \A w \in Workers : WF_vars(~aborted /\ Worker(w))
  /\ \A j \in Jobs : WF_vars(~aborted /\ NotifyOne(j))
  /\ WF_vars(~aborted /\ NotifyAll)
  /\ WF_vars(~aborted /\ Join)

FairSpec == Spec /\ Fairness

-----------------------------------------------------------------------------
Queued == {tasks[i] : i \in DOMAIN tasks}

\* Types, and that a worker holds a callable exactly while it calls it
\* (ThreadEnvironment.hpp:25, :37, :41).
TypeOK ==
  /\ tasks \in Seq(Jobs)
  /\ stop \in BOOLEAN
  /\ call \in [Jobs -> {"new", "notify", "returned"}]
  /\ wpc \in [Workers -> {"acquire", "wait", "run", "exit"}]
  /\ task \in [Workers -> Jobs \cup {NoJob}]
  /\ \A w \in Workers : task[w] # NoJob <=> wpc[w] = "run"
  /\ dpc \in {"alive", "notify", "join", "destroyed"}
  /\ stop <=> dpc # "alive"
  /\ done \subseteq Jobs
  /\ early \subseteq Jobs
  /\ aborted \in BOOLEAN

\* No wakeup is lost.  While some worker sleeps, every queued task has a
\* wakeup of its own on the way: a notification that enqueue has still to
\* send (:68), or a worker that is awake and about to look at the queue.
WakeupsCoverBacklog ==
  Waiting # {} => Len(tasks) <= Cardinality(Notifying) + Cardinality(Acquiring)

\* After the destructor's notify_all (:52) no worker sleeps or goes to sleep:
\* the join loop (:54-56) waits for workers that are awake.
NobodySleepsThroughStop ==
  dpc \in {"join", "destroyed"} => Waiting = {}

\* A worker that leaves (:33-35) leaves no job behind that was in the queue
\* when stop was set; the workers that stay do not lose their help early.
DrainBeforeExit ==
  Exited # {} => early \cap Queued = {}

\* When the destructor returns, every job that was queued before it began has
\* run to its end, and no worker is still inside one (:54-56).
DestroyedMeansDrained ==
  dpc = "destroyed" => /\ early \subseteq done
                       /\ \A w \in Workers : task[w] = NoJob

\* The lock, the condition variable and the notifications implement the pool
\* of TaskPool: jobs start once, in the order of enqueue, and none is lost.
Pool == INSTANCE TaskPool WITH
  queue   <- tasks,
  current <- task,
  closed  <- stop,
  retired <- Exited

PoolSpec == Pool!Spec

\* A job that was queued before the destructor began is run, whichever worker
\* each notification reaches and however the wakeups interleave, unless a job
\* that throws ends the process (:41).
EveryEarlyJobRuns ==
  \A j \in Jobs : (j \in early) ~> (j \in done \/ aborted)

\* The destructor returns, unless a job that throws ends the process (:47-59).
DestructorTerminates ==
  (dpc = "notify") ~> (dpc = "destroyed" \/ aborted)

=============================================================================
