----------------------- MODULE ThreadEnvironment_proofs -----------------------
(***************************************************************************)
(* The worker pool, for every set of jobs and of workers: no wakeup is     *)
(* lost, no worker sleeps through the destructor, nothing queued before    *)
(* the destructor began is left behind, the pool implements TaskPool, and  *)
(* the destructor has finitely many steps to wait for.                     *)
(***************************************************************************)
EXTENDS ThreadEnvironment, FiniteSetTheorems, TLAPS

-----------------------------------------------------------------------------
(* Sequences as queues.                                                    *)

\* What emplace adds to the queue is one element.
LEMMA AppendElems ==
  ASSUME NEW S, NEW s \in Seq(S), NEW x \in S
  PROVE  /\ Append(s, x) \in Seq(S)
         /\ Len(Append(s, x)) = Len(s) + 1
         /\ {Append(s, x)[i] : i \in DOMAIN Append(s, x)}
              = {s[i] : i \in DOMAIN s} \cup {x}
<1>1. Append(s, x) \in Seq(S) /\ Len(Append(s, x)) = Len(s) + 1
  OBVIOUS
<1>2. DOMAIN s = 1 .. Len(s) /\ DOMAIN Append(s, x) = 1 .. (Len(s) + 1)
  OBVIOUS
<1>3. Append(s, x)[Len(s) + 1] = x /\ \A i \in 1 .. Len(s) : Append(s, x)[i] = s[i]
  OBVIOUS
<1> QED  BY <1>1, <1>2, <1>3

\* What pop removes from the queue is its front; the rest stays.
LEMMA TailElems ==
  ASSUME NEW S, NEW s \in Seq(S), s # <<>>
  PROVE  /\ Tail(s) \in Seq(S)
         /\ Head(s) \in S
         /\ Len(Tail(s)) = Len(s) - 1
         /\ {s[i] : i \in DOMAIN s}
              = {Tail(s)[i] : i \in DOMAIN Tail(s)} \cup {Head(s)}
<1>1. Tail(s) \in Seq(S) /\ Head(s) \in S /\ Len(Tail(s)) = Len(s) - 1
  OBVIOUS
<1>2. DOMAIN s = 1 .. Len(s) /\ DOMAIN Tail(s) = 1 .. (Len(s) - 1)
  OBVIOUS
<1>3. /\ Len(s) \in Nat /\ Len(s) # 0
      /\ Head(s) = s[1]
      /\ \A i \in 1 .. (Len(s) - 1) : Tail(s)[i] = s[i + 1]
  OBVIOUS
<1>4. \A i \in 1 .. Len(s) : i = 1 \/ (i - 1 \in 1 .. (Len(s) - 1) /\ s[i] = Tail(s)[i - 1])
  BY <1>3
<1>5. \A i \in 1 .. (Len(s) - 1) : i + 1 \in 1 .. Len(s)
  BY <1>3
<1>6. 1 \in 1 .. Len(s)
  BY <1>3
<1> DEFINE All  == {s[i] : i \in 1 .. Len(s)}
           Rest == {Tail(s)[i] : i \in 1 .. (Len(s) - 1)}
<1>7. ASSUME NEW i \in 1 .. Len(s) PROVE s[i] \in Rest \cup {Head(s)}
  BY <1>3, <1>4
<1>8. ASSUME NEW i \in 1 .. (Len(s) - 1) PROVE Tail(s)[i] \in All
  BY <1>3, <1>5
<1>9. Head(s) \in All
  BY <1>3, <1>6
<1>10. All = Rest \cup {Head(s)}
  BY <1>7, <1>8, <1>9
<1> QED  BY <1>1, <1>2, <1>10

-----------------------------------------------------------------------------
(* Types.                                                                  *)

\* The pool starts with the declared types.
LEMMA TypeCorrect_Init == Init => TypeOK
<1> SUFFICES ASSUME Init PROVE TypeOK
  OBVIOUS
<1>1. tasks \in Seq(Jobs)
  BY DEF Init
<1>2. \A w \in Workers : (task[w] # NoJob <=> wpc[w] = "run")
  BY DEF Init
<1>3. stop \in BOOLEAN /\ (stop <=> dpc # "alive")
  BY DEF Init
<1> QED  BY <1>1, <1>2, <1>3 DEF Init, TypeOK

\* Each step keeps the types; the queue by what append and tail do.
LEMMA TypeCorrect_Next == TypeOK /\ [Next]_vars => TypeOK'
<1> SUFFICES ASSUME TypeOK, [Next]_vars PROVE TypeOK'
  OBVIOUS
<1> USE DEF TypeOK
<1>1. ASSUME NEW j \in Jobs, Enqueue(j) PROVE TypeOK'
  BY <1>1, AppendElems DEF Enqueue
<1>2. ASSUME NEW j \in Jobs, NotifyOne(j) PROVE TypeOK'
  BY <1>2 DEF NotifyOne, Waiting
<1>3. ASSUME NEW w \in Workers, CriticalSection(w) PROVE TypeOK'
  <2>1. CASE Sleep(w)
    BY <2>1 DEF Sleep
  <2>2. CASE Leave(w)
    BY <2>2 DEF Leave
  <2>3. CASE Take(w)
    BY <2>3, TailElems, NoJobAssumption DEF Take
  <2> QED  BY <1>3, <2>1, <2>2, <2>3 DEF CriticalSection
<1>4. ASSUME NEW w \in Workers, SpuriousWakeup(w) \/ Return(w) \/ Throw(w) PROVE TypeOK'
  <2>1. CASE SpuriousWakeup(w)
    BY <2>1 DEF SpuriousWakeup
  <2>2. CASE Return(w)
    <3>1. task[w] \in Jobs
      BY <2>2 DEF Return
    <3>2. \A v \in Workers : (task'[v] # NoJob <=> wpc'[v] = "run")
      BY <2>2 DEF Return
    <3> QED  BY <2>2, <3>1, <3>2 DEF Return
  <2>3. CASE Throw(w)
    BY <2>3 DEF Throw
  <2> QED  BY <1>4, <2>1, <2>2, <2>3
<1>5. ASSUME SetStop \/ NotifyAll \/ Join PROVE TypeOK'
  BY <1>5 DEF SetStop, NotifyAll, Join, Waiting
<1>6. ASSUME UNCHANGED vars PROVE TypeOK'
  BY <1>6 DEF vars
<1> QED  BY <1>1, <1>2, <1>3, <1>4, <1>5, <1>6 DEF Next, Step, Worker, Halted

\* Every variable keeps its type, and a worker holds a callable exactly while
\* it calls it.
THEOREM TypeCorrect == Spec => []TypeOK
  BY TypeCorrect_Init, TypeCorrect_Next, PTL DEF Spec

Running == {task[w] : w \in Workers} \ {NoJob}

\* Nothing but jobs is queued, run, finished or remembered.
LEMMA SubsetsOfJobs ==
  TypeOK => Queued \cup Running \cup done \cup early \subseteq Jobs
  BY DEF TypeOK, Queued, Running

-----------------------------------------------------------------------------
(* Wakeups.  Both formulas are inductive relative to the types.            *)

\* The sets that the wakeup count is about are finite.
LEMMA FiniteCounts ==
  /\ IsFiniteSet(Notifying) /\ Cardinality(Notifying) \in Nat
  /\ IsFiniteSet(Acquiring) /\ Cardinality(Acquiring) \in Nat
  BY JobsAssumption, WorkersAssumption, FS_Subset, FS_CardinalityType
     DEF Notifying, Acquiring

\* The destructor's notify_all leaves nobody asleep, and nobody goes to sleep
\* after it: the predicate of wait holds once stop is set.
THEOREM StopWakesAll == Spec => []NobodySleepsThroughStop
<1>1. Init => NobodySleepsThroughStop
  BY DEF Init, NobodySleepsThroughStop
<1>2. TypeOK /\ NobodySleepsThroughStop /\ [Next]_vars => NobodySleepsThroughStop'
  <2> SUFFICES ASSUME TypeOK, NobodySleepsThroughStop, [Next]_vars
               PROVE  NobodySleepsThroughStop'
    OBVIOUS
  <2> USE DEF TypeOK, NobodySleepsThroughStop, Waiting
  <2>1. ASSUME NEW j \in Jobs, Enqueue(j) \/ NotifyOne(j)
        PROVE  NobodySleepsThroughStop'
    BY <2>1 DEF Enqueue, NotifyOne
  <2>2. ASSUME NEW w \in Workers, Worker(w) \/ SpuriousWakeup(w)
        PROVE  NobodySleepsThroughStop'
    <3>1. CASE Sleep(w)
      BY <3>1 DEF Sleep
    <3>2. CASE Leave(w) \/ Take(w)
      BY <3>2 DEF Leave, Take
    <3>3. CASE SpuriousWakeup(w) \/ Return(w) \/ Throw(w)
      BY <3>3 DEF SpuriousWakeup, Return, Throw
    <3> QED  BY <2>2, <3>1, <3>2, <3>3 DEF Worker, CriticalSection
  <2>3. ASSUME SetStop \/ NotifyAll \/ Join PROVE NobodySleepsThroughStop'
    BY <2>3 DEF SetStop, NotifyAll, Join
  <2>4. ASSUME UNCHANGED vars PROVE NobodySleepsThroughStop'
    BY <2>4 DEF vars
  <2> QED  BY <2>1, <2>2, <2>3, <2>4 DEF Next, Step, Halted
<1> QED  BY <1>1, <1>2, TypeCorrect, PTL DEF Spec

\* No wakeup is lost: each queued task that a sleeping worker could run has a
\* notification to come or a worker on its way to the queue.
THEOREM NoLostWakeup == Spec => []WakeupsCoverBacklog
<1>1. Init => WakeupsCoverBacklog
  BY DEF Init, WakeupsCoverBacklog, Waiting
<1>2. TypeOK /\ WakeupsCoverBacklog /\ [Next]_vars => WakeupsCoverBacklog'
  <2> SUFFICES ASSUME TypeOK, WakeupsCoverBacklog, [Next]_vars, Waiting' # {}
               PROVE  Len(tasks)' <= Cardinality(Notifying)' + Cardinality(Acquiring)'
    BY DEF WakeupsCoverBacklog
  <2> USE DEF TypeOK
  <2>0. Len(tasks) \in Nat
    OBVIOUS
  <2>1. ASSUME NEW j \in Jobs, Enqueue(j)
        PROVE  Len(tasks)' <= Cardinality(Notifying)' + Cardinality(Acquiring)'
    <3>1. Len(tasks)' = Len(tasks) + 1
      BY <2>1, AppendElems DEF Enqueue
    <3>2. Notifying' = Notifying \cup {j} /\ j \notin Notifying
      BY <2>1 DEF Enqueue, Notifying
    <3>3. Cardinality(Notifying') = Cardinality(Notifying) + 1
      BY <3>2, FiniteCounts, FS_AddElement
    <3>4. Acquiring' = Acquiring /\ Waiting' = Waiting
      BY <2>1 DEF Enqueue, Acquiring, Waiting
    <3> QED  BY <2>0, <3>1, <3>3, <3>4, FiniteCounts DEF WakeupsCoverBacklog
  <2>2. ASSUME NEW j \in Jobs, NotifyOne(j)
        PROVE  Len(tasks)' <= Cardinality(Notifying)' + Cardinality(Acquiring)'
    <3>1. Notifying' = Notifying \ {j} /\ j \in Notifying /\ tasks' = tasks
      BY <2>2 DEF NotifyOne, Notifying
    <3>2. Cardinality(Notifying') = Cardinality(Notifying) - 1
      BY <3>1, FiniteCounts, FS_RemoveElement
    <3>3. Waiting # {}
      BY <2>2 DEF NotifyOne, Waiting
    <3>4. PICK w \in Waiting : wpc' = [wpc EXCEPT ![w] = "acquire"]
      BY <2>2, <3>3 DEF NotifyOne
    <3>5. Acquiring' = Acquiring \cup {w} /\ w \notin Acquiring
      BY <3>4 DEF Acquiring, Waiting
    <3>6. Cardinality(Acquiring') = Cardinality(Acquiring) + 1
      BY <3>5, FiniteCounts, FS_AddElement
    <3> QED  BY <2>0, <3>1, <3>2, <3>3, <3>6, FiniteCounts DEF WakeupsCoverBacklog
  <2>3. ASSUME NEW w \in Workers, Sleep(w) \/ Leave(w)
        PROVE  Len(tasks)' <= Cardinality(Notifying)' + Cardinality(Acquiring)'
    <3>1. Len(tasks') = 0
      BY <2>3 DEF Sleep, Leave
    <3>2. IsFiniteSet(Notifying') /\ IsFiniteSet(Acquiring')
      BY JobsAssumption, WorkersAssumption, FS_Subset DEF Notifying, Acquiring
    <3>3. Cardinality(Notifying') \in Nat /\ Cardinality(Acquiring') \in Nat
      BY <3>2, FS_CardinalityType
    <3> QED  BY <3>1, <3>3
  <2>4. ASSUME NEW w \in Workers, Take(w)
        PROVE  Len(tasks)' <= Cardinality(Notifying)' + Cardinality(Acquiring)'
    <3>1. Len(tasks') = Len(tasks) - 1
      BY <2>4, TailElems DEF Take
    <3>2. Acquiring' = Acquiring \ {w} /\ w \in Acquiring
      BY <2>4 DEF Take, Acquiring
    <3>3. Cardinality(Acquiring') = Cardinality(Acquiring) - 1
      BY <3>2, FiniteCounts, FS_RemoveElement
    <3>4. Notifying' = Notifying /\ Waiting' = Waiting
      BY <2>4 DEF Take, Notifying, Waiting
    <3> QED  BY <2>0, <3>1, <3>3, <3>4, FiniteCounts DEF WakeupsCoverBacklog
  <2>5. ASSUME NEW w \in Workers, SpuriousWakeup(w) \/ Return(w)
        PROVE  Len(tasks)' <= Cardinality(Notifying)' + Cardinality(Acquiring)'
    <3>1. Acquiring' = Acquiring \cup {w} /\ w \notin Acquiring
      BY <2>5 DEF SpuriousWakeup, Return, Acquiring
    <3>2. Cardinality(Acquiring') = Cardinality(Acquiring) + 1
      BY <3>1, FiniteCounts, FS_AddElement
    <3>3. Waiting # {} /\ Notifying' = Notifying /\ tasks' = tasks
      BY <2>5 DEF SpuriousWakeup, Return, Waiting, Notifying
    <3> QED  BY <2>0, <3>2, <3>3, FiniteCounts DEF WakeupsCoverBacklog
  <2>6. ASSUME NotifyAll
        PROVE  Len(tasks)' <= Cardinality(Notifying)' + Cardinality(Acquiring)'
    BY <2>6 DEF NotifyAll, Waiting
  <2>7. ASSUME \/ SetStop \/ Join \/ UNCHANGED vars
               \/ \E w \in Workers : Throw(w)
        PROVE  Len(tasks)' <= Cardinality(Notifying)' + Cardinality(Acquiring)'
    <3>1. tasks' = tasks /\ wpc' = wpc /\ call' = call
      BY <2>7 DEF SetStop, Join, Throw, vars
    <3>2. Waiting' = Waiting /\ Notifying' = Notifying /\ Acquiring' = Acquiring
      BY <3>1 DEF Waiting, Notifying, Acquiring
    <3> QED  BY <3>1, <3>2 DEF WakeupsCoverBacklog
  <2> QED  BY <2>1, <2>2, <2>3, <2>4, <2>5, <2>6, <2>7
           DEF Next, Step, Worker, CriticalSection, Halted
<1> QED  BY <1>1, <1>2, TypeCorrect, PTL DEF Spec

-----------------------------------------------------------------------------
(***************************************************************************)
(* Accounting.  DrainBeforeExit and DestroyedMeansDrained are not          *)
(* inductive: they rest on where a job can be once it was submitted.       *)
(***************************************************************************)
\* Whatever the pool holds or remembers was handed to enqueue.
OnlySubmitted ==
  \A j \in Queued \cup Running \cup done \cup early : call[j] # "new"

\* A job that was submitted in time is queued, running or done.
NothingLost == early \subseteq Queued \cup Running \cup done

\* The destructor returns after every worker did.
JoinedAll == dpc = "destroyed" => Exited = Workers

\* A worker leaves only after stop was set.
ExitAfterStop == Exited # {} => stop

PoolInv ==
  /\ TypeOK
  /\ OnlySubmitted
  /\ NothingLost
  /\ JoinedAll
  /\ ExitAfterStop
  /\ DrainBeforeExit

\* The accounting invariant is inductive.
THEOREM PoolInvariance == Spec => []PoolInv
<1>1. Init => PoolInv
  <2> SUFFICES ASSUME Init PROVE PoolInv
    OBVIOUS
  <2>1. TypeOK
    BY TypeCorrect_Init
  <2>2. Queued = {} /\ Running = {} /\ Exited = {}
    BY DEF Init, Queued, Running, Exited
  <2>3. dpc = "alive" /\ early = {} /\ done = {}
    BY DEF Init
  <2> QED  BY <2>1, <2>2, <2>3
           DEF PoolInv, OnlySubmitted, NothingLost, JoinedAll, ExitAfterStop, DrainBeforeExit
<1>2. PoolInv /\ [Next]_vars => PoolInv'
  <2> SUFFICES ASSUME PoolInv, [Next]_vars PROVE PoolInv'
    OBVIOUS
  <2>0. TypeOK /\ TypeOK'
    BY TypeCorrect_Next DEF PoolInv
  <2> USE <2>0
  <2> USE DEF PoolInv, OnlySubmitted, NothingLost, JoinedAll, ExitAfterStop, DrainBeforeExit
  <2>1. ASSUME NEW j \in Jobs, Enqueue(j) PROVE PoolInv'
    <3>1. Queued' = Queued \cup {j}
      BY <2>1, AppendElems DEF Enqueue, Queued, TypeOK
    <3>2. Running' = Running /\ Exited' = Exited /\ done' = done /\ dpc' = dpc /\ stop' = stop
      BY <2>1 DEF Enqueue, Running, Exited
    <3>3. early' = IF stop THEN early ELSE early \cup {j}
      BY <2>1 DEF Enqueue
    <3>4. call[j] = "new" /\ call' = [call EXCEPT ![j] = "notify"]
      BY <2>1 DEF Enqueue
    <3>5. OnlySubmitted'
      <4>1. Queued' \cup Running' \cup done' \cup early'
              \subseteq (Queued \cup Running \cup done \cup early) \cup {j}
        BY <3>1, <3>2, <3>3
      <4>2. \A k \in (Queued \cup Running \cup done \cup early) \cup {j} : call'[k] # "new"
        BY <3>4 DEF TypeOK
      <4> QED  BY <4>1, <4>2
    <3>6. NothingLost'
      BY <3>1, <3>2, <3>3
    <3>7. JoinedAll' /\ ExitAfterStop'
      BY <3>2
    <3>8. DrainBeforeExit'
      BY <3>1, <3>2, <3>3, <3>4
    <3> QED  BY <3>5, <3>6, <3>7, <3>8
  <2>2. ASSUME NEW j \in Jobs, NotifyOne(j) PROVE PoolInv'
    <3>1. /\ Queued' = Queued /\ Running' = Running /\ done' = done /\ early' = early
          /\ dpc' = dpc /\ stop' = stop
      BY <2>2 DEF NotifyOne, Queued, Running
    <3>2. \A k \in Jobs : call'[k] = "new" => call[k] = "new"
      BY <2>2 DEF NotifyOne, TypeOK
    <3>3. Exited' = Exited
      BY <2>2 DEF NotifyOne, Exited, Waiting, TypeOK
    <3>4. Queued \cup Running \cup done \cup early \subseteq Jobs
      BY SubsetsOfJobs
    <3> QED  BY <3>1, <3>2, <3>3, <3>4
  <2>3. ASSUME NEW w \in Workers, Sleep(w) \/ SpuriousWakeup(w) PROVE PoolInv'
    <3>1. UNCHANGED <<tasks, stop, call, task, dpc, done, early>>
      BY <2>3 DEF Sleep, SpuriousWakeup
    <3>2. Queued' = Queued /\ Running' = Running
      BY <3>1 DEF Queued, Running
    <3>3. Exited' = Exited
      BY <2>3 DEF Sleep, SpuriousWakeup, Exited, TypeOK
    <3> QED  BY <3>1, <3>2, <3>3
  <2>4. ASSUME NEW w \in Workers, Leave(w) PROVE PoolInv'
    <3>1. UNCHANGED <<tasks, stop, call, task, dpc, done, early>> /\ stop
      BY <2>4 DEF Leave
    <3>2. Queued' = {} /\ Queued = {} /\ Running' = Running
      BY <2>4 DEF Leave, Queued, Running
    <3>3. Exited' = Exited \cup {w} /\ wpc[w] # "exit"
      BY <2>4 DEF Leave, Exited, TypeOK
    <3>4. Exited # Workers
      BY <3>3 DEF Exited
    <3>5. OnlySubmitted' /\ NothingLost'
      BY <3>1, <3>2
    <3>6. JoinedAll' /\ ExitAfterStop'
      BY <3>1, <3>4
    <3>7. DrainBeforeExit'
      BY <3>2
    <3> QED  BY <3>5, <3>6, <3>7
  <2>5. ASSUME NEW w \in Workers, Take(w) PROVE PoolInv'
    <3>1. /\ UNCHANGED <<stop, call, dpc, done, early>>
          /\ tasks # <<>> /\ tasks' = Tail(tasks)
          /\ task' = [task EXCEPT ![w] = Head(tasks)]
          /\ wpc' = [wpc EXCEPT ![w] = "run"] /\ wpc[w] = "acquire"
      BY <2>5 DEF Take
    <3>2. Queued = Queued' \cup {Head(tasks)} /\ Head(tasks) \in Jobs
      <4>1. Queued' = {Tail(tasks)[i] : i \in DOMAIN Tail(tasks)}
        BY <3>1 DEF Queued
      <4>2. tasks \in Seq(Jobs)
        BY DEF TypeOK
      <4> QED  BY <3>1, <4>1, <4>2, TailElems DEF Queued
    <3>3. task[w] = NoJob
      BY <3>1 DEF TypeOK
    <3>4. Running' = Running \cup {Head(tasks)}
      <4>1. Head(tasks) # NoJob
        BY <3>2, NoJobAssumption
      <4>2. task'[w] = Head(tasks) /\ \A v \in Workers \ {w} : task'[v] = task[v]
        BY <3>1 DEF TypeOK
      <4>3. Running' \subseteq Running \cup {Head(tasks)}
        BY <4>2 DEF Running
      <4>4. Running \cup {Head(tasks)} \subseteq Running'
        BY <3>3, <4>1, <4>2 DEF Running
      <4> QED  BY <4>3, <4>4
    <3>5. Exited' = Exited
      BY <3>1 DEF Exited, TypeOK
    <3> QED  BY <3>1, <3>2, <3>4, <3>5
  <2>6. ASSUME NEW w \in Workers, Return(w) PROVE PoolInv'
    <3>1. /\ UNCHANGED <<tasks, stop, call, dpc, early>>
          /\ done' = done \cup {task[w]}
          /\ task' = [task EXCEPT ![w] = NoJob]
          /\ wpc' = [wpc EXCEPT ![w] = "acquire"] /\ wpc[w] = "run"
      BY <2>6 DEF Return
    <3>2. Queued' = Queued
      BY <3>1 DEF Queued
    <3>3. task[w] \in Running
      BY <3>1 DEF Running, TypeOK
    <3>4. Running' \subseteq Running /\ Running \subseteq Running' \cup {task[w]}
      BY <3>1 DEF Running, TypeOK
    <3>5. Exited' = Exited
      BY <3>1 DEF Exited, TypeOK
    <3> QED  BY <3>1, <3>2, <3>3, <3>4, <3>5
  <2>7. ASSUME NotifyAll PROVE PoolInv'
    <3>1. UNCHANGED <<tasks, stop, call, task, done, early>> /\ dpc' = "join" /\ dpc = "notify"
      BY <2>7 DEF NotifyAll
    <3>2. Queued' = Queued /\ Running' = Running
      BY <3>1 DEF Queued, Running
    <3>3. Exited' = Exited
      BY <2>7 DEF NotifyAll, Exited, Waiting, TypeOK
    <3> QED  BY <3>1, <3>2, <3>3
  <2>8. ASSUME \/ SetStop \/ Join \/ UNCHANGED vars
               \/ \E w \in Workers : Throw(w)
        PROVE  PoolInv'
    <3>1. UNCHANGED <<tasks, wpc, call, task, done, early>> /\ (stop => stop')
      BY <2>8 DEF SetStop, Join, Throw, vars
    <3>2. Queued' = Queued /\ Running' = Running /\ Exited' = Exited
      BY <3>1 DEF Queued, Running, Exited
    <3>3. dpc' = "destroyed" => Exited = Workers
      BY <2>8 DEF SetStop, Join, Throw, vars
    <3> QED  BY <3>1, <3>2, <3>3
  <2> QED  BY <2>1, <2>2, <2>3, <2>4, <2>5, <2>6, <2>7, <2>8
           DEF Next, Step, Worker, CriticalSection, Halted
<1> QED  BY <1>1, <1>2, PTL DEF Spec

\* A worker never leaves a job behind that was queued before stop was set.
THEOREM Drained == Spec => []DrainBeforeExit
<1>1. PoolInv => DrainBeforeExit
  BY DEF PoolInv
<1> QED  BY <1>1, PoolInvariance, PTL

\* When the destructor returns, every job queued before it began has run.
THEOREM DestructorDrains == Spec => []DestroyedMeansDrained
<1>1. PoolInv => DestroyedMeansDrained
  <2> SUFFICES ASSUME PoolInv, dpc = "destroyed"
               PROVE  early \subseteq done /\ \A w \in Workers : task[w] = NoJob
    BY DEF DestroyedMeansDrained
  <2>1. Exited = Workers
    BY DEF PoolInv, JoinedAll
  <2>2. \A w \in Workers : task[w] = NoJob
    BY <2>1 DEF PoolInv, TypeOK, Exited
  <2>3. early \cap Queued = {}
    BY <2>1, WorkersAssumption DEF PoolInv, DrainBeforeExit
  <2>4. Running = {}
    BY <2>2 DEF Running
  <2> QED  BY <2>2, <2>3, <2>4 DEF PoolInv, NothingLost
<1> QED  BY <1>1, PoolInvariance, PTL

-----------------------------------------------------------------------------
(***************************************************************************)
(* The pool implements TaskPool: every step of a thread under the lock is  *)
(* a step of the abstract pool or leaves it alone.                         *)
(***************************************************************************)

\* Each step of the pool is a step of TaskPool, or one that it does not see.
LEMMA PoolStep == PoolInv /\ [Next]_vars => [Pool!Next]_(Pool!vars)
<1> SUFFICES ASSUME PoolInv, [Next]_vars PROVE [Pool!Next]_(Pool!vars)
  OBVIOUS
<1> USE DEF PoolInv, TypeOK
<1>1. ASSUME NEW j \in Jobs, Enqueue(j) PROVE Pool!Next
  <2>1. ~Pool!Submitted(j)
    <3>1. j \notin Queued \cup Running \cup done
      BY <1>1 DEF Enqueue, OnlySubmitted
    <3>2. j # NoJob
      BY NoJobAssumption
    <3> QED  BY <3>1, <3>2 DEF Pool!Submitted, Queued, Running
  <2>2. Exited' = Exited
    BY <1>1 DEF Enqueue, Exited
  <2>3. Pool!Submit(j)
    BY <1>1, <2>1, <2>2 DEF Enqueue, Pool!Submit
  <2> QED  BY <2>3 DEF Pool!Next
<1>2. ASSUME NEW w \in Workers, Leave(w) PROVE Pool!Next
  <2>1. task[w] = NoJob
    BY <1>2 DEF Leave
  <2>2. Exited' = Exited \cup {w}
    BY <1>2 DEF Leave, Exited
  <2>3. Pool!Retire(w)
    BY <1>2, <2>1, <2>2 DEF Leave, Pool!Retire
  <2> QED  BY <2>3 DEF Pool!Next
<1>3. ASSUME NEW w \in Workers, Take(w) PROVE Pool!Next
  <2>1. task[w] = NoJob /\ w \notin Exited
    BY <1>3 DEF Take, Exited
  <2>2. Exited' = Exited
    BY <1>3 DEF Take, Exited
  <2>3. Pool!Start(w)
    BY <1>3, <2>1, <2>2 DEF Take, Pool!Start
  <2> QED  BY <2>3 DEF Pool!Next
<1>4. ASSUME NEW w \in Workers, Return(w) PROVE Pool!Next
  <2>1. task[w] # NoJob
    BY <1>4 DEF Return
  <2>2. Exited' = Exited
    BY <1>4 DEF Return, Exited
  <2>3. Pool!Finish(w)
    BY <1>4, <2>1, <2>2 DEF Return, Pool!Finish
  <2> QED  BY <2>3 DEF Pool!Next
<1>5. ASSUME SetStop PROVE Pool!Next
  <2>1. Exited' = Exited
    BY <1>5 DEF SetStop, Exited
  <2>2. Pool!Close
    BY <1>5, <2>1 DEF SetStop, Pool!Close
  <2> QED  BY <2>2 DEF Pool!Next
<1>6. ASSUME \/ \E j \in Jobs : NotifyOne(j)
             \/ \E w \in Workers : Sleep(w) \/ SpuriousWakeup(w) \/ Throw(w)
             \/ NotifyAll \/ Join \/ UNCHANGED vars
      PROVE  UNCHANGED Pool!vars
  <2>1. UNCHANGED <<tasks, task, done, stop>>
    BY <1>6 DEF NotifyOne, Sleep, SpuriousWakeup, Throw, NotifyAll, Join, vars
  <2>2. Exited' = Exited
    BY <1>6 DEF NotifyOne, Sleep, SpuriousWakeup, Throw, NotifyAll, Join, vars,
                Exited, Waiting
  <2> QED  BY <2>1, <2>2 DEF Pool!vars
<1> QED  BY <1>1, <1>2, <1>3, <1>4, <1>5, <1>6
         DEF Next, Step, Worker, CriticalSection, Halted

\* Jobs start once and in the order of enqueue, none is lost, and a worker
\* retires from an empty, closed pool: ThreadEnvironment implements TaskPool.
THEOREM PoolRefinement == Spec => PoolSpec
<1>1. Init => Pool!Init
  BY DEF Init, Pool!Init, Exited
<1> QED  BY <1>1, PoolStep, PoolInvariance, PTL DEF Spec, PoolSpec, Pool!Spec


-----------------------------------------------------------------------------
(* The destructor's loop of joins.  That it ends needs fairness, and is    *)
(* model-checked (DestructorTerminates); what is proved is all the rest of *)
(* the argument: work that only gets less, and nobody who is stuck.        *)

Unsent == {j \in Jobs : call[j] = "new"}
Busy   == {w \in Workers : wpc[w] = "run"}
Here   == {w \in Workers : wpc[w] # "exit"}

\* What is left to be done once the workers have been woken: a call of enqueue
\* is an entry and a notification, an entry is taken and run, a worker leaves, the
\* last join returns, and the process may end.
Work ==
  4 * Cardinality(Unsent) + 2 * Len(tasks) + Cardinality(Notifying)
    + Cardinality(Busy) + Cardinality(Here)
    + (IF dpc = "join" THEN 1 ELSE 0) + (IF aborted THEN 0 ELSE 1)

LEMMA WorkIsNat ==
  ASSUME TypeOK
  PROVE  /\ IsFiniteSet(Unsent) /\ Cardinality(Unsent) \in Nat
         /\ IsFiniteSet(Busy) /\ Cardinality(Busy) \in Nat
         /\ IsFiniteSet(Here) /\ Cardinality(Here) \in Nat
         /\ Len(tasks) \in Nat
         /\ Work \in Nat
<1>1. /\ IsFiniteSet(Unsent) /\ Cardinality(Unsent) \in Nat
      /\ IsFiniteSet(Busy) /\ Cardinality(Busy) \in Nat
      /\ IsFiniteSet(Here) /\ Cardinality(Here) \in Nat
  BY JobsAssumption, WorkersAssumption, FS_Subset, FS_CardinalityType DEF Unsent, Busy, Here
<1>2. Len(tasks) \in Nat
  BY DEF TypeOK
<1>3. Cardinality(Notifying) \in Nat
  BY FiniteCounts
<1>4. PICK x, y \in Nat : x = (IF dpc = "join" THEN 1 ELSE 0) /\ y = (IF aborted THEN 0 ELSE 1)
  OBVIOUS
<1>5. Work = 4 * Cardinality(Unsent) + 2 * Len(tasks) + Cardinality(Notifying)
               + Cardinality(Busy) + Cardinality(Here) + x + y
  BY <1>4 DEF Work
<1>6. Work \in Nat
  BY <1>1, <1>2, <1>3, <1>5
<1> QED  BY <1>1, <1>2, <1>6

Joining == dpc \in {"join", "destroyed"}

LEMMA LessWork ==
  ASSUME TypeOK, NobodySleepsThroughStop, Joining, Next, ~UNCHANGED vars
  PROVE  Work' < Work
<1>0. ~aborted /\ Step
  BY DEF Next, Halted
<1>1. Waiting = {} /\ stop /\ dpc # "alive" /\ dpc # "notify"
  BY DEF NobodySleepsThroughStop, Joining, TypeOK
<1>n. /\ Cardinality(Unsent) \in Nat /\ Len(tasks) \in Nat /\ Cardinality(Notifying) \in Nat
      /\ Cardinality(Busy) \in Nat /\ Cardinality(Here) \in Nat
  BY WorkIsNat, FiniteCounts
<1>a. PICK u, t, n, b, h \in Nat : /\ u = Cardinality(Unsent) /\ t = Len(tasks)
                                   /\ n = Cardinality(Notifying)
                                   /\ b = Cardinality(Busy) /\ h = Cardinality(Here)
  BY <1>n
<1>d. PICK d \in Nat : d = IF dpc = "join" THEN 1 ELSE 0
  OBVIOUS
<1>w. Work = 4 * u + 2 * t + n + b + h + d + 1
  BY <1>0, <1>a, <1>d DEF Work
<1>2. ASSUME NEW j \in Jobs, Enqueue(j) PROVE Work' < Work
  <2>1. Unsent' = Unsent \ {j} /\ j \in Unsent
    BY <1>2 DEF Enqueue, Unsent, TypeOK
  <2>2. Notifying' = Notifying \cup {j} /\ j \notin Notifying
    BY <1>2 DEF Enqueue, Notifying, TypeOK
  <2>3. Cardinality(Unsent') = u - 1 /\ Cardinality(Notifying') = n + 1
    BY <1>a, <2>1, <2>2, WorkIsNat, FiniteCounts, FS_RemoveElement, FS_AddElement
  <2>4. Len(tasks') = t + 1
    BY <1>2, <1>a, AppendElems DEF Enqueue, TypeOK
  <2>5. Busy' = Busy /\ Here' = Here /\ UNCHANGED <<dpc, aborted>>
    BY <1>2 DEF Enqueue, Busy, Here
  <2>6. Work' = 4 * (u - 1) + 2 * (t + 1) + (n + 1) + b + h + d + 1
    BY <1>0, <1>a, <1>d, <2>3, <2>4, <2>5 DEF Work
  <2> QED  BY <1>w, <2>6
<1>3. ASSUME NEW j \in Jobs, NotifyOne(j) PROVE Work' < Work
  <2>1. Notifying' = Notifying \ {j} /\ j \in Notifying /\ Unsent' = Unsent
    BY <1>3 DEF NotifyOne, Notifying, Unsent, TypeOK
  <2>2. Cardinality(Notifying') = n - 1
    BY <1>a, <2>1, FiniteCounts, FS_RemoveElement
  <2>3. Busy' = Busy /\ Here' = Here /\ UNCHANGED <<tasks, dpc, aborted>>
    BY <1>1, <1>3 DEF NotifyOne, Busy, Here
  <2>4. Work' = 4 * u + 2 * t + (n - 1) + b + h + d + 1
    BY <1>0, <1>a, <1>d, <2>1, <2>2, <2>3 DEF Work
  <2> QED  BY <1>w, <2>4
<1>4. ASSUME NEW w \in Workers, Leave(w) PROVE Work' < Work
  <2>1. Here' = Here \ {w} /\ w \in Here /\ Busy' = Busy
    BY <1>4 DEF Leave, Here, Busy, TypeOK
  <2>2. Cardinality(Here') = h - 1
    BY <1>a, <2>1, WorkIsNat, FS_RemoveElement
  <2>3. Unsent' = Unsent /\ Notifying' = Notifying /\ UNCHANGED <<tasks, dpc, aborted>>
    BY <1>4 DEF Leave, Unsent, Notifying
  <2>4. Work' = 4 * u + 2 * t + n + b + (h - 1) + d + 1
    BY <1>0, <1>a, <1>d, <2>1, <2>2, <2>3 DEF Work
  <2> QED  BY <1>w, <2>4
<1>5. ASSUME NEW w \in Workers, Take(w) PROVE Work' < Work
  <2>1. Busy' = Busy \cup {w} /\ w \notin Busy /\ Here' = Here
    BY <1>5 DEF Take, Here, Busy, TypeOK
  <2>2. Cardinality(Busy') = b + 1
    BY <1>a, <2>1, WorkIsNat, FS_AddElement
  <2>3. Len(tasks') = t - 1
    BY <1>5, <1>a, TailElems DEF Take, TypeOK
  <2>4. Unsent' = Unsent /\ Notifying' = Notifying /\ UNCHANGED <<dpc, aborted>>
    BY <1>5 DEF Take, Unsent, Notifying
  <2>5. Work' = 4 * u + 2 * (t - 1) + n + (b + 1) + h + d + 1
    BY <1>0, <1>a, <1>d, <2>1, <2>2, <2>3, <2>4 DEF Work
  <2> QED  BY <1>w, <2>5
<1>6. ASSUME NEW w \in Workers, Return(w) PROVE Work' < Work
  <2>1. Busy' = Busy \ {w} /\ w \in Busy /\ Here' = Here
    BY <1>6 DEF Return, Here, Busy, TypeOK
  <2>2. Cardinality(Busy') = b - 1
    BY <1>a, <2>1, WorkIsNat, FS_RemoveElement
  <2>3. Unsent' = Unsent /\ Notifying' = Notifying /\ UNCHANGED <<tasks, dpc, aborted>>
    BY <1>6 DEF Return, Unsent, Notifying
  <2>4. Work' = 4 * u + 2 * t + n + (b - 1) + h + d + 1
    BY <1>0, <1>a, <1>d, <2>1, <2>2, <2>3 DEF Work
  <2> QED  BY <1>w, <2>4
<1>7. ASSUME NEW w \in Workers, Throw(w) PROVE Work' < Work
  <2>1. UNCHANGED <<tasks, call, wpc, dpc>> /\ aborted'
    BY <1>7 DEF Throw
  <2>2. Unsent' = Unsent /\ Notifying' = Notifying /\ Busy' = Busy /\ Here' = Here
    BY <2>1 DEF Unsent, Notifying, Busy, Here
  <2>3. (IF aborted' THEN 0 ELSE 1) = 0 /\ (IF dpc' = "join" THEN 1 ELSE 0) = d
    BY <1>d, <2>1
  <2>4. Work' = 4 * u + 2 * t + n + b + h + d + 0
    BY <1>a, <2>1, <2>2, <2>3 DEF Work
  <2> QED  BY <1>w, <2>4
<1>8. ASSUME Join PROVE Work' < Work
  <2>1. UNCHANGED <<tasks, call, wpc, aborted>> /\ dpc = "join" /\ dpc' = "destroyed"
    BY <1>8 DEF Join
  <2>2. Unsent' = Unsent /\ Notifying' = Notifying /\ Busy' = Busy /\ Here' = Here
    BY <2>1 DEF Unsent, Notifying, Busy, Here
  <2>3. Work' = 4 * u + 2 * t + n + b + h + 1 /\ d = 1
    BY <1>0, <1>a, <1>d, <2>1, <2>2 DEF Work
  <2> QED  BY <1>w, <2>3
<1>9. \A w \in Workers : ~Sleep(w) /\ ~SpuriousWakeup(w)
  BY <1>1 DEF Sleep, SpuriousWakeup, Waiting
<1>10. ~SetStop /\ ~NotifyAll
  BY <1>1 DEF SetStop, NotifyAll
<1> QED  BY <1>0, <1>2, <1>3, <1>4, <1>5, <1>6, <1>7, <1>8, <1>9, <1>10
         DEF Step, Worker, CriticalSection

\* Once the workers have been woken, every step of any thread leaves less to do,
\* whoever still calls enqueue: there are finitely many steps more (:52-56).
StopDescends == [][Joining => Work' < Work]_vars

THEOREM AfterStopFiniteWork == Spec => StopDescends /\ [](Work \in Nat)
<1>1. TypeOK /\ NobodySleepsThroughStop /\ [Next]_vars => [Joining => Work' < Work]_vars
  BY LessWork
<1>2. TypeOK => Work \in Nat
  BY WorkIsNat
<1> QED  BY <1>1, <1>2, TypeCorrect, StopWakesAll, PTL DEF Spec, StopDescends

\* While the destructor joins, a worker that has not left holds nobody up: it is
\* calling a job, or about to find the queue with a job in it, or empty with stop
\* set.  When all have left the destructor's own next step is possible.
JoinProceeds ==
  Joining =>
    \A w \in Workers :
      \/ wpc[w] = "exit"
      \/ wpc[w] = "run" /\ task[w] \in Jobs
      \/ wpc[w] = "acquire" /\ stop

\* Nobody that the destructor waits for waits for anything itself.
THEOREM JoinNeverStuck == Spec => []JoinProceeds
<1>1. TypeOK /\ NobodySleepsThroughStop => JoinProceeds
  <2> SUFFICES ASSUME TypeOK, NobodySleepsThroughStop, Joining, NEW w \in Workers
               PROVE  \/ wpc[w] = "exit"
                      \/ wpc[w] = "run" /\ task[w] \in Jobs
                      \/ wpc[w] = "acquire" /\ stop
    BY DEF JoinProceeds
  <2>1. wpc[w] # "wait" /\ stop
    BY DEF NobodySleepsThroughStop, Waiting, Joining, TypeOK
  <2> QED  BY <2>1 DEF TypeOK
<1> QED  BY <1>1, TypeCorrect, StopWakesAll, PTL

=============================================================================
