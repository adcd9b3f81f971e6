-------------------------- MODULE Northbound_proofs --------------------------
(***************************************************************************)
(* The northbound interface, for every set of connections and threads:     *)
(* the pool of httplib keeps its count of idle threads and implements      *)
(* TaskPool, each accepted socket has one owner until it is closed, the    *)
(* counters agree with the responses and the accepted events, and what a   *)
(* connection or shutdown has still to do gets less with every step.       *)
(***************************************************************************)
EXTENDS Northbound, FiniteSetTheorems, TLAPS

\* The pool of a fixed size that the steps of HttpPool make, job by job.
PoolNext ==
  \/ \E j \in Jobs : Enqueue(j)
  \/ NotifyOne \/ SetShutdown \/ NotifyAll \/ JoinBase \/ JoinDynamic
  \/ \E t \in Threads : Sleep(t) \/ Timeout(t) \/ Retire(t) \/ Leave(t) \/ Take(t) \/ Return(t)

-----------------------------------------------------------------------------
(* Queues and counts.                                                      *)

\* push_back adds one job, behind the others.
LEMMA AppendJob ==
  ASSUME NEW S, NEW s \in Seq(S), NEW x \in S
  PROVE  /\ Append(s, x) \in Seq(S)
         /\ Len(s) \in Nat /\ Len(Append(s, x)) = Len(s) + 1
         /\ DOMAIN s = 1 .. Len(s) /\ DOMAIN Append(s, x) = 1 .. (Len(s) + 1)
         /\ Append(s, x)[Len(s) + 1] = x
         /\ \A i \in 1 .. Len(s) : Append(s, x)[i] = s[i]
  OBVIOUS

\* pop_front takes the first job away, and the others move up.
LEMMA TailJob ==
  ASSUME NEW S, NEW s \in Seq(S), s # <<>>
  PROVE  /\ Tail(s) \in Seq(S)
         /\ Head(s) \in S /\ Head(s) = s[1]
         /\ Len(s) \in Nat /\ Len(s) # 0 /\ Len(Tail(s)) = Len(s) - 1
         /\ DOMAIN s = 1 .. Len(s) /\ DOMAIN Tail(s) = 1 .. (Len(s) - 1)
         /\ \A i \in 1 .. (Len(s) - 1) : Tail(s)[i] = s[i + 1]
  OBVIOUS

\* There are finitely many threads, of whatever kind.
LEMMA FiniteThreads ==
  ASSUME NEW S \in SUBSET Threads
  PROVE  IsFiniteSet(S) /\ Cardinality(S) \in Nat
<1>1. IsFiniteSet(Threads)
  BY HttpPoolAssumption, FS_Union DEF Threads
<1>2. IsFiniteSet(S)
  BY <1>1, FS_Subset
<1> QED  BY <1>2, FS_CardinalityType

\* A set of threads that gains or loses one has one more or less.
LEMMA OneMoreThread ==
  ASSUME NEW S \in SUBSET Threads, NEW t \in Threads
  PROVE  /\ t \notin S => Cardinality(S \cup {t}) = Cardinality(S) + 1
         /\ t \in S => Cardinality(S \ {t}) = Cardinality(S) - 1
  BY FiniteThreads, FS_AddElement, FS_RemoveElement

-----------------------------------------------------------------------------
(***************************************************************************)
(* The pool's own types, with the count of idle threads.  Only dynamic     *)
(* threads come and go, so a base thread never is "none" or "finished".    *)
(***************************************************************************)
PoolTypes ==
  /\ jobs \in Seq(Conns)
  /\ shutdown \in BOOLEAN
  /\ tpc \in [Threads -> {"none", "loop", "wait", "awake", "expired", "run", "finished", "exit"}]
  /\ fn \in [Threads -> Conns \cup {NoConn}]
  /\ owner \in {"ready", "notify", "wake", "join", "collect", "down"}
  /\ finished \subseteq Conns
  /\ \A t \in Threads :
       /\ tpc[t] = "run" <=> fn[t] # NoConn
       /\ tpc[t] \in {"none", "finished", "expired"} => t \in Dynamic

IdleCounted == idle = Cardinality(Counted)

\* The pool starts with its base threads about to enter the loop, none counted.
LEMMA PoolTypes_Init == PoolInit => PoolTypes /\ IdleCounted
<1> SUFFICES ASSUME PoolInit PROVE PoolTypes /\ IdleCounted
  OBVIOUS
<1>1. jobs \in Seq(Conns)
  BY DEF PoolInit
<1>2. tpc = [t \in Threads |-> IF t \in Base THEN "loop" ELSE "none"]
  BY DEF PoolInit
<1>3. \A t \in Threads : t \notin Base => t \in Dynamic
  BY DEF Threads
<1>4. \A t \in Threads : (tpc[t] = "run" <=> fn[t] # NoConn)
  BY <1>2 DEF PoolInit, NoConn
<1>5. PoolTypes
  BY <1>1, <1>2, <1>3, <1>4 DEF PoolInit, PoolTypes, NoConn
<1>6. Counted = {}
  BY <1>2 DEF Counted
<1> QED  BY <1>5, <1>6, FS_EmptySet DEF PoolInit, IdleCounted

\* Each step of the pool keeps its types.
LEMMA PoolTypes_Next == PoolTypes /\ (PoolNext \/ UNCHANGED poolVars) => PoolTypes'
<1> SUFFICES ASSUME PoolTypes, PoolNext \/ UNCHANGED poolVars PROVE PoolTypes'
  OBVIOUS
<1> USE DEF PoolTypes, Conns, NoConn
<1>0. Base \subseteq Threads /\ Dynamic \subseteq Threads /\ Threads \subseteq Base \cup Dynamic
  BY DEF Threads
<1>1. ASSUME NEW j \in Jobs, Enqueue(j) PROVE PoolTypes'
  <2>1. jobs' \in Seq(Jobs)
    BY <1>1, AppendJob DEF Enqueue
  <2>2. CASE Spawns
    <3>1. PICK d \in Dynamic \ Spawned :
            tpc' = [t \in Threads |-> IF t = d THEN "loop"
                                      ELSE IF tpc[t] = "finished" THEN "none" ELSE tpc[t]]
      BY <1>1, <2>2 DEF Enqueue
    <3>2. tpc[d] \in {"none", "finished"}
      BY <3>1 DEF Spawned
    <3>3. \A t \in Threads : (tpc'[t] = "run" <=> tpc[t] = "run")
      BY <3>1, <3>2
    <3>4. \A t \in Threads : tpc'[t] \in {"none", "finished", "expired"} => t \in Dynamic
      BY <3>1
    <3> QED  BY <1>1, <2>1, <3>1, <3>3, <3>4 DEF Enqueue
  <2>3. CASE ~Spawns
    BY <1>1, <2>1, <2>3 DEF Enqueue
  <2> QED  BY <2>2, <2>3
<1>2. ASSUME NotifyOne \/ SetShutdown \/ JoinBase PROVE PoolTypes'
  <2>1. CASE NotifyOne
    BY <2>1 DEF NotifyOne, Asleep
  <2>2. CASE SetShutdown \/ JoinBase
    BY <2>2 DEF SetShutdown, JoinBase
  <2> QED  BY <1>2, <2>1, <2>2
<1>3. ASSUME NotifyAll PROVE PoolTypes'
  BY <1>3 DEF NotifyAll, Asleep
<1>4. ASSUME JoinDynamic PROVE PoolTypes'
  BY <1>4 DEF JoinDynamic
<1>5. ASSUME NEW t \in Threads, Sleep(t) \/ Timeout(t) PROVE PoolTypes'
  BY <1>5 DEF Sleep, Timeout
<1>6. ASSUME NEW t \in Threads, Retire(t) \/ Leave(t) PROVE PoolTypes'
  BY <1>6 DEF Retire, Leave, Awake
<1>7. ASSUME NEW t \in Threads, Take(t) PROVE PoolTypes'
  <2>1. jobs' \in Seq(Jobs) /\ Head(jobs) \in Jobs
    BY <1>7, TailJob DEF Take
  <2>2. Head(jobs) # NoJob
    BY <2>1, HttpPoolAssumption
  <2> QED  BY <1>7, <2>1, <2>2 DEF Take
<1>8. ASSUME NEW t \in Threads, Return(t) PROVE PoolTypes'
  <2>1. fn[t] \in Jobs
    BY <1>8 DEF Return
  <2>2. \A u \in Threads : (tpc'[u] = "run" <=> fn'[u] # NoJob)
    BY <1>8 DEF Return
  <2> QED  BY <1>8, <2>1, <2>2 DEF Return
<1>9. ASSUME UNCHANGED poolVars PROVE PoolTypes'
  BY <1>9 DEF poolVars
<1> QED  BY <1>1, <1>2, <1>3, <1>4, <1>5, <1>6, <1>7, <1>8, <1>9 DEF PoolNext

\* A thread is counted from the moment it enters the critical section of
\* worker until it leaves it, with a job, for good or for want of one.
LEMMA IdleCounted_Next ==
  PoolTypes /\ IdleCounted /\ (PoolNext \/ UNCHANGED poolVars) => IdleCounted'
<1> SUFFICES ASSUME PoolTypes, IdleCounted, PoolNext \/ UNCHANGED poolVars PROVE IdleCounted'
  OBVIOUS
<1> USE DEF PoolTypes, IdleCounted
<1>0. Counted \in SUBSET Threads /\ Cardinality(Counted) \in Nat
  BY FiniteThreads DEF Counted
<1>1. ASSUME idle' = idle, Counted' = Counted PROVE IdleCounted'
  BY <1>1
<1>2. ASSUME NEW j \in Jobs, Enqueue(j) PROVE IdleCounted'
  <2>1. CASE Spawns
    <3>1. PICK d \in Dynamic \ Spawned :
            tpc' = [t \in Threads |-> IF t = d THEN "loop"
                                      ELSE IF tpc[t] = "finished" THEN "none" ELSE tpc[t]]
      BY <1>2, <2>1 DEF Enqueue
    <3>2. tpc[d] \in {"none", "finished"}
      BY <3>1 DEF Spawned
    <3>3. Counted' = Counted
      BY <3>1, <3>2 DEF Counted
    <3> QED  BY <1>1, <1>2, <3>3 DEF Enqueue
  <2>2. CASE ~Spawns
    <3>1. Counted' = Counted
      BY <1>2, <2>2 DEF Enqueue, Counted
    <3> QED  BY <1>1, <1>2, <3>1 DEF Enqueue
  <2> QED  BY <2>1, <2>2
<1>3. ASSUME NotifyOne \/ SetShutdown \/ NotifyAll \/ JoinBase \/ JoinDynamic PROVE IdleCounted'
  <2>1. idle' = idle
    BY <1>3 DEF NotifyOne, SetShutdown, NotifyAll, JoinBase, JoinDynamic
  <2>2. CASE NotifyOne
    <3>1. Counted' = Counted
      BY <2>2 DEF NotifyOne, Counted, Asleep
    <3> QED  BY <1>1, <2>1, <3>1
  <2>3. CASE NotifyAll
    <3>1. Counted' = Counted
      BY <2>3 DEF NotifyAll, Counted, Asleep
    <3> QED  BY <1>1, <2>1, <3>1
  <2>4. CASE SetShutdown \/ JoinBase \/ JoinDynamic
    <3>1. Counted' = Counted
      BY <2>4 DEF SetShutdown, JoinBase, JoinDynamic, Counted
    <3> QED  BY <1>1, <2>1, <3>1
  <2> QED  BY <1>3, <2>2, <2>3, <2>4
<1>4. ASSUME NEW t \in Threads, Sleep(t) PROVE IdleCounted'
  <2>1. CASE tpc[t] = "loop"
    <3>1. Counted' = Counted \cup {t} /\ t \notin Counted
      BY <1>4, <2>1 DEF Sleep, Counted
    <3> QED  BY <1>0, <1>4, <2>1, <3>1, OneMoreThread DEF Sleep, Idle
  <2>2. CASE tpc[t] = "awake"
    <3>1. Counted' = Counted
      BY <1>4, <2>2 DEF Sleep, Counted
    <3> QED  BY <1>1, <1>4, <2>2, <3>1 DEF Sleep, Idle
  <2> QED  BY <1>4, <2>1, <2>2 DEF Sleep
<1>5. ASSUME NEW t \in Threads, Timeout(t) PROVE IdleCounted'
  <2>1. Counted' = Counted
    BY <1>5 DEF Timeout, Counted
  <2> QED  BY <1>1, <1>5, <2>1 DEF Timeout
<1>6. ASSUME NEW t \in Threads, Retire(t) PROVE IdleCounted'
  <2>1. Counted' = Counted \ {t} /\ t \in Counted
    BY <1>6 DEF Retire, Counted
  <2> QED  BY <1>0, <1>6, <2>1, OneMoreThread DEF Retire
<1>7. ASSUME NEW t \in Threads, Leave(t) \/ Take(t) PROVE IdleCounted'
  <2>1. Awake(t) /\ idle' = Idle(t) - 1
    BY <1>7 DEF Leave, Take
  <2>2. Counted' = Counted \ {t}
    BY <1>7 DEF Leave, Take, Counted
  <2>3. CASE tpc[t] = "loop"
    <3>1. t \notin Counted
      BY <2>3 DEF Counted
    <3>2. Counted' = Counted
      BY <2>2, <3>1
    <3>3. idle' = idle
      BY <1>0, <2>1, <2>3 DEF Idle
    <3> QED  BY <1>1, <3>2, <3>3
  <2>4. CASE tpc[t] \in {"awake", "expired"}
    <3>1. t \in Counted
      BY <2>4 DEF Counted
    <3>2. idle' = idle - 1
      BY <2>1, <2>4 DEF Idle
    <3> QED  BY <1>0, <2>2, <3>1, <3>2, OneMoreThread
  <2> QED  BY <2>1, <2>3, <2>4 DEF Awake
<1>8. ASSUME NEW t \in Threads, Return(t) PROVE IdleCounted'
  <2>1. Counted' = Counted
    BY <1>8 DEF Return, Counted
  <2> QED  BY <1>1, <1>8, <2>1 DEF Return
<1>9. ASSUME UNCHANGED poolVars PROVE IdleCounted'
  <2>1. Counted' = Counted
    BY <1>9 DEF poolVars, Counted
  <2> QED  BY <1>1, <1>9, <2>1 DEF poolVars
<1> QED  BY <1>2, <1>3, <1>4, <1>5, <1>6, <1>7, <1>8, <1>9 DEF PoolNext

-----------------------------------------------------------------------------
(* The pool within the interface.                                          *)

\* The listener has a socket in hand exactly between accept and enqueue.
InHand == (lpc = "got" <=> hand # NoConn) /\ hand \in Conns \cup {NoConn}

\* Whatever the interface does, the pool sees one of its own steps or none.
LEMMA PoolSteps == InHand /\ [Next]_vars => PoolNext \/ UNCHANGED poolVars
<1> SUFFICES ASSUME InHand, [Next]_vars PROVE PoolNext \/ UNCHANGED poolVars
  OBVIOUS
<1>1. ASSUME NEW c \in Conns, Client(c) PROVE UNCHANGED poolVars
  BY <1>1 DEF Client, Connect, SendRequest, HangUp
<1>2. ASSUME Listener PROVE PoolNext \/ UNCHANGED poolVars
  <2>1. CASE Bind \/ ListenReturns \/ \E c \in Conns : Accept(c)
    BY <2>1 DEF Bind, ListenReturns, Accept
  <2>2. CASE EnqueueConn
    <3>1. hand \in Jobs
      BY <2>2 DEF EnqueueConn, InHand, Conns, NoConn
    <3> QED  BY <2>2, <3>1 DEF EnqueueConn, PoolNext
  <2>3. CASE Notify \/ Shutdown
    BY <2>3 DEF Notify, Shutdown, PoolNext
  <2> QED  BY <1>2, <2>1, <2>2, <2>3 DEF Listener
<1>3. ASSUME AcceptFails PROVE UNCHANGED poolVars
  BY <1>3 DEF AcceptFails
<1>4. ASSUME NEW t \in Threads, Between(t) \/ Begin(t) PROVE PoolNext
  BY <1>4 DEF Between, Begin, PoolNext
<1>5. ASSUME NEW t \in Threads, Handler(t) PROVE PoolNext \/ UNCHANGED poolVars
  <2>1. CASE Close(t)
    BY <2>1 DEF Close, PoolNext
  <2>2. CASE KeepAlive(t) \/ ReadRequest(t)
    BY <2>2 DEF KeepAlive, ReadRequest
  <2>3. CASE Route(t) \/ Count(t) \/ Write(t)
    BY <2>3 DEF Route, Count, Write
  <2> QED  BY <1>5, <2>1, <2>2, <2>3 DEF Handler
<1>6. ASSUME UNCHANGED vars PROVE UNCHANGED poolVars
  BY <1>6 DEF vars
<1> QED  BY <1>1, <1>2, <1>3, <1>4, <1>5, <1>6 DEF Next

-----------------------------------------------------------------------------
(***************************************************************************)
(* Types of the rest: a thread is on a connection exactly while it runs a  *)
(* job, has requests left while it serves one, and a kind of request from  *)
(* reading it to writing the answer.                                       *)
(***************************************************************************)
NetTypes ==
  /\ csock \in [Conns -> {"new", "backlog", "open", "closed", "refused"}]
  /\ inbox \in [Conns -> Nat]
  /\ sent \in 0 .. MaxSent
  /\ \A c \in Conns : inbox[c] <= sent
  /\ gone \subseteq Conns
  /\ lpc \in {"bind", "accept", "got", "failed", "returned"}
  /\ InHand

HandlerTypes ==
  /\ hpc \in [Threads -> {"none", "alive", "read", "route", "count", "write", "close"}]
  /\ left \in [Threads -> 0 .. KeepAliveMax]
  /\ req \in [Threads -> Kinds \cup {"none"}]
  /\ last \in [Threads -> BOOLEAN]
  /\ page \in [Threads -> [Labels -> Nat]]
  /\ total \in [Labels -> Nat]
  /\ events \in Nat
  /\ \A t \in Threads :
       /\ hpc[t] # "none" <=> tpc[t] = "run"
       /\ hpc[t] \in {"read", "route", "count", "write"} => left[t] > 0
       /\ hpc[t] \in {"route", "count", "write"} => req[t] \in Kinds

TypeInv == PoolTypes /\ IdleCounted /\ NetTypes /\ HandlerTypes

\* The declared types are part of the invariant.
LEMMA TypeInv_TypeOK == TypeInv => TypeOK
<1> SUFFICES ASSUME TypeInv PROVE TypeOK
  OBVIOUS
<1>1. inbox \in [Conns -> 0 .. MaxSent]
  BY NorthboundAssumption DEF TypeInv, NetTypes
<1>2. /\ jobs \in Seq(Conns) /\ shutdown \in BOOLEAN /\ idle = Cardinality(Counted)
      /\ tpc \in [Threads -> {"none", "loop", "wait", "awake", "expired", "run", "finished", "exit"}]
      /\ fn \in [Threads -> Conns \cup {NoConn}]
      /\ owner \in {"ready", "notify", "wake", "join", "collect", "down"}
      /\ finished \subseteq Conns
      /\ \A t \in Threads : (tpc[t] = "run" <=> fn[t] # NoConn) /\ (tpc[t] = "none" => t \in Dynamic)
  BY DEF TypeInv, PoolTypes, IdleCounted
<1>3. /\ csock \in [Conns -> {"new", "backlog", "open", "closed", "refused"}]
      /\ sent \in 0 .. MaxSent /\ gone \subseteq Conns
      /\ lpc \in {"bind", "accept", "got", "failed", "returned"}
      /\ hand \in Conns \cup {NoConn}
  BY DEF TypeInv, NetTypes, InHand
<1>4. HandlerTypes
  BY DEF TypeInv
<1> QED  BY <1>1, <1>2, <1>3, <1>4 DEF TypeOK, HandlerTypes

\* Nothing is sent or accepted yet, and no thread is on a connection.
LEMMA TypeInv_Init == Init => TypeInv
<1> SUFFICES ASSUME Init PROVE TypeInv
  OBVIOUS
<1>1. PoolTypes /\ IdleCounted
  BY PoolTypes_Init DEF Init
<1>2. NetTypes
  BY NorthboundAssumption DEF Init, NetTypes, InHand
<1>3. None \in [Labels -> Nat]
  BY DEF None
<1>4. \A t \in Threads : tpc[t] # "run"
  BY DEF Init, PoolInit
<1>5. HandlerTypes
  BY <1>3, <1>4, NorthboundAssumption DEF Init, HandlerTypes
<1> QED  BY <1>1, <1>2, <1>5 DEF TypeInv

\* The clients and the listener keep their types.
LEMMA NetTypes_Next == NetTypes /\ PoolTypes /\ [Next]_vars => NetTypes'
<1> SUFFICES ASSUME NetTypes, PoolTypes, [Next]_vars PROVE NetTypes'
  OBVIOUS
<1> USE NorthboundAssumption DEF NetTypes, InHand
<1>0. ASSUME UNCHANGED <<netVars, listenVars>> PROVE NetTypes'
  BY <1>0 DEF netVars, listenVars
<1>1. ASSUME NEW c \in Conns, Connect(c) \/ HangUp(c) PROVE NetTypes'
  BY <1>1 DEF Connect, HangUp, listenVars
<1>2. ASSUME NEW c \in Conns, SendRequest(c) PROVE NetTypes'
  <2>1. sent' = sent + 1 /\ sent + 1 \in 0 .. MaxSent
    BY <1>2 DEF SendRequest
  <2>2. inbox' = [inbox EXCEPT ![c] = @ + 1]
    BY <1>2 DEF SendRequest
  <2>3. inbox' \in [Conns -> Nat] /\ \A d \in Conns : inbox'[d] <= sent'
    BY <2>1, <2>2
  <2> QED  BY <1>2, <2>1, <2>3 DEF SendRequest, listenVars
<1>3. ASSUME NEW c \in Conns, Accept(c) PROVE NetTypes'
  BY <1>3, HttpPoolAssumption DEF Accept, Conns, NoConn
<1>4. ASSUME Bind \/ EnqueueConn \/ AcceptFails \/ ListenReturns PROVE NetTypes'
  <2>1. CASE Bind
    BY <2>1 DEF Bind, netVars
  <2>2. CASE EnqueueConn
    BY <2>2 DEF EnqueueConn, netVars
  <2>3. CASE AcceptFails
    BY <2>3 DEF AcceptFails
  <2>4. CASE ListenReturns
    BY <2>4 DEF ListenReturns, netVars
  <2> QED  BY <1>4, <2>1, <2>2, <2>3, <2>4
<1>5. ASSUME Notify \/ Shutdown PROVE NetTypes'
  BY <1>0, <1>5 DEF Notify, Shutdown
<1>6. ASSUME NEW t \in Threads, Between(t) \/ Begin(t) PROVE NetTypes'
  BY <1>0, <1>6 DEF Between, Begin
<1>7. ASSUME NEW t \in Threads, ReadRequest(t) PROVE NetTypes'
  <2>1. CASE UNCHANGED inbox
    BY <1>0, <1>7, <2>1 DEF ReadRequest, netVars
  <2>2. CASE inbox[fn[t]] > 0 /\ inbox' = [inbox EXCEPT ![fn[t]] = @ - 1]
    <3>0. inbox' = [c \in Conns |-> IF c = fn[t] THEN inbox[c] - 1 ELSE inbox[c]]
      BY <2>2
    <3>1. ASSUME NEW c \in Conns PROVE inbox'[c] \in Nat /\ inbox'[c] <= inbox[c]
      BY <2>2, <3>0
    <3>2. inbox' \in [Conns -> Nat] /\ \A c \in Conns : inbox'[c] <= sent
      BY <3>0, <3>1
    <3> QED  BY <1>7, <3>2 DEF ReadRequest, listenVars
  <2> QED  BY <1>7, <2>1, <2>2 DEF ReadRequest
<1>8. ASSUME NEW t \in Threads, Close(t) PROVE NetTypes'
  BY <1>8 DEF Close, listenVars
<1>9. ASSUME NEW t \in Threads, KeepAlive(t) \/ Route(t) \/ Count(t) \/ Write(t) PROVE NetTypes'
  BY <1>0, <1>9 DEF KeepAlive, Route, Count, Write
<1>10. ASSUME UNCHANGED vars PROVE NetTypes'
  BY <1>0, <1>10 DEF vars
<1> QED  BY <1>1, <1>2, <1>3, <1>4, <1>5, <1>6, <1>7, <1>8, <1>9, <1>10
         DEF Next, Client, Listener, Handler

\* Only Take and Return change which threads run a job.
LEMMA RunsStable ==
  ASSUME PoolTypes,
         \/ UNCHANGED poolVars
         \/ \E j \in Jobs : Enqueue(j)
         \/ NotifyOne \/ SetShutdown \/ NotifyAll \/ JoinBase \/ JoinDynamic
         \/ \E t \in Threads : Sleep(t) \/ Timeout(t) \/ Retire(t) \/ Leave(t)
  PROVE  \A u \in Threads : tpc'[u] = "run" <=> tpc[u] = "run"
<1> USE DEF PoolTypes
<1>1. ASSUME NEW j \in Jobs, Enqueue(j) PROVE \A u \in Threads : tpc'[u] = "run" <=> tpc[u] = "run"
  <2>1. CASE Spawns
    <3>1. PICK d \in Dynamic \ Spawned :
            tpc' = [t \in Threads |-> IF t = d THEN "loop"
                                      ELSE IF tpc[t] = "finished" THEN "none" ELSE tpc[t]]
      BY <1>1, <2>1 DEF Enqueue
    <3>2. tpc[d] \in {"none", "finished"}
      BY <3>1 DEF Spawned
    <3> QED  BY <3>1, <3>2
  <2>2. CASE ~Spawns
    BY <1>1, <2>2 DEF Enqueue
  <2> QED  BY <2>1, <2>2
<1>2. ASSUME NotifyOne \/ NotifyAll PROVE \A u \in Threads : tpc'[u] = "run" <=> tpc[u] = "run"
  BY <1>2 DEF NotifyOne, NotifyAll, Asleep
<1>3. ASSUME SetShutdown \/ JoinBase \/ JoinDynamic \/ UNCHANGED poolVars
      PROVE  \A u \in Threads : tpc'[u] = "run" <=> tpc[u] = "run"
  BY <1>3 DEF SetShutdown, JoinBase, JoinDynamic, poolVars
<1>4. ASSUME NEW t \in Threads, Sleep(t) \/ Timeout(t) \/ Retire(t) \/ Leave(t)
      PROVE  \A u \in Threads : tpc'[u] = "run" <=> tpc[u] = "run"
  BY <1>4 DEF Sleep, Timeout, Retire, Leave, Awake
<1> QED  BY <1>1, <1>2, <1>3, <1>4

\* Only an accepted event is answered 202; an event that is accepted and has
\* nothing at the range it asks for is answered 416.
LEMMA EventLabel ==
  /\ Answer["event"] \in Labels /\ Answer["outside"] \in Labels
  /\ \A k \in Kinds : Answer[k] \in Labels /\ (Answer[k] = Answer["event"] <=> k = "event")
  /\ Answer["event"] # Answer["outside"]
<1>1. \A k \in Kinds : k \in {"health", "metrics", "event", "outside", "badrange", "badtype",
                              "cutoff", "missing", "garbled"}
  BY NorthboundAssumption DEF Answer
<1>2. \A k \in Kinds : Answer[k] = Answer["event"] <=> k = "event"
  BY <1>1 DEF Answer
<1>3. Answer["event"] # Answer["outside"]
  BY DEF Answer
<1>4. "event" \in DOMAIN Answer /\ "outside" \in DOMAIN Answer
  BY DEF Answer
<1> QED  BY <1>2, <1>3, <1>4, NorthboundAssumption DEF Labels

\* A label that is counted is one of Labels.
LEMMA CountType ==
  ASSUME NEW f \in [Labels -> Nat], NEW k \in Kinds
  PROVE  /\ Answer[k] \in Labels
         /\ [f EXCEPT ![Answer[k]] = @ + 1] \in [Labels -> Nat]
<1>1. Answer[k] \in Labels
  BY EventLabel
<1>2. \A l \in Labels : f[l] + 1 \in Nat
  OBVIOUS
<1> QED  BY <1>1, <1>2

\* The threads that serve connections keep their types.
LEMMA HandlerTypes_Next ==
  PoolTypes /\ NetTypes /\ HandlerTypes /\ [Next]_vars => HandlerTypes'
<1> SUFFICES ASSUME PoolTypes, NetTypes, HandlerTypes, [Next]_vars PROVE HandlerTypes'
  OBVIOUS
<1> USE NorthboundAssumption DEF HandlerTypes
<1>0. ASSUME UNCHANGED <<threadVars, events, total>>,
             \A u \in Threads : tpc'[u] = "run" <=> tpc[u] = "run"
      PROVE  HandlerTypes'
  BY <1>0 DEF threadVars
<1>1. ASSUME NEW c \in Conns, Client(c) PROVE HandlerTypes'
  BY <1>0, <1>1, RunsStable DEF Client, Connect, SendRequest, HangUp, countVars
<1>2. ASSUME Listener \/ AcceptFails PROVE HandlerTypes'
  <2>1. CASE Bind \/ ListenReturns \/ AcceptFails \/ \E c \in Conns : Accept(c)
    BY <1>0, <2>1, RunsStable DEF Bind, ListenReturns, AcceptFails, Accept, countVars
  <2>2. CASE EnqueueConn
    <3>1. hand \in Jobs
      BY <2>2 DEF EnqueueConn, NetTypes, InHand, Conns, NoConn
    <3> QED  BY <1>0, <2>2, <3>1, RunsStable DEF EnqueueConn, countVars
  <2>3. CASE Notify \/ Shutdown
    BY <1>0, <2>3, RunsStable DEF Notify, Shutdown, countVars
  <2> QED  BY <1>2, <2>1, <2>2, <2>3 DEF Listener
<1>3. ASSUME NEW t \in Threads, Between(t) PROVE HandlerTypes'
  BY <1>0, <1>3, RunsStable DEF Between, countVars
<1>4. ASSUME NEW t \in Threads, Begin(t) PROVE HandlerTypes'
  <2>1. tpc' = [tpc EXCEPT ![t] = "run"] /\ hpc' = [hpc EXCEPT ![t] = "alive"]
    BY <1>4 DEF Begin, Take, Goto
  <2>2. left' = [left EXCEPT ![t] = KeepAliveMax]
    BY <1>4 DEF Begin
  <2>3. UNCHANGED <<req, last, page, events, total>>
    BY <1>4 DEF Begin, countVars
  <2> QED  BY <2>1, <2>2, <2>3 DEF PoolTypes
<1>5. ASSUME NEW t \in Threads, KeepAlive(t) PROVE HandlerTypes'
  <2>1. tpc' = tpc /\ UNCHANGED <<left, req, last, page, events, total>>
    BY <1>5 DEF KeepAlive, poolVars, countVars
  <2>2. /\ hpc[t] = "alive"
        /\ \/ left[t] > 0 /\ hpc' = [hpc EXCEPT ![t] = "read"]
           \/ hpc' = [hpc EXCEPT ![t] = "close"]
    BY <1>5 DEF KeepAlive, Goto
  <2> QED  BY <2>1, <2>2
<1>6. ASSUME NEW t \in Threads, ReadRequest(t) PROVE HandlerTypes'
  <2>1. tpc' = tpc /\ UNCHANGED <<left, page, events, total>> /\ hpc[t] = "read"
    BY <1>6 DEF ReadRequest, poolVars, countVars
  <2>2. CASE hpc' = [hpc EXCEPT ![t] = "close"] /\ UNCHANGED <<req, last>>
    BY <2>1, <2>2
  <2>3. CASE \E k \in Kinds, b \in BOOLEAN :
               /\ req' = [req EXCEPT ![t] = k]
               /\ last' = [last EXCEPT ![t] = b]
               /\ \/ hpc' = [hpc EXCEPT ![t] = "count"]
                  \/ hpc' = [hpc EXCEPT ![t] = "route"]
    <3>1. PICK k \in Kinds, b \in BOOLEAN, label \in {"count", "route"} :
            /\ req' = [req EXCEPT ![t] = k]
            /\ last' = [last EXCEPT ![t] = b]
            /\ hpc' = [hpc EXCEPT ![t] = label]
      BY <2>3
    <3>2. /\ req' \in [Threads -> Kinds \cup {"none"}] /\ req'[t] = k
          /\ \A u \in Threads \ {t} : req'[u] = req[u]
      BY <3>1
    <3>3. /\ hpc' \in [Threads -> {"none", "alive", "read", "route", "count", "write", "close"}]
          /\ hpc'[t] = label /\ \A u \in Threads \ {t} : hpc'[u] = hpc[u]
      BY <3>1
    <3>4. last' \in [Threads -> BOOLEAN]
      BY <3>1
    <3>5. \A u \in Threads :
            /\ hpc'[u] # "none" <=> tpc'[u] = "run"
            /\ hpc'[u] \in {"read", "route", "count", "write"} => left'[u] > 0
            /\ hpc'[u] \in {"route", "count", "write"} => req'[u] \in Kinds
      BY <2>1, <3>2, <3>3
    <3> QED  BY <2>1, <3>2, <3>3, <3>4, <3>5
  <2> QED  BY <1>6, <2>2, <2>3 DEF ReadRequest, Goto
<1>7. ASSUME NEW t \in Threads, Route(t) PROVE HandlerTypes'
  <2>1. /\ tpc' = tpc /\ UNCHANGED <<left, req, last, total>> /\ hpc[t] = "route"
        /\ hpc' = [hpc EXCEPT ![t] = "count"]
    BY <1>7 DEF Route, Goto, poolVars, countVars
  <2>2. page' \in [Threads -> [Labels -> Nat]]
    BY <1>7 DEF Route
  <2>3. events' \in Nat
    BY <1>7 DEF Route
  <2> QED  BY <2>1, <2>2, <2>3
<1>8. ASSUME NEW t \in Threads, Count(t) PROVE HandlerTypes'
  <2>1. /\ tpc' = tpc /\ UNCHANGED <<left, req, last, page, events>> /\ hpc[t] = "count"
        /\ hpc' = [hpc EXCEPT ![t] = "write"]
    BY <1>8 DEF Count, Goto, poolVars
  <2>2. total' \in [Labels -> Nat]
    BY <1>8, <2>1, CountType DEF Count
  <2> QED  BY <2>1, <2>2
<1>9. ASSUME NEW t \in Threads, Write(t) PROVE HandlerTypes'
  <2>1. /\ tpc' = tpc /\ UNCHANGED <<events, total>> /\ hpc[t] = "write"
        /\ req' = [req EXCEPT ![t] = "none"] /\ last' = [last EXCEPT ![t] = FALSE]
        /\ page' = [page EXCEPT ![t] = None]
    BY <1>9 DEF Write, poolVars
  <2>2. \/ hpc' = [hpc EXCEPT ![t] = "alive"] /\ left' = [left EXCEPT ![t] = @ - 1]
        \/ hpc' = [hpc EXCEPT ![t] = "close"] /\ UNCHANGED left
    BY <1>9 DEF Write, Goto
  <2>3. None \in [Labels -> Nat]
    BY DEF None
  <2>4. page' \in [Threads -> [Labels -> Nat]]
    BY <2>1, <2>3
  <2>5. left' \in [Threads -> 0 .. KeepAliveMax] /\ \A u \in Threads \ {t} : left'[u] = left[u]
    <3>1. left[t] - 1 \in 0 .. KeepAliveMax
      BY <2>1
    <3> QED  BY <2>2, <3>1
  <2> QED  BY <2>1, <2>2, <2>4, <2>5
<1>10. ASSUME NEW t \in Threads, Close(t) PROVE HandlerTypes'
  <2>1. /\ tpc' = [tpc EXCEPT ![t] = "loop"] /\ hpc' = [hpc EXCEPT ![t] = "none"]
        /\ left' = [left EXCEPT ![t] = 0]
    BY <1>10 DEF Close, Return
  <2>2. UNCHANGED <<req, last, page, events, total>>
    BY <1>10 DEF Close, countVars
  <2> QED  BY <2>1, <2>2 DEF PoolTypes
<1>11. ASSUME UNCHANGED vars PROVE HandlerTypes'
  BY <1>0, <1>11, RunsStable DEF vars, countVars
<1> QED  BY <1>1, <1>2, <1>3, <1>4, <1>5, <1>6, <1>7, <1>8, <1>9, <1>10, <1>11
         DEF Next, Handler

\* The types of pool, listener and threads hold together.
LEMMA TypeInvariance == Spec => []TypeInv
<1>1. TypeInv /\ [Next]_vars => TypeInv'
  BY PoolSteps, PoolTypes_Next, IdleCounted_Next, NetTypes_Next, HandlerTypes_Next
     DEF TypeInv, NetTypes
<1> QED  BY <1>1, TypeInv_Init, PTL DEF Spec

\* Every variable keeps its type, a thread is on a connection exactly while it
\* runs a job, and idle_thread_count_ counts the threads in wait.
THEOREM TypeCorrect == Spec => []TypeOK
  BY TypeInvariance, TypeInv_TypeOK, PTL

-----------------------------------------------------------------------------
(***************************************************************************)
(* Ownership.  OneOwner is not inductive: that no socket is open when      *)
(* listen returns rests on what shutdown has joined by then.               *)
(***************************************************************************)

\* Queued connections are open, and queued once.
QueueOwns ==
  /\ \A i \in DOMAIN jobs : csock[jobs[i]] = "open"
  /\ \A i, k \in DOMAIN jobs : jobs[i] = jobs[k] => i = k

\* The connection in the listener's hand is open and in nobody else's.
HandOwns ==
  hand # NoConn =>
    /\ csock[hand] = "open"
    /\ \A i \in DOMAIN jobs : jobs[i] # hand
    /\ \A t \in Threads : fn[t] # hand

\* So is that of a thread.
ThreadsOwn ==
  \A t \in Threads : fn[t] # NoConn =>
    /\ csock[fn[t]] = "open"
    /\ \A i \in DOMAIN jobs : jobs[i] # fn[t]
    /\ \A u \in Threads : fn[u] = fn[t] => u = t

\* No open connection is forgotten, and none that was served is open.
OpenOwned ==
  \A c \in Conns :
    /\ csock[c] = "open" =>
         \/ c = hand
         \/ \E i \in DOMAIN jobs : jobs[i] = c
         \/ \E t \in Threads : fn[t] = c
    /\ c \in finished => csock[c] = "closed"

\* How far shutdown has come; a thread leaves for good only when nothing is
\* queued and nothing will be, and the listener waits for all of them.
Ending ==
  /\ shutdown <=> owner \in {"wake", "join", "collect", "down"}
  /\ shutdown => lpc \in {"failed", "returned"}
  /\ (\E t \in Threads : tpc[t] = "exit") => shutdown /\ jobs = <<>>
  /\ owner \in {"collect", "down"} => \A t \in Base : tpc[t] = "exit"
  /\ owner = "down" => \A t \in Dynamic : tpc[t] \in {"none", "exit"}
  /\ lpc = "bind" => \A c \in Conns : csock[c] = "new"
  /\ lpc = "returned" => owner = "down" \/ \A c \in Conns : csock[c] = "new"

Owning == QueueOwns /\ HandOwns /\ ThreadsOwn /\ OpenOwned

OwnInv == Owning /\ Ending

\* Nobody has connected, and every thread is at its start.
LEMMA OwnInv_Init == Init => OwnInv
<1> SUFFICES ASSUME Init PROVE OwnInv
  OBVIOUS
<1>1. jobs = <<>> /\ finished = {} /\ hand = NoConn
  BY DEF Init, PoolInit
<1>2. \A c \in Conns : csock[c] = "new"
  BY DEF Init
<1>3. \A t \in Threads : fn[t] = NoConn /\ tpc[t] \in {"loop", "none"}
  BY DEF Init, PoolInit, NoConn
<1>4. Owning
  BY <1>1, <1>2, <1>3 DEF Owning, QueueOwns, HandOwns, ThreadsOwn, OpenOwned
<1>5. Ending
  BY <1>1, <1>2, <1>3 DEF Ending, Init, PoolInit
<1> QED  BY <1>4, <1>5 DEF OwnInv

\* What no action touches stays owned.
LEMMA Owning_Same ==
  ASSUME Owning, UNCHANGED <<jobs, csock, hand, fn, finished>>
  PROVE  Owning'
  BY DEF Owning, QueueOwns, HandOwns, ThreadsOwn, OpenOwned

\* A step of the interface keeps every open socket in one pair of hands.
LEMMA Owning_Next == TypeInv /\ Owning /\ [Next]_vars => Owning'
<1> SUFFICES ASSUME TypeInv, Owning, [Next]_vars PROVE Owning'
  OBVIOUS
<1>0. /\ jobs \in Seq(Conns) /\ csock \in [Conns -> {"new", "backlog", "open", "closed", "refused"}]
      /\ fn \in [Threads -> Conns \cup {NoConn}] /\ finished \subseteq Conns
      /\ InHand
      /\ \A t \in Threads : tpc[t] = "run" <=> fn[t] # NoConn
      /\ NoConn \notin Conns
  BY HttpPoolAssumption DEF TypeInv, PoolTypes, NetTypes, Conns, NoConn
<1> USE <1>0 DEF Owning, QueueOwns, HandOwns, ThreadsOwn, OpenOwned
<1>1. ASSUME AcceptFails \/ \E c \in Conns : Connect(c) PROVE Owning'
  <2>1. UNCHANGED <<jobs, fn, finished, hand>>
    BY <1>1 DEF Connect, AcceptFails, poolVars, listenVars
  <2>2. \A d \in Conns : /\ csock'[d] = "open" <=> csock[d] = "open"
                         /\ csock[d] = "closed" => csock'[d] = "closed"
    BY <1>1 DEF Connect, AcceptFails
  <2>3. \A i \in DOMAIN jobs : jobs[i] \in Conns
    OBVIOUS
  <2>4. QueueOwns' /\ HandOwns' /\ ThreadsOwn'
    BY <2>1, <2>2, <2>3 DEF InHand
  <2>5. OpenOwned'
    BY <2>1, <2>2
  <2> QED  BY <2>4, <2>5
<1>2. ASSUME NEW c \in Conns, Accept(c) PROVE Owning'
  <2>1. UNCHANGED <<jobs, fn, finished>> /\ hand' = c /\ hand = NoConn
    BY <1>2 DEF Accept, poolVars, InHand
  <2>2. csock[c] = "backlog" /\ csock' = [csock EXCEPT ![c] = "open"]
    BY <1>2 DEF Accept
  <2>3. \A d \in Conns : /\ csock[d] = "open" => csock'[d] = "open" /\ d # c
                         /\ csock[d] = "closed" => csock'[d] = "closed" /\ d # c
                         /\ csock'[d] = "open" => d = c \/ csock[d] = "open"
    BY <2>2
  <2>4. \A i \in DOMAIN jobs : jobs[i] \in Conns /\ jobs[i] # c
    <3>1. \A i \in DOMAIN jobs : jobs[i] \in Conns
      OBVIOUS
    <3> QED  BY <3>1, <2>3
  <2>5. \A u \in Threads : fn[u] # c
    BY <2>2
  <2>6. QueueOwns'
    BY <2>1, <2>3, <2>4
  <2>7. HandOwns'
    BY <2>1, <2>2, <2>4, <2>5
  <2>8. ThreadsOwn'
    BY <2>1, <2>3
  <2>9. OpenOwned'
    BY <2>1, <2>3
  <2> QED  BY <2>6, <2>7, <2>8, <2>9
<1>3. ASSUME EnqueueConn PROVE Owning'
  <2>1. /\ UNCHANGED <<csock, fn, finished>> /\ hand' = NoConn /\ hand \in Conns
        /\ jobs' = Append(jobs, hand)
    BY <1>3 DEF EnqueueConn, Enqueue, netVars, InHand
  <2>2. /\ DOMAIN jobs = 1 .. Len(jobs) /\ DOMAIN jobs' = 1 .. (Len(jobs) + 1)
        /\ Len(jobs) \in Nat
        /\ jobs'[Len(jobs) + 1] = hand
        /\ \A i \in DOMAIN jobs : jobs'[i] = jobs[i]
    BY <2>1, AppendJob
  <2>3. \A i \in DOMAIN jobs' : i = Len(jobs) + 1 \/ i \in DOMAIN jobs
    BY <2>2
  <2>4. QueueOwns'
    BY <2>1, <2>2, <2>3
  <2>5. ThreadsOwn'
    BY <2>1, <2>2, <2>3
  <2>6. OpenOwned'
    <3>1. DOMAIN jobs \subseteq DOMAIN jobs' /\ Len(jobs) + 1 \in DOMAIN jobs'
      BY <2>2
    <3> QED  BY <2>1, <2>2, <3>1
  <2> QED  BY <2>1, <2>4, <2>5, <2>6
<1>4. ASSUME NEW t \in Threads, Begin(t) PROVE Owning'
  <2>1. /\ UNCHANGED <<csock, hand, finished>> /\ jobs # <<>> /\ jobs' = Tail(jobs)
        /\ fn' = [fn EXCEPT ![t] = Head(jobs)] /\ tpc[t] # "run"
    BY <1>4 DEF Begin, Take, Awake, netVars, listenVars
  <2>2. /\ Head(jobs) \in Conns /\ Head(jobs) = jobs[1]
        /\ Len(jobs) \in Nat /\ Len(jobs) # 0
        /\ DOMAIN jobs = 1 .. Len(jobs) /\ DOMAIN jobs' = 1 .. (Len(jobs) - 1)
        /\ \A i \in 1 .. (Len(jobs) - 1) : jobs'[i] = jobs[i + 1]
    BY <2>1, TailJob
  <2>3. \A i \in DOMAIN jobs' : i + 1 \in DOMAIN jobs /\ i + 1 # 1 /\ jobs'[i] = jobs[i + 1]
    BY <2>2
  <2>4. 1 \in DOMAIN jobs
    BY <2>2
  <2>5. \A i \in DOMAIN jobs : i = 1 \/ (i - 1 \in DOMAIN jobs' /\ jobs'[i - 1] = jobs[i])
    BY <2>2
  <2>6. fn[t] = NoConn
    BY <2>1
  <2>7. QueueOwns'
    <3>1. \A i, k \in DOMAIN jobs' : i + 1 = k + 1 => i = k
      BY <2>2
    <3> QED  BY <2>1, <2>3, <3>1
  <2>8. HandOwns'
    BY <2>1, <2>2, <2>3, <2>4
  <2>9. ThreadsOwn'
    BY <2>1, <2>2, <2>3, <2>4
  <2>10. OpenOwned'
    <3> SUFFICES ASSUME NEW c \in Conns, csock[c] = "open", c # hand
                 PROVE  \/ \E i \in DOMAIN jobs' : jobs'[i] = c
                        \/ \E u \in Threads : fn'[u] = c
      BY <2>1
    <3>1. CASE \E u \in Threads : fn[u] = c
      <4>1. PICK u \in Threads : fn[u] = c
        BY <3>1
      <4>2. u # t
        BY <4>1, <2>6
      <4>3. fn'[u] = c
        BY <4>1, <4>2, <2>1
      <4> QED  BY <4>3
    <3>2. CASE \E i \in DOMAIN jobs : jobs[i] = c
      <4>1. PICK i \in DOMAIN jobs : jobs[i] = c
        BY <3>2
      <4>2. CASE i = 1
        <5>1. fn'[t] = c
          BY <2>1, <2>2, <4>1, <4>2
        <5> QED  BY <5>1
      <4>3. CASE i # 1
        BY <2>5, <4>1, <4>3
      <4> QED  BY <4>2, <4>3
    <3> QED  BY <3>1, <3>2
  <2> QED  BY <2>7, <2>8, <2>9, <2>10
<1>5. ASSUME NEW t \in Threads, Close(t) PROVE Owning'
  <2>1. /\ UNCHANGED <<jobs, hand>> /\ fn[t] \in Conns
        /\ csock' = [csock EXCEPT ![fn[t]] = "closed"]
        /\ fn' = [fn EXCEPT ![t] = NoConn]
        /\ finished' = finished \cup {fn[t]}
    BY <1>5 DEF Close, Return, listenVars, NoConn
  <2> QED  BY <2>1
<1>6. ASSUME \/ \E c \in Conns : SendRequest(c) \/ HangUp(c)
             \/ Bind \/ ListenReturns \/ Notify \/ Shutdown
             \/ \E t \in Threads : \/ Between(t) \/ KeepAlive(t) \/ ReadRequest(t)
                                  \/ Route(t) \/ Count(t) \/ Write(t)
             \/ UNCHANGED vars
      PROVE  Owning'
  <2>1. CASE \E c \in Conns : SendRequest(c) \/ HangUp(c)
    BY <2>1, Owning_Same DEF SendRequest, HangUp, poolVars, listenVars
  <2>2. CASE Bind \/ ListenReturns
    BY <2>2, Owning_Same DEF Bind, ListenReturns, poolVars, netVars
  <2>3. CASE Notify \/ Shutdown
    BY <2>3, Owning_Same DEF Notify, Shutdown, NotifyOne, SetShutdown, NotifyAll,
                             JoinBase, JoinDynamic, netVars, listenVars
  <2>4. CASE \E t \in Threads : Between(t)
    BY <2>4, Owning_Same DEF Between, Sleep, Timeout, Retire, Leave, netVars, listenVars
  <2>5. CASE \E t \in Threads : KeepAlive(t) \/ ReadRequest(t) \/ Route(t) \/ Count(t) \/ Write(t)
    BY <2>5, Owning_Same DEF KeepAlive, ReadRequest, Route, Count, Write,
                             poolVars, netVars, listenVars
  <2>6. CASE UNCHANGED vars
    BY <2>6, Owning_Same DEF vars, poolVars, netVars, listenVars
  <2> QED  BY <1>6, <2>1, <2>2, <2>3, <2>4, <2>5, <2>6
<1> QED  BY <1>1, <1>2, <1>3, <1>4, <1>5, <1>6 DEF Next, Client, Listener, Handler

\* A thread that moves on in worker, or stops or starts to serve a connection,
\* does not disturb the end.
LEMMA Ending_Moves ==
  ASSUME TypeInv, Ending, NEW t \in Threads, NEW label,
         UNCHANGED <<shutdown, owner, lpc>>,
         jobs' = jobs \/ jobs # <<>>,
         tpc[t] \notin {"none", "exit"},
         tpc' = [tpc EXCEPT ![t] = label],
         label = "exit" => shutdown /\ jobs' = <<>>,
         \A c \in Conns : csock[c] = "new" => csock'[c] = "new"
  PROVE  Ending'
<1>1. tpc \in [Threads -> {"none", "loop", "wait", "awake", "expired", "run", "finished", "exit"}]
  BY DEF TypeInv, PoolTypes
<1>2. \A u \in Threads : tpc'[u] = IF u = t THEN label ELSE tpc[u]
  BY <1>1
<1>3. Threads = Base \cup Dynamic
  BY DEF Threads
<1>4. owner \in {"collect", "down"} => t \notin Base
  BY DEF Ending
<1>5. owner # "down"
  BY <1>3 DEF Ending
<1>6. (\E u \in Threads : tpc'[u] = "exit") => shutdown' /\ jobs' = <<>>
  BY <1>2 DEF Ending
<1>7. owner' \in {"collect", "down"} => \A u \in Base : tpc'[u] = "exit"
  BY <1>2, <1>3, <1>4 DEF Ending
<1> QED  BY <1>5, <1>6, <1>7 DEF Ending

\* Nor does anything that is not the pool's.
LEMMA Ending_Same ==
  ASSUME Ending, UNCHANGED <<jobs, shutdown, tpc, owner, lpc>>,
         \A c \in Conns : csock[c] = "new" => csock'[c] = "new"
  PROVE  Ending'
  BY DEF Ending

\* Shutdown goes on only when those it waits for have left.
LEMMA Ending_Next == TypeInv /\ Owning /\ Ending /\ [Next]_vars => Ending'
<1> SUFFICES ASSUME TypeInv, Owning, Ending, [Next]_vars PROVE Ending'
  OBVIOUS
<1>0. /\ tpc \in [Threads -> {"none", "loop", "wait", "awake", "expired", "run", "finished", "exit"}]
      /\ csock \in [Conns -> {"new", "backlog", "open", "closed", "refused"}]
      /\ Threads = Base \cup Dynamic
  BY DEF TypeInv, PoolTypes, NetTypes, Threads
<1>1. ASSUME NEW c \in Conns, Connect(c) PROVE Ending'
  <2>1. UNCHANGED <<jobs, shutdown, tpc, owner, lpc>> /\ lpc \in {"accept", "got"}
    BY <1>1 DEF Connect, poolVars, listenVars
  <2> QED  BY <2>1 DEF Ending
<1>2. ASSUME NEW c \in Conns, Accept(c) PROVE Ending'
  <2>1. UNCHANGED <<jobs, shutdown, tpc, owner>> /\ lpc = "accept" /\ lpc' = "got"
    BY <1>2 DEF Accept, poolVars
  <2> QED  BY <2>1 DEF Ending
<1>3. ASSUME AcceptFails PROVE Ending'
  <2>1. UNCHANGED <<jobs, shutdown, tpc, owner>> /\ lpc = "accept" /\ lpc' = "failed"
    BY <1>3 DEF AcceptFails, poolVars
  <2> QED  BY <2>1 DEF Ending
<1>4. ASSUME Bind PROVE Ending'
  <2>1. /\ UNCHANGED <<jobs, shutdown, tpc, owner, csock>>
        /\ lpc = "bind" /\ lpc' \in {"accept", "returned"}
    BY <1>4 DEF Bind, poolVars, netVars
  <2> QED  BY <2>1 DEF Ending
<1>5. ASSUME EnqueueConn PROVE Ending'
  <2>1. /\ owner = "ready" /\ owner' = "notify" /\ ~shutdown /\ ~shutdown'
        /\ lpc' = "accept" /\ csock' = csock
    BY <1>5 DEF EnqueueConn, Enqueue, netVars
  <2>2. \A u \in Threads : tpc[u] # "exit"
    BY <2>1 DEF Ending
  <2>3. \A u \in Threads : tpc'[u] # "exit"
    <3>1. CASE Spawns
      <4>1. PICK d \in Dynamic \ Spawned :
              tpc' = [t \in Threads |-> IF t = d THEN "loop"
                                        ELSE IF tpc[t] = "finished" THEN "none" ELSE tpc[t]]
        BY <1>5, <3>1 DEF EnqueueConn, Enqueue
      <4> QED  BY <2>2, <4>1
    <3>2. CASE ~Spawns
      BY <1>5, <2>2, <3>2 DEF EnqueueConn, Enqueue
    <3> QED  BY <3>1, <3>2
  <2> QED  BY <2>1, <2>3 DEF Ending
<1>6. ASSUME Notify PROVE Ending'
  <2>1. /\ owner = "notify" /\ owner' = "ready" /\ ~shutdown
        /\ UNCHANGED <<jobs, shutdown, lpc, csock>>
    BY <1>6 DEF Notify, NotifyOne, netVars, listenVars, Ending
  <2>2. \A u \in Threads : tpc[u] # "exit"
    BY <2>1 DEF Ending
  <2>3. \A u \in Threads : tpc'[u] # "exit"
    BY <1>0, <1>6, <2>2 DEF Notify, NotifyOne, Asleep
  <2> QED  BY <2>1, <2>3 DEF Ending
<1>7. ASSUME Shutdown PROVE Ending'
  <2>0. lpc = "failed" /\ UNCHANGED <<jobs, lpc, csock>>
    BY <1>7 DEF Shutdown, netVars, listenVars, SetShutdown, NotifyAll, JoinBase, JoinDynamic
  <2>1. CASE SetShutdown
    BY <2>0, <2>1 DEF SetShutdown, Ending
  <2>2. CASE NotifyAll
    <3>1. \A u \in Threads : tpc'[u] = "exit" <=> tpc[u] = "exit"
      BY <2>2, <1>0 DEF NotifyAll, Asleep
    <3> QED  BY <2>0, <2>2, <3>1 DEF NotifyAll, Ending
  <2>3. CASE JoinBase
    BY <2>0, <2>3 DEF JoinBase, Ending
  <2>4. CASE JoinDynamic
    <3>1. \A u \in Threads : tpc'[u] = "exit" <=> tpc[u] = "exit"
      BY <2>4, <1>0 DEF JoinDynamic
    <3>2. \A u \in Dynamic : tpc'[u] \in {"none", "exit"}
      BY <2>4, <1>0 DEF JoinDynamic, Spawned
    <3>3. owner = "collect" /\ owner' = "down" /\ shutdown' = shutdown
      BY <2>4 DEF JoinDynamic
    <3> QED  BY <1>0, <2>0, <3>1, <3>2, <3>3 DEF Ending
  <2> QED  BY <1>7, <2>1, <2>2, <2>3, <2>4 DEF Shutdown
<1>8. ASSUME ListenReturns PROVE Ending'
  <2>1. /\ UNCHANGED <<jobs, shutdown, tpc, owner, csock>>
        /\ owner = "down" /\ lpc' = "returned"
    BY <1>8 DEF ListenReturns, poolVars, netVars
  <2> QED  BY <2>1 DEF Ending
<1>9. ASSUME NEW t \in Threads, Between(t) PROVE Ending'
  <2>1. UNCHANGED <<shutdown, owner, lpc, csock, jobs>>
    BY <1>9 DEF Between, Sleep, Timeout, Retire, Leave, netVars, listenVars
  <2>2. PICK label :
          /\ tpc[t] \notin {"none", "exit"} /\ tpc' = [tpc EXCEPT ![t] = label]
          /\ label = "exit" => shutdown /\ jobs = <<>>
    BY <1>9 DEF Between, Sleep, Timeout, Retire, Leave, Awake
  <2> QED  BY <2>1, <2>2, Ending_Moves
<1>10. ASSUME NEW t \in Threads, Begin(t) PROVE Ending'
  <2>1. /\ UNCHANGED <<shutdown, owner, lpc, csock>> /\ jobs # <<>>
        /\ tpc[t] \notin {"none", "exit"} /\ tpc' = [tpc EXCEPT ![t] = "run"]
    BY <1>10 DEF Begin, Take, Awake, netVars, listenVars
  <2> QED  BY <2>1, Ending_Moves
<1>11. ASSUME NEW t \in Threads, Close(t) PROVE Ending'
  <2>1. /\ UNCHANGED <<shutdown, owner, lpc, jobs>>
        /\ tpc[t] = "run" /\ tpc' = [tpc EXCEPT ![t] = "loop"]
        /\ csock' = [csock EXCEPT ![fn[t]] = "closed"]
    BY <1>11 DEF Close, Return, listenVars
  <2>2. csock[fn[t]] = "open"
    BY <2>1 DEF TypeInv, PoolTypes, Owning, ThreadsOwn
  <2>3. \A c \in Conns : csock[c] = "new" => csock'[c] = "new"
    BY <1>0, <2>1, <2>2
  <2> QED  BY <2>1, <2>3, Ending_Moves
<1>12. ASSUME \/ \E c \in Conns : SendRequest(c) \/ HangUp(c)
              \/ \E t \in Threads : \/ KeepAlive(t) \/ ReadRequest(t)
                                   \/ Route(t) \/ Count(t) \/ Write(t)
              \/ UNCHANGED vars
       PROVE  Ending'
  <2>1. CASE \E c \in Conns : SendRequest(c) \/ HangUp(c)
    BY <2>1, Ending_Same DEF SendRequest, HangUp, poolVars, listenVars
  <2>2. CASE \E t \in Threads : KeepAlive(t) \/ ReadRequest(t)
    BY <2>2, Ending_Same DEF KeepAlive, ReadRequest, poolVars, netVars, listenVars
  <2>3. CASE \E t \in Threads : Route(t) \/ Count(t) \/ Write(t)
    BY <2>3, Ending_Same DEF Route, Count, Write, poolVars, netVars, listenVars
  <2>4. CASE UNCHANGED vars
    BY <2>4, Ending_Same DEF vars, poolVars, netVars, listenVars
  <2> QED  BY <1>12, <2>1, <2>2, <2>3, <2>4
<1> QED  BY <1>1, <1>2, <1>3, <1>4, <1>5, <1>6, <1>7, <1>8, <1>9, <1>10, <1>11, <1>12
         DEF Next, Client, Listener, Handler

\* Types, ownership and the course of shutdown hold together.
LEMMA OwnInvariance == Spec => [](TypeInv /\ OwnInv)
<1>1. OwnInv /\ TypeInv /\ [Next]_vars => OwnInv'
  BY Owning_Next, Ending_Next DEF OwnInv
<1> QED  BY <1>1, OwnInv_Init, TypeInvariance, PTL DEF Spec

\* The one owner of an open connection is the one that OpenOwned finds.
LEMMA OwnInv_OneOwner == TypeInv /\ OwnInv => OneOwner
<1> SUFFICES ASSUME TypeInv, OwnInv PROVE OneOwner
  OBVIOUS
<1>0. /\ NoConn \notin Conns /\ hand \in Conns \cup {NoConn} /\ jobs \in Seq(Conns)
      /\ fn \in [Threads -> Conns \cup {NoConn}]
  BY HttpPoolAssumption DEF TypeInv, PoolTypes, NetTypes, InHand, Conns, NoConn
<1> DEFINE Listens(c) == {<<"listener", 0>> : x \in {hand} \cap {c}}
           Queued(c)  == {<<"job", i>> : i \in {j \in DOMAIN jobs : jobs[j] = c}}
           Served(c)  == {<<"thread", t>> : t \in {u \in Threads : fn[u] = c}}
<1>1. ASSUME NEW c \in Conns
      PROVE  Cardinality(Listens(c) \cup Queued(c) \cup Served(c))
               = IF csock[c] = "open" THEN 1 ELSE 0
  <2>1. CASE csock[c] # "open"
    <3>1. hand # c /\ (\A i \in DOMAIN jobs : jobs[i] # c) /\ (\A t \in Threads : fn[t] # c)
      BY <1>0, <2>1 DEF OwnInv, Owning, QueueOwns, HandOwns, ThreadsOwn
    <3>2. Listens(c) \cup Queued(c) \cup Served(c) = {}
      BY <3>1
    <3> QED  BY <2>1, <3>2, FS_EmptySet
  <2>2. CASE csock[c] = "open" /\ c = hand
    <3>1. (\A i \in DOMAIN jobs : jobs[i] # c) /\ (\A t \in Threads : fn[t] # c)
      BY <1>0, <2>2 DEF OwnInv, Owning, HandOwns
    <3>2. Listens(c) \cup Queued(c) \cup Served(c) = {<<"listener", 0>>}
      BY <2>2, <3>1
    <3> QED  BY <2>2, <3>2, FS_Singleton
  <2>3. ASSUME csock[c] = "open", NEW i \in DOMAIN jobs, jobs[i] = c
        PROVE  Cardinality(Listens(c) \cup Queued(c) \cup Served(c)) = 1
    <3>1. hand # c /\ (\A t \in Threads : fn[t] # c)
      BY <1>0, <2>3 DEF OwnInv, Owning, HandOwns, ThreadsOwn
    <3>2. \A k \in DOMAIN jobs : jobs[k] = c <=> k = i
      BY <2>3 DEF OwnInv, Owning, QueueOwns
    <3>3. Listens(c) \cup Queued(c) \cup Served(c) = {<<"job", i>>}
      BY <3>1, <3>2
    <3> QED  BY <3>3, FS_Singleton
  <2>4. ASSUME csock[c] = "open", NEW t \in Threads, fn[t] = c
        PROVE  Cardinality(Listens(c) \cup Queued(c) \cup Served(c)) = 1
    <3>1. hand # c /\ (\A i \in DOMAIN jobs : jobs[i] # c)
      BY <1>0, <2>4 DEF OwnInv, Owning, HandOwns, ThreadsOwn
    <3>2. \A u \in Threads : fn[u] = c <=> u = t
      BY <1>0, <2>4 DEF OwnInv, Owning, ThreadsOwn
    <3>3. Listens(c) \cup Queued(c) \cup Served(c) = {<<"thread", t>>}
      BY <3>1, <3>2
    <3> QED  BY <3>3, FS_Singleton
  <2> QED  BY <2>1, <2>2, <2>3, <2>4 DEF OwnInv, Owning, OpenOwned
<1>2. ASSUME lpc = "returned", NEW c \in Conns PROVE csock[c] # "open"
  <2>1. CASE owner = "down"
    <3>1. \A t \in Threads : tpc[t] \in {"none", "exit"}
      BY <2>1 DEF OwnInv, Ending, Threads
    <3>2. \A t \in Threads : fn[t] = NoConn
      BY <3>1 DEF TypeInv, PoolTypes
    <3>3. \E t \in Threads : tpc[t] = "exit"
      BY <2>1, HttpPoolAssumption DEF OwnInv, Ending, Threads
    <3>4. jobs = <<>>
      BY <3>3 DEF OwnInv, Ending
    <3>5. hand = NoConn
      BY <1>2 DEF TypeInv, NetTypes, InHand
    <3> QED  BY <1>0, <3>2, <3>4, <3>5 DEF OwnInv, Owning, OpenOwned
  <2>2. CASE \A d \in Conns : csock[d] = "new"
    BY <2>2
  <2> QED  BY <1>2, <2>1, <2>2 DEF OwnInv, Ending
<1> QED  BY <1>1, <1>2 DEF OneOwner

\* An accepted socket is in exactly one pair of hands until it is closed, and
\* when listen returns none is open.
THEOREM OwnedOnce == Spec => []OneOwner
  BY OwnInvariance, OwnInv_OneOwner, PTL

-----------------------------------------------------------------------------
(***************************************************************************)
(* The counters.  A response that is counted is being written or was; an   *)
(* event that was handed over is about to be counted or was.               *)
(***************************************************************************)
Writing(l)  == {t \in ThreadsAt({"write"}) : Answer[req[t]] = l}
Counting(l) == {t \in ThreadsAt({"count"}) : Answer[req[t]] = l}

ResponsesCounted ==
  /\ answered \in [Labels -> Nat]
  /\ \A l \in Labels : total[l] = answered[l] + Cardinality(Writing(l))

EventsCounted ==
  /\ WillCount(Answer["event"]) <= events
  /\ events <= WillCount(Answer["event"]) + WillCount(Answer["outside"])

\* The threads at a label are threads, and finitely many.
LEMMA ThreadSets ==
  \A l \in Labels : /\ Writing(l) \in SUBSET Threads /\ Cardinality(Writing(l)) \in Nat
                    /\ Counting(l) \in SUBSET Threads /\ Cardinality(Counting(l)) \in Nat
<1>1. \A l \in Labels : Writing(l) \in SUBSET Threads /\ Counting(l) \in SUBSET Threads
  BY DEF Writing, Counting, ThreadsAt
<1> QED  BY <1>1, FiniteThreads

\* What will be counted is what was, and a number of threads.
LEMMA WillCountType ==
  ASSUME total \in [Labels -> Nat]
  PROVE  \A l \in Labels : /\ WillCount(l) = total[l] + Cardinality(Counting(l))
                           /\ WillCount(l) \in Nat
<1>1. \A l \in Labels : WillCount(l) = total[l] + Cardinality(Counting(l))
  BY DEF WillCount, Counting
<1> QED  BY <1>1, ThreadSets

\* No response is being written or counted, and none was.
LEMMA Counted_Init == Init => ResponsesCounted /\ EventsCounted
<1> SUFFICES ASSUME Init PROVE ResponsesCounted /\ EventsCounted
  OBVIOUS
<1>1. \A l \in Labels : Writing(l) = {} /\ Counting(l) = {}
  BY DEF Init, Writing, Counting, ThreadsAt
<1>2. \A l \in Labels : Cardinality(Writing(l)) = 0 /\ Cardinality(Counting(l)) = 0
  BY <1>1, FS_EmptySet
<1>3. /\ total \in [Labels -> Nat] /\ answered \in [Labels -> Nat]
      /\ \A l \in Labels : total[l] = 0 /\ answered[l] = 0
  BY DEF Init, None
<1>4. ResponsesCounted
  BY <1>2, <1>3 DEF ResponsesCounted
<1>5. \A l \in Labels : WillCount(l) = 0
  BY <1>2, <1>3, WillCountType
<1> QED  BY <1>4, <1>5, EventLabel DEF Init, EventsCounted

\* A step that moves no thread to or from counting and writing keeps both.
LEMMA Counted_Same ==
  ASSUME ResponsesCounted, EventsCounted,
         UNCHANGED <<total, answered, events>>,
         \A t \in Threads :
           /\ hpc'[t] = "write" <=> hpc[t] = "write"
           /\ hpc'[t] = "count" <=> hpc[t] = "count"
           /\ hpc'[t] \in {"write", "count"} => req'[t] = req[t]
  PROVE  ResponsesCounted' /\ EventsCounted'
<1>1. \A l : Writing(l)' = Writing(l)
  BY DEF Writing, ThreadsAt
<1>2. \A l : WillCount(l)' = WillCount(l)
  BY DEF WillCount, ThreadsAt
<1>3. Labels' = Labels
  BY DEF Labels
<1>4. ResponsesCounted'
  BY <1>1, <1>3 DEF ResponsesCounted
<1>5. EventsCounted'
  BY <1>2 DEF EventsCounted
<1> QED  BY <1>4, <1>5

\* A thread that is about to count makes one more of its label.
LEMMA ToCount ==
  ASSUME NEW t \in Threads, NEW k \in Kinds,
         total \in [Labels -> Nat], total' = total,
         hpc \in [Threads -> {"none", "alive", "read", "route", "count", "write", "close"}],
         hpc[t] \notin {"count", "write"}, hpc' = [hpc EXCEPT ![t] = "count"],
         req'[t] = k, \A u \in Threads \ {t} : req'[u] = req[u]
  PROVE  /\ \A l : Writing(l)' = Writing(l)
         /\ \A l \in Labels :
              WillCount(l)' = IF l = Answer[k] THEN WillCount(l) + 1 ELSE WillCount(l)
<1>1. \A l : Writing(l)' = Writing(l)
  BY DEF Writing, ThreadsAt
<1>2. ASSUME NEW l \in Labels
      PROVE  WillCount(l)' = IF l = Answer[k] THEN WillCount(l) + 1 ELSE WillCount(l)
  <2>1. WillCount(l)' = total[l] + Cardinality(Counting(l)')
    BY DEF WillCount, Counting
  <2>2. WillCount(l) = total[l] + Cardinality(Counting(l))
    BY DEF WillCount, Counting
  <2>3. CASE l = Answer[k]
    <3>1. Counting(l)' = Counting(l) \cup {t} /\ t \notin Counting(l)
      BY <2>3 DEF Counting, ThreadsAt
    <3>2. Cardinality(Counting(l)') = Cardinality(Counting(l)) + 1
      BY <3>1, ThreadSets, OneMoreThread
    <3>3. total[l] \in Nat /\ Cardinality(Counting(l)) \in Nat
      BY ThreadSets
    <3> QED  BY <2>1, <2>2, <2>3, <3>2, <3>3
  <2>4. CASE l # Answer[k]
    <3>1. Counting(l)' = Counting(l)
      BY <2>4 DEF Counting, ThreadsAt
    <3> QED  BY <2>1, <2>2, <2>4, <3>1
  <2> QED  BY <2>3, <2>4
<1> QED  BY <1>1, <1>2

\* A response is counted as its thread starts to write it, and an event in the
\* step after it was handed over.
LEMMA Counted_Next ==
  TypeInv /\ ResponsesCounted /\ EventsCounted /\ [Next]_vars
    => ResponsesCounted' /\ EventsCounted'
<1> SUFFICES ASSUME TypeInv, ResponsesCounted, EventsCounted, [Next]_vars
             PROVE  ResponsesCounted' /\ EventsCounted'
  OBVIOUS
<1>0. /\ hpc \in [Threads -> {"none", "alive", "read", "route", "count", "write", "close"}]
      /\ req \in [Threads -> Kinds \cup {"none"}]
      /\ total \in [Labels -> Nat] /\ events \in Nat
      /\ \A t \in Threads : /\ hpc[t] # "none" <=> tpc[t] = "run"
                            /\ hpc[t] \in {"route", "count", "write"} => req[t] \in Kinds
  BY DEF TypeInv, HandlerTypes
<1> USE <1>0
<1> DEFINE accepted == WillCount(Answer["event"])
           refused  == WillCount(Answer["outside"])
<1>a. /\ accepted \in Nat /\ refused \in Nat
      /\ accepted <= events /\ events <= accepted + refused
  BY EventLabel, WillCountType DEF EventsCounted
<1>1. ASSUME \/ \E c \in Conns : Client(c) \/ Accept(c)
             \/ Bind \/ EnqueueConn \/ Notify \/ Shutdown \/ ListenReturns \/ AcceptFails
             \/ \E t \in Threads : Between(t)
             \/ UNCHANGED vars
      PROVE  ResponsesCounted' /\ EventsCounted'
  <2>1. UNCHANGED <<threadVars, events, countVars>>
    BY <1>1 DEF Client, Connect, SendRequest, HangUp, Accept, Bind, EnqueueConn, Notify,
                Shutdown, ListenReturns, AcceptFails, Between, vars
  <2> QED  BY <2>1, Counted_Same DEF threadVars, countVars
<1>2. ASSUME NEW t \in Threads, Begin(t) \/ KeepAlive(t) \/ Close(t)
      PROVE  ResponsesCounted' /\ EventsCounted'
  <2>1. UNCHANGED <<req, total, answered, events>>
    BY <1>2 DEF Begin, KeepAlive, Close, countVars
  <2>2. /\ hpc[t] \notin {"write", "count"}
        /\ \E label : label \notin {"write", "count"} /\ hpc' = [hpc EXCEPT ![t] = label]
    <3>1. CASE Begin(t)
      <4>1. hpc[t] = "none"
        BY <3>1 DEF Begin, Take, Awake
      <4> QED  BY <3>1, <4>1 DEF Begin, Goto
    <3>2. CASE KeepAlive(t)
      BY <3>2 DEF KeepAlive, Goto
    <3>3. CASE Close(t)
      BY <3>3 DEF Close
    <3> QED  BY <1>2, <3>1, <3>2, <3>3
  <2> QED  BY <2>1, <2>2, Counted_Same
<1>3. ASSUME NEW t \in Threads, ReadRequest(t) PROVE ResponsesCounted' /\ EventsCounted'
  <2>1. UNCHANGED <<total, answered, events>> /\ hpc[t] = "read"
    BY <1>3 DEF ReadRequest, countVars
  <2>2. CASE hpc' = [hpc EXCEPT ![t] = "close"] /\ req' = req
    BY <2>1, <2>2, Counted_Same
  <2>3. ASSUME NEW k \in Kinds, req' = [req EXCEPT ![t] = k],
               hpc' = [hpc EXCEPT ![t] = "route"]
        PROVE  ResponsesCounted' /\ EventsCounted'
    BY <2>1, <2>3, Counted_Same
  <2>4. ASSUME NEW k \in Kinds, k \in Unrouted, req' = [req EXCEPT ![t] = k],
               hpc' = [hpc EXCEPT ![t] = "count"]
        PROVE  ResponsesCounted' /\ EventsCounted'
    <3>0. req'[t] = k /\ \A u \in Threads \ {t} : req'[u] = req[u]
      BY <2>4
    <3>1. /\ \A l : Writing(l)' = Writing(l)
          /\ \A l \in Labels :
               WillCount(l)' = IF l = Answer[k] THEN WillCount(l) + 1 ELSE WillCount(l)
      <4>1. total' = total /\ hpc[t] \notin {"count", "write"}
        BY <2>1
      <4> QED  BY <2>4, <3>0, <4>1, ToCount, Zenon
    <3>2. ResponsesCounted'
      BY <2>1, <3>1 DEF ResponsesCounted, Labels
    <3>3. Answer[k] # Answer["event"]
      BY <2>4, EventLabel DEF Unrouted
    <3>4. accepted' = accepted /\ refused' \in {refused, refused + 1}
      BY <3>1, <3>3, EventLabel
    <3>5. events' = events
      BY <2>1
    <3>6. accepted' <= events' /\ events' <= accepted' + refused'
      BY <1>a, <3>4, <3>5
    <3> QED  BY <3>2, <3>6 DEF EventsCounted
  <2> QED  BY <1>3, <2>2, <2>3, <2>4 DEF ReadRequest, Goto
<1>4. ASSUME NEW t \in Threads, Route(t) PROVE ResponsesCounted' /\ EventsCounted'
  <2>1. /\ UNCHANGED <<req, total, answered>>
        /\ hpc[t] = "route" /\ hpc' = [hpc EXCEPT ![t] = "count"] /\ req[t] \in Kinds
        /\ events' = IF req[t] \in Posted THEN events + 1 ELSE events
    BY <1>4 DEF Route, Goto, countVars
  <2>2. /\ \A l : Writing(l)' = Writing(l)
        /\ \A l \in Labels :
             WillCount(l)' = IF l = Answer[req[t]] THEN WillCount(l) + 1 ELSE WillCount(l)
    <3>1. PICK k \in Kinds : k = req[t]
      BY <2>1
    <3>2. req'[t] = k /\ \A u \in Threads \ {t} : req'[u] = req[u]
      BY <2>1, <3>1
    <3>3. total' = total /\ hpc[t] \notin {"count", "write"}
      BY <2>1
    <3>4. /\ \A l : Writing(l)' = Writing(l)
          /\ \A l \in Labels :
               WillCount(l)' = IF l = Answer[k] THEN WillCount(l) + 1 ELSE WillCount(l)
      BY <2>1, <3>2, <3>3, ToCount, Zenon
    <3> QED  BY <3>1, <3>4
  <2>3. ResponsesCounted'
    BY <2>1, <2>2 DEF ResponsesCounted, Labels
  <2>4. accepted' <= events' /\ events' <= accepted' + refused'
    <3>1. CASE req[t] = "event"
      <4>1. accepted' = accepted + 1 /\ refused' = refused
        BY <2>2, <3>1, EventLabel
      <4>2. events' = events + 1
        BY <2>1, <3>1 DEF Posted
      <4> QED  BY <1>a, <4>1, <4>2
    <3>2. CASE req[t] = "outside"
      <4>1. accepted' = accepted /\ refused' = refused + 1
        BY <2>2, <3>2, EventLabel
      <4>2. events' = events + 1
        BY <2>1, <3>2 DEF Posted
      <4> QED  BY <1>a, <4>1, <4>2
    <3>3. CASE req[t] \notin {"event", "outside"}
      <4>1. accepted' = accepted /\ refused' \in {refused, refused + 1}
        BY <2>1, <2>2, <3>3, EventLabel
      <4>2. events' = events
        BY <2>1, <3>3 DEF Posted
      <4> QED  BY <1>a, <4>1, <4>2
    <3> QED  BY <3>1, <3>2, <3>3
  <2> QED  BY <2>3, <2>4 DEF EventsCounted
<1>5. ASSUME NEW t \in Threads, Count(t) PROVE ResponsesCounted' /\ EventsCounted'
  <2>1. /\ UNCHANGED <<req, events, answered>>
        /\ hpc[t] = "count" /\ hpc' = [hpc EXCEPT ![t] = "write"]
        /\ total' = [total EXCEPT ![Answer[req[t]]] = @ + 1]
        /\ req[t] \in Kinds
    BY <1>5 DEF Count, Goto
  <2>2. Answer[req[t]] \in Labels
    BY <2>1, CountType
  <2>3. \A l \in Labels : total'[l] = IF l = Answer[req[t]] THEN total[l] + 1 ELSE total[l]
    BY <2>1
  <2>4. ResponsesCounted'
    <3>1. ASSUME NEW l \in Labels PROVE total'[l] = answered'[l] + Cardinality(Writing(l)')
      <4>1. CASE l = Answer[req[t]]
        <5>1. Writing(l)' = Writing(l) \cup {t} /\ t \notin Writing(l)
          BY <2>1, <4>1 DEF Writing, ThreadsAt
        <5>2. Cardinality(Writing(l)') = Cardinality(Writing(l)) + 1 /\ Cardinality(Writing(l)) \in Nat
          BY <5>1, ThreadSets, OneMoreThread
        <5>3. total'[l] = total[l] + 1 /\ answered'[l] = answered[l]
          BY <2>1, <2>3, <4>1
        <5>4. /\ total[l] = answered[l] + Cardinality(Writing(l))
              /\ total[l] \in Nat /\ answered[l] \in Nat
          BY DEF ResponsesCounted
        <5> QED  BY <5>2, <5>3, <5>4
      <4>2. CASE l # Answer[req[t]]
        <5>1. Writing(l)' = Writing(l)
          BY <2>1, <4>2 DEF Writing, ThreadsAt
        <5> QED  BY <2>1, <2>3, <4>2, <5>1 DEF ResponsesCounted
      <4> QED  BY <4>1, <4>2
    <3> QED  BY <2>1, <3>1 DEF ResponsesCounted, Labels
  <2>5. ASSUME NEW l \in Labels PROVE WillCount(l)' = WillCount(l)
    <3>1. WillCount(l)' = total'[l] + Cardinality(Counting(l)')
      BY DEF WillCount, Counting
    <3>2. WillCount(l) = total[l] + Cardinality(Counting(l)) /\ total[l] \in Nat
      BY DEF WillCount, Counting
    <3>3. CASE l = Answer[req[t]]
      <4>1. Counting(l)' = Counting(l) \ {t} /\ t \in Counting(l)
        BY <2>1, <3>3 DEF Counting, ThreadsAt
      <4>2. Cardinality(Counting(l)') = Cardinality(Counting(l)) - 1
        BY <4>1, ThreadSets, OneMoreThread
      <4>3. total'[l] = total[l] + 1 /\ Cardinality(Counting(l)) \in Nat
        BY <2>3, <3>3, ThreadSets
      <4> QED  BY <3>1, <3>2, <4>2, <4>3
    <3>4. CASE l # Answer[req[t]]
      <4>1. Counting(l)' = Counting(l)
        BY <2>1, <3>4 DEF Counting, ThreadsAt
      <4> QED  BY <2>3, <3>1, <3>2, <3>4, <4>1
    <3> QED  BY <3>3, <3>4
  <2>6. EventsCounted'
    <3>1. accepted' = accepted /\ refused' = refused /\ events' = events
      BY <2>1, <2>5, EventLabel
    <3> QED  BY <1>a, <3>1 DEF EventsCounted
  <2> QED  BY <2>4, <2>6
<1>6. ASSUME NEW t \in Threads, Write(t) PROVE ResponsesCounted' /\ EventsCounted'
  <2>1. /\ UNCHANGED <<events, total>> /\ hpc[t] = "write" /\ req[t] \in Kinds
        /\ req' = [req EXCEPT ![t] = "none"]
        /\ answered' = [answered EXCEPT ![Answer[req[t]]] = @ + 1]
    BY <1>6 DEF Write
  <2>2. \E label : label \notin {"write", "count"} /\ hpc' = [hpc EXCEPT ![t] = label]
    BY <1>6 DEF Write, Goto
  <2>3. /\ Answer[req[t]] \in Labels
        /\ answered' \in [Labels -> Nat]
    BY <2>1, CountType DEF ResponsesCounted
  <2>4. \A l \in Labels : answered'[l] = IF l = Answer[req[t]] THEN answered[l] + 1 ELSE answered[l]
    BY <2>1 DEF ResponsesCounted
  <2>5. \A l \in Labels : Writing(l)' = IF l = Answer[req[t]] THEN Writing(l) \ {t} ELSE Writing(l)
    BY <2>1, <2>2 DEF Writing, ThreadsAt
  <2>6. ASSUME NEW l \in Labels PROVE total'[l] = answered'[l] + Cardinality(Writing(l)')
    <3>0. Cardinality(Writing(l)) \in Nat /\ answered[l] \in Nat
      BY ThreadSets DEF ResponsesCounted
    <3>1. CASE l = Answer[req[t]]
      <4>1. t \in Writing(l)
        BY <2>1, <3>1 DEF Writing, ThreadsAt
      <4>2. Cardinality(Writing(l)') = Cardinality(Writing(l)) - 1
        BY <2>5, <3>1, <4>1, ThreadSets, OneMoreThread
      <4>3. total'[l] = total[l] /\ answered'[l] = answered[l] + 1
        BY <2>1, <2>4, <3>1
      <4>4. total[l] = answered[l] + Cardinality(Writing(l)) /\ total[l] \in Nat
        BY DEF ResponsesCounted
      <4> QED  BY <3>0, <4>2, <4>3, <4>4
    <3>2. CASE l # Answer[req[t]]
      BY <2>1, <2>4, <2>5, <3>2 DEF ResponsesCounted
    <3> QED  BY <3>1, <3>2
  <2>7. ResponsesCounted'
    BY <2>3, <2>6 DEF ResponsesCounted, Labels
  <2>8. \A l : WillCount(l)' = WillCount(l)
    BY <2>1, <2>2 DEF WillCount, ThreadsAt
  <2> QED  BY <2>1, <2>7, <2>8 DEF EventsCounted
<1> QED  BY <1>1, <1>2, <1>3, <1>4, <1>5, <1>6 DEF Next, Listener, Handler

\* The counters agree with the responses and the events at every moment.
LEMMA CountedInvariance == Spec => [](TypeInv /\ ResponsesCounted /\ EventsCounted)
  BY Counted_Init, Counted_Next, TypeInvariance, PTL DEF Spec

\* Every response is counted once under its route and status; what is, or will
\* be, counted as 202 is an event in the pool, and every event in the pool is, or
\* will be, counted as 202 or as 416.
THEOREM Accounted == Spec => []ResponsesAccounted
<1>1. ResponsesCounted /\ EventsCounted => ResponsesAccounted
  BY DEF ResponsesCounted, EventsCounted, Writing, ResponsesAccounted
<1> QED  BY <1>1, CountedInvariance, PTL

-----------------------------------------------------------------------------
\* A scrape is rendered from the counters of that moment.
LEMMA ScrapeStep ==
  TypeInv /\ ResponsesCounted /\ [Next]_vars =>
    \A t \in Threads :
      (hpc[t] = "route" /\ req[t] = "metrics" /\ hpc'[t] = "count") =>
         \A l \in Labels : page'[t][l] >= answered[l]
<1> SUFFICES ASSUME TypeInv, ResponsesCounted, [Next]_vars,
                    NEW t \in Threads,
                    hpc[t] = "route", req[t] = "metrics", hpc'[t] = "count",
                    NEW l \in Labels
             PROVE  page'[t][l] >= answered[l]
  OBVIOUS
<1>0. HandlerTypes
  BY DEF TypeInv
<1>1. ASSUME NEW u \in Threads, Begin(u) \/ KeepAlive(u) \/ ReadRequest(u) \/ Count(u)
                                \/ Write(u) \/ Close(u)
      PROVE  FALSE
  <2>1. hpc[u] # "route"
    BY <1>0, <1>1 DEF Begin, Take, Awake, KeepAlive, ReadRequest, Count, Write, Close, HandlerTypes
  <2>2. \E label : hpc' = [hpc EXCEPT ![u] = label]
    BY <1>1 DEF Begin, KeepAlive, ReadRequest, Count, Write, Close, Goto
  <2>3. hpc'[t] = "route"
    BY <1>0, <2>1, <2>2 DEF HandlerTypes
  <2> QED  BY <2>3
<1>2. ASSUME UNCHANGED threadVars PROVE FALSE
  BY <1>2 DEF threadVars
<1>3. ASSUME NEW u \in Threads, Route(u) PROVE page'[t][l] >= answered[l]
  <2>1. u = t
    BY <1>0, <1>3 DEF Route, Goto, HandlerTypes
  <2>2. page'[t] = total
    BY <1>0, <1>3, <2>1 DEF Route, HandlerTypes
  <2>3. total[l] = answered[l] + Cardinality(Writing(l))
    BY DEF ResponsesCounted
  <2>4. answered[l] \in Nat /\ Cardinality(Writing(l)) \in Nat
    BY ThreadSets DEF ResponsesCounted
  <2> QED  BY <2>2, <2>3, <2>4
<1>4. \/ UNCHANGED threadVars
      \/ \E u \in Threads : \/ Begin(u) \/ KeepAlive(u) \/ ReadRequest(u) \/ Count(u)
                           \/ Write(u) \/ Close(u) \/ Route(u)
  <2>1. ASSUME NEW c \in Conns, Client(c) PROVE UNCHANGED threadVars
    BY <2>1 DEF Client, Connect, SendRequest, HangUp
  <2>2. ASSUME Listener \/ AcceptFails PROVE UNCHANGED threadVars
    BY <2>2 DEF Listener, Bind, EnqueueConn, Notify, Shutdown, ListenReturns, Accept, AcceptFails
  <2>3. ASSUME NEW u \in Threads, Between(u) PROVE UNCHANGED threadVars
    BY <2>3 DEF Between
  <2>4. ASSUME UNCHANGED vars PROVE UNCHANGED threadVars
    BY <2>4 DEF vars
  <2> QED  BY <2>1, <2>2, <2>3, <2>4 DEF Next, Handler
<1> QED  BY <1>1, <1>2, <1>3, <1>4

\* Whoever has seen a response finds it in every scrape rendered later.
THEOREM ScrapeCovers == Spec => ScrapeCoversAnswers
<1>1. TypeInv /\ ResponsesCounted /\ [Next]_vars =>
        [\A t \in Threads :
          (hpc[t] = "route" /\ req[t] = "metrics" /\ hpc'[t] = "count") =>
             \A l \in Labels : page'[t][l] >= answered[l]]_vars
  BY ScrapeStep
<1> QED  BY <1>1, CountedInvariance, PTL DEF Spec, ScrapeCoversAnswers

-----------------------------------------------------------------------------
(***************************************************************************)
(* The pool of httplib, which adds threads and lets them go, implements    *)
(* TaskPool: it loses no connection and serves none twice.                 *)
(***************************************************************************)
Exited == {t \in Threads : tpc[t] = "exit"}

\* Each step is a step of TaskPool, or one that it does not see.
LEMMA PoolStep == TypeInv /\ OwnInv /\ [Next]_vars => [Pool!Next]_(Pool!vars)
<1> SUFFICES ASSUME TypeInv, OwnInv, [Next]_vars PROVE [Pool!Next]_(Pool!vars)
  OBVIOUS
<1>0. /\ tpc \in [Threads -> {"none", "loop", "wait", "awake", "expired", "run", "finished", "exit"}]
      /\ fn \in [Threads -> Jobs \cup {NoJob}]
      /\ \A t \in Threads : tpc[t] = "run" <=> fn[t] # NoJob
  BY DEF TypeInv, PoolTypes, Conns, NoConn
<1>1. ASSUME UNCHANGED <<jobs, fn, finished, shutdown>>,
             \A t \in Threads : tpc'[t] = "exit" <=> tpc[t] = "exit"
      PROVE  UNCHANGED Pool!vars
  BY <1>1 DEF Pool!vars
<1>2. ASSUME EnqueueConn PROVE Pool!Next
  <2>1. /\ hand \in Jobs /\ jobs' = Append(jobs, hand)
        /\ UNCHANGED <<fn, finished, shutdown>>
    BY <1>2 DEF EnqueueConn, Enqueue, TypeInv, NetTypes, InHand, Conns, NoConn
  <2>2. Exited' = Exited
    <3>1. CASE Spawns
      <4>1. PICK d \in Dynamic \ Spawned :
              tpc' = [t \in Threads |-> IF t = d THEN "loop"
                                        ELSE IF tpc[t] = "finished" THEN "none" ELSE tpc[t]]
        BY <1>2, <3>1 DEF EnqueueConn, Enqueue
      <4>2. tpc[d] \in {"none", "finished"}
        BY <4>1 DEF Spawned
      <4> QED  BY <4>1, <4>2 DEF Exited
    <3>2. CASE ~Spawns
      BY <1>2, <3>2 DEF EnqueueConn, Enqueue, Exited
    <3> QED  BY <3>1, <3>2
  <2>3. ~Pool!Submitted(hand)
    <3>1. hand # NoConn /\ hand \in Conns
      BY <2>1, HttpPoolAssumption DEF NoConn, Conns
    <3>2. /\ csock[hand] = "open"
          /\ \A i \in DOMAIN jobs : jobs[i] # hand
          /\ \A t \in Threads : fn[t] # hand
      BY <3>1 DEF OwnInv, Owning, HandOwns
    <3>3. hand \notin finished
      BY <3>1, <3>2 DEF OwnInv, Owning, OpenOwned
    <3> QED  BY <3>2, <3>3 DEF Pool!Submitted
  <2>4. Pool!Submit(hand)
    BY <2>1, <2>2, <2>3 DEF Pool!Submit, Exited
  <2> QED  BY <2>1, <2>4 DEF Pool!Next
<1>3. ASSUME NEW t \in Threads, Leave(t) PROVE Pool!Next
  <2>1. shutdown /\ jobs = <<>> /\ fn[t] = NoJob /\ UNCHANGED <<jobs, fn, finished, shutdown>>
    BY <1>0, <1>3 DEF Leave, Awake
  <2>2. Exited' = Exited \cup {t}
    BY <1>0, <1>3 DEF Leave, Exited
  <2>3. Pool!Retire(t)
    BY <2>1, <2>2 DEF Pool!Retire, Exited
  <2> QED  BY <2>3 DEF Pool!Next
<1>4. ASSUME NEW t \in Threads, Take(t) PROVE Pool!Next
  <2>1. /\ jobs # <<>> /\ jobs' = Tail(jobs) /\ fn' = [fn EXCEPT ![t] = Head(jobs)]
        /\ fn[t] = NoJob /\ t \notin Exited /\ UNCHANGED <<finished, shutdown>>
    BY <1>0, <1>4 DEF Take, Awake, Exited
  <2>2. Exited' = Exited
    BY <1>0, <1>4 DEF Take, Awake, Exited
  <2>3. Pool!Start(t)
    BY <2>1, <2>2 DEF Pool!Start, Exited
  <2> QED  BY <2>3 DEF Pool!Next
<1>5. ASSUME NEW t \in Threads, Return(t) PROVE Pool!Next
  <2>1. /\ fn[t] # NoJob /\ finished' = finished \cup {fn[t]}
        /\ fn' = [fn EXCEPT ![t] = NoJob] /\ UNCHANGED <<jobs, shutdown>>
    BY <1>0, <1>5 DEF Return
  <2>2. Exited' = Exited
    BY <1>0, <1>5 DEF Return, Exited
  <2>3. Pool!Finish(t)
    BY <2>1, <2>2 DEF Pool!Finish, Exited
  <2> QED  BY <2>3 DEF Pool!Next
<1>6. ASSUME SetShutdown PROVE Pool!Next
  <2>1. Pool!Close
    BY <1>6 DEF SetShutdown, Pool!Close
  <2> QED  BY <2>1 DEF Pool!Next
<1>7. ASSUME \/ NotifyOne \/ NotifyAll \/ JoinBase \/ JoinDynamic
             \/ \E t \in Threads : Sleep(t) \/ Timeout(t) \/ Retire(t)
             \/ UNCHANGED poolVars
      PROVE  UNCHANGED Pool!vars
  <2>1. UNCHANGED <<jobs, fn, finished, shutdown>>
    BY <1>7 DEF NotifyOne, NotifyAll, JoinBase, JoinDynamic, Sleep, Timeout, Retire, poolVars
  <2>2. CASE NotifyOne \/ NotifyAll
    <3>1. \A t \in Threads : tpc'[t] = "exit" <=> tpc[t] = "exit"
      BY <1>0, <2>2 DEF NotifyOne, NotifyAll, Asleep
    <3> QED  BY <1>1, <2>1, <3>1
  <2>3. CASE JoinBase \/ JoinDynamic \/ UNCHANGED poolVars
    <3>1. \A t \in Threads : tpc'[t] = "exit" <=> tpc[t] = "exit"
      BY <1>0, <2>3 DEF JoinBase, JoinDynamic, poolVars
    <3> QED  BY <1>1, <2>1, <3>1
  <2>4. CASE \E t \in Threads : Sleep(t) \/ Timeout(t) \/ Retire(t)
    <3>1. \A t \in Threads : tpc'[t] = "exit" <=> tpc[t] = "exit"
      BY <1>0, <2>4 DEF Sleep, Timeout, Retire
    <3> QED  BY <1>1, <2>1, <3>1
  <2> QED  BY <1>7, <2>2, <2>3, <2>4
<1>8. ASSUME NEW c \in Conns, Client(c) \/ Accept(c) PROVE UNCHANGED Pool!vars
  <2>1. UNCHANGED poolVars
    BY <1>8 DEF Client, Connect, SendRequest, HangUp, Accept
  <2> QED  BY <1>7, <2>1
<1>9. ASSUME Listener \/ AcceptFails PROVE Pool!Next \/ UNCHANGED Pool!vars
  <2>1. CASE Bind \/ ListenReturns \/ AcceptFails
    <3>1. UNCHANGED poolVars
      BY <2>1 DEF Bind, ListenReturns, AcceptFails
    <3> QED  BY <1>7, <3>1
  <2>2. CASE Notify \/ Shutdown
    BY <1>6, <1>7, <2>2 DEF Notify, Shutdown
  <2> QED  BY <1>2, <1>8, <1>9, <2>1, <2>2 DEF Listener
<1>10. ASSUME NEW t \in Threads, Between(t) \/ Begin(t) \/ Handler(t)
       PROVE  Pool!Next \/ UNCHANGED Pool!vars
  <2>1. CASE Between(t)
    BY <1>3, <1>7, <2>1 DEF Between
  <2>2. CASE Begin(t)
    BY <1>4, <2>2 DEF Begin
  <2>3. CASE Close(t)
    BY <1>5, <2>3 DEF Close
  <2>4. CASE KeepAlive(t) \/ ReadRequest(t) \/ Route(t) \/ Count(t) \/ Write(t)
    <3>1. UNCHANGED poolVars
      BY <2>4 DEF KeepAlive, ReadRequest, Route, Count, Write
    <3> QED  BY <1>7, <3>1
  <2> QED  BY <1>10, <2>1, <2>2, <2>3, <2>4 DEF Handler
<1>11. ASSUME UNCHANGED vars PROVE UNCHANGED Pool!vars
  <2>1. UNCHANGED poolVars
    BY <1>11 DEF vars
  <2> QED  BY <1>7, <2>1
<1> QED  BY <1>8, <1>9, <1>10, <1>11 DEF Next

\* Connections are served once and in the order of accept, and a thread that
\* times out or leaves takes none with it: HttpPool implements TaskPool.
THEOREM PoolRefinement == Spec => HttpPoolSpec
<1>1. Init => Pool!Init
  BY DEF Init, PoolInit, Pool!Init
<1> QED  BY <1>1, PoolStep, OwnInvariance, PTL DEF Spec, HttpPoolSpec, Pool!Spec

-----------------------------------------------------------------------------
(***************************************************************************)
(* What can be proved of NothingHangs: a thread on a connection has only   *)
(* so many steps to take, and nobody whom shutdown joins sleeps.           *)
(***************************************************************************)

\* The steps that process_and_close_socket has left at most: five for a request
\* and one to look for the next, as often as keep_alive_max_count_ still allows.
Rank(label) ==
  CASE label = "alive" -> 5 [] label = "read" -> 4 [] label = "route" -> 3
    [] label = "count" -> 2 [] label = "write" -> 1 [] OTHER -> 0

Todo(t) == 6 * left[t] + Rank(hpc[t])

\* A step of a handler of t.
LEMMA HandlerDescends ==
  ASSUME HandlerTypes, NEW t \in Threads, Handler(t)
  PROVE  /\ hpc'[t] # "none" => Todo(t)' < Todo(t)
         /\ \A u \in Threads \ {t} : hpc'[u] = hpc[u] /\ left'[u] = left[u]
<1>0. /\ left[t] \in Nat /\ left \in [Threads -> 0 .. KeepAliveMax]
      /\ hpc \in [Threads -> {"none", "alive", "read", "route", "count", "write", "close"}]
  BY NorthboundAssumption DEF HandlerTypes
<1>1. CASE KeepAlive(t)
  <2>1. /\ hpc[t] = "alive" /\ left' = left
        /\ hpc' = [hpc EXCEPT ![t] = "read"] \/ hpc' = [hpc EXCEPT ![t] = "close"]
    BY <1>1 DEF KeepAlive, Goto
  <2> QED  BY <1>0, <2>1 DEF Todo, Rank
<1>2. CASE ReadRequest(t)
  <2>1. /\ hpc[t] = "read" /\ left' = left
        /\ \E label \in {"close", "count", "route"} : hpc' = [hpc EXCEPT ![t] = label]
    BY <1>2 DEF ReadRequest, Goto
  <2> QED  BY <1>0, <2>1 DEF Todo, Rank
<1>3. CASE Route(t) \/ Count(t)
  <2>1. /\ left' = left
        /\ \/ hpc[t] = "route" /\ hpc' = [hpc EXCEPT ![t] = "count"]
           \/ hpc[t] = "count" /\ hpc' = [hpc EXCEPT ![t] = "write"]
    BY <1>3 DEF Route, Count, Goto
  <2> QED  BY <1>0, <2>1 DEF Todo, Rank
<1>4. CASE Write(t)
  <2>1. /\ hpc[t] = "write"
        /\ \/ hpc' = [hpc EXCEPT ![t] = "alive"] /\ left' = [left EXCEPT ![t] = @ - 1]
           \/ hpc' = [hpc EXCEPT ![t] = "close"] /\ left' = left
    BY <1>4 DEF Write, Goto
  <2>2. CASE hpc' = [hpc EXCEPT ![t] = "alive"] /\ left' = [left EXCEPT ![t] = @ - 1]
    <3>1. hpc'[t] = "alive" /\ left'[t] = left[t] - 1
      BY <1>0, <2>2
    <3>2. 6 * (left[t] - 1) + 5 < 6 * left[t] + 1
      BY <1>0
    <3> QED  BY <1>0, <2>1, <2>2, <3>1, <3>2 DEF Todo, Rank
  <2>3. CASE hpc' = [hpc EXCEPT ![t] = "close"] /\ left' = left
    BY <1>0, <2>1, <2>3 DEF Todo, Rank
  <2> QED  BY <2>1, <2>2, <2>3
<1>5. CASE Close(t)
  <2>1. hpc' = [hpc EXCEPT ![t] = "none"] /\ left' = [left EXCEPT ![t] = 0]
    BY <1>5 DEF Close
  <2> QED  BY <1>0, <2>1
<1> QED  BY <1>1, <1>2, <1>3, <1>4, <1>5 DEF Handler

\* Whatever a client sends or keeps back, each step that a thread takes on a
\* connection brings it nearer to closing it (httplib.h:5651-5667).
ConnectionsEnd ==
  [][\A t \in Threads :
       hpc[t] # "none" /\ hpc'[t] # "none" =>
         \/ Todo(t)' < Todo(t)
         \/ hpc'[t] = hpc[t] /\ left'[t] = left[t]]_vars

THEOREM ServesFiniteShare == Spec => ConnectionsEnd /\ [](\A t \in Threads : Todo(t) \in Nat)
<1>1. TypeInv /\ [Next]_vars =>
        [\A t \in Threads :
           hpc[t] # "none" /\ hpc'[t] # "none" =>
             \/ Todo(t)' < Todo(t)
             \/ hpc'[t] = hpc[t] /\ left'[t] = left[t]]_vars
  <2> SUFFICES ASSUME TypeInv, Next, NEW t \in Threads, hpc[t] # "none", hpc'[t] # "none"
               PROVE  \/ Todo(t)' < Todo(t)
                      \/ hpc'[t] = hpc[t] /\ left'[t] = left[t]
    OBVIOUS
  <2>0. HandlerTypes /\ PoolTypes
    BY DEF TypeInv
  <2>1. CASE \E u \in Threads : Handler(u)
    <3>1. PICK u \in Threads : Handler(u)
      BY <2>1
    <3>2. CASE u = t
      BY <2>0, <3>1, <3>2, HandlerDescends
    <3>3. CASE u # t
      <4>1. hpc'[t] = hpc[t] /\ left'[t] = left[t]
        BY <2>0, <3>1, <3>3, HandlerDescends
      <4> QED  BY <4>1
    <3> QED  BY <3>2, <3>3
  <2>2. CASE \E u \in Threads : Begin(u)
    <3>1. PICK u \in Threads : Begin(u)
      BY <2>2
    <3>2. u # t
      BY <2>0, <3>1 DEF Begin, Take, Awake, HandlerTypes
    <3>3. hpc' = [hpc EXCEPT ![u] = "alive"] /\ left' = [left EXCEPT ![u] = KeepAliveMax]
      BY <3>1 DEF Begin, Goto
    <3>4. hpc'[t] = hpc[t] /\ left'[t] = left[t]
      BY <2>0, <3>2, <3>3 DEF HandlerTypes
    <3> QED  BY <3>4
  <2>3. CASE (\E c \in Conns : Client(c)) \/ Listener \/ AcceptFails \/ \E u \in Threads : Between(u)
    <3>1. UNCHANGED threadVars
      BY <2>3 DEF Client, Connect, SendRequest, HangUp, Listener, Bind, EnqueueConn, Notify,
                  Shutdown, ListenReturns, Accept, AcceptFails, Between
    <3> QED  BY <3>1 DEF threadVars
  <2> QED  BY <2>1, <2>2, <2>3 DEF Next
<1>2. TypeInv => \A t \in Threads : Todo(t) \in Nat
  <2> SUFFICES ASSUME HandlerTypes, NEW t \in Threads PROVE Todo(t) \in Nat
    BY DEF TypeInv
  <2>1. left[t] \in Nat
    BY NorthboundAssumption DEF HandlerTypes
  <2>2. Rank(hpc[t]) \in Nat
    BY DEF Rank
  <2> QED  BY <2>1, <2>2 DEF Todo
<1> QED  BY <1>1, <1>2, TypeInvariance, PTL DEF Spec, ConnectionsEnd

-----------------------------------------------------------------------------
(* shutdown of the pool.                                                   *)

Joining == owner \in {"join", "collect", "down"}

\* After its notify_all the flag is set and no thread is in wait, so that those
\* it joins run a job or are about to find one or to leave.
NobodySleepsThroughShutdown ==
  /\ owner \in {"wake", "join", "collect", "down"} => shutdown
  /\ Joining => Asleep = {}

\* While shutdown joins, what the pool can do at all: a thread takes a job,
\* returns from one or leaves, or shutdown itself goes on.
LEMMA JoiningSteps ==
  ASSUME PoolTypes, NobodySleepsThroughShutdown, Joining, PoolNext
  PROVE  JoinBase \/ JoinDynamic \/ \E t \in Threads : Leave(t) \/ Take(t) \/ Return(t)
<1>1. shutdown /\ \A t \in Threads : tpc[t] # "wait"
  BY DEF NobodySleepsThroughShutdown, Joining, Asleep
<1>2. ~(\E j \in Jobs : Enqueue(j))
  BY <1>1 DEF Enqueue
<1>3. ~(NotifyOne \/ SetShutdown \/ NotifyAll)
  BY DEF NotifyOne, SetShutdown, NotifyAll, Joining
<1>4. \A t \in Threads : ~(Sleep(t) \/ Timeout(t) \/ Retire(t))
  BY <1>1 DEF Sleep, Timeout, Retire, Ready
<1> QED  BY <1>2, <1>3, <1>4 DEF PoolNext

\* No thread goes to sleep once the flag is set, and nobody clears it.
LEMMA SleepStep ==
  PoolTypes /\ NobodySleepsThroughShutdown /\ (PoolNext \/ UNCHANGED poolVars)
    => NobodySleepsThroughShutdown'
<1> SUFFICES ASSUME PoolTypes, NobodySleepsThroughShutdown, PoolNext \/ UNCHANGED poolVars
             PROVE  NobodySleepsThroughShutdown'
  OBVIOUS
<1>1. CASE UNCHANGED poolVars
  BY <1>1 DEF poolVars, NobodySleepsThroughShutdown, Joining, Asleep
<1>2. CASE PoolNext /\ Joining
  <2>1. shutdown /\ Asleep = {}
    BY <1>2 DEF NobodySleepsThroughShutdown, Joining
  <2>2. ASSUME JoinBase \/ JoinDynamic PROVE shutdown' /\ Asleep' = {}
    BY <2>1, <2>2 DEF JoinBase, JoinDynamic, Asleep
  <2>3. ASSUME NEW t \in Threads, Leave(t) \/ Take(t) \/ Return(t) PROVE shutdown' /\ Asleep' = {}
    BY <2>1, <2>3 DEF Leave, Take, Return, Asleep, PoolTypes
  <2>4. shutdown' /\ Asleep' = {}
    BY <1>2, <2>2, <2>3, JoiningSteps
  <2> QED  BY <2>4 DEF NobodySleepsThroughShutdown
<1>3. CASE PoolNext /\ ~Joining
  <2>1. ASSUME NotifyAll PROVE shutdown' /\ Asleep' = {}
    BY <2>1 DEF NotifyAll, NobodySleepsThroughShutdown, Asleep
  <2>2. ASSUME SetShutdown PROVE shutdown' /\ owner' = "wake"
    BY <2>2 DEF SetShutdown
  <2>3. ASSUME (\E j \in Jobs : Enqueue(j)) \/ NotifyOne PROVE owner' \in {"notify", "ready"}
    BY <2>3 DEF Enqueue, NotifyOne
  <2>4. ASSUME NEW t \in Threads,
               Sleep(t) \/ Timeout(t) \/ Retire(t) \/ Leave(t) \/ Take(t) \/ Return(t)
        PROVE  owner' = owner /\ shutdown' = shutdown
    BY <2>4 DEF Sleep, Timeout, Retire, Leave, Take, Return
  <2>5. ~(JoinBase \/ JoinDynamic)
    BY <1>3 DEF JoinBase, JoinDynamic, Joining
  <2> QED  BY <1>3, <2>1, <2>2, <2>3, <2>4, <2>5
           DEF PoolNext, NobodySleepsThroughShutdown, Joining
<1> QED  BY <1>1, <1>2, <1>3

\* shutdown wakes whoever sleeps, and nobody goes to sleep behind its back.
THEOREM ShutdownWakesAll == Spec => []NobodySleepsThroughShutdown
<1>1. Init => NobodySleepsThroughShutdown
  BY DEF Init, PoolInit, NobodySleepsThroughShutdown, Joining
<1>2. TypeInv /\ NobodySleepsThroughShutdown /\ [Next]_vars => NobodySleepsThroughShutdown'
  BY PoolSteps, SleepStep DEF TypeInv, NetTypes
<1> QED  BY <1>1, <1>2, TypeInvariance, PTL DEF Spec

\* While shutdown joins, a thread it waits for waits for nothing of the pool: it
\* is on a connection, takes the next one, or finds none and leaves.  When the
\* last one has left, the join returns (httplib.h:10153-10171).
ShutdownProceeds ==
  /\ owner = "join" =>
       \A t \in Base : tpc[t] # "exit" => tpc[t] = "run" \/ (Awake(t) /\ Ready)
  /\ owner = "collect" =>
       \A t \in Spawned : tpc[t] # "exit" => tpc[t] = "run" \/ (Awake(t) /\ Ready)

THEOREM ShutdownNeverStuck == Spec => []ShutdownProceeds
<1>1. TypeInv /\ NobodySleepsThroughShutdown => ShutdownProceeds
  <2> SUFFICES ASSUME PoolTypes, NobodySleepsThroughShutdown PROVE ShutdownProceeds
    BY DEF TypeInv
  <2>1. ASSUME owner \in {"join", "collect"}, NEW t \in Threads, tpc[t] \notin {"none", "finished", "exit"}
        PROVE  tpc[t] = "run" \/ (Awake(t) /\ Ready)
    <3>1. shutdown /\ tpc[t] # "wait"
      BY <2>1 DEF NobodySleepsThroughShutdown, Joining, Asleep
    <3> QED  BY <2>1, <3>1 DEF PoolTypes, Awake, Ready
  <2>2. ASSUME NEW t \in Base PROVE t \in Threads /\ tpc[t] \notin {"none", "finished"}
    BY HttpPoolAssumption DEF PoolTypes, Threads
  <2>3. ASSUME NEW t \in Spawned PROVE t \in Threads /\ tpc[t] \notin {"none", "finished"}
    BY DEF Spawned, Threads
  <2> QED  BY <2>1, <2>2, <2>3 DEF ShutdownProceeds
<1> QED  BY <1>1, TypeInvariance, ShutdownWakesAll, PTL

-----------------------------------------------------------------------------
(* What shutdown has still to wait for.                                    *)

Running == {t \in Threads : tpc[t] = "run"}
Alive   == {t \in Threads : tpc[t] \notin {"none", "finished", "exit"}}

\* A queued connection is taken and returned from, a thread leaves, and
\* shutdown joins in two stages.
PoolWork ==
  2 * Len(jobs) + Cardinality(Running) + Cardinality(Alive)
    + (CASE owner = "join" -> 2 [] owner = "collect" -> 1 [] OTHER -> 0)

LEMMA PoolWorkIsNat == PoolTypes => PoolWork \in Nat
<1> SUFFICES ASSUME PoolTypes PROVE PoolWork \in Nat
  OBVIOUS
<1>1. Len(jobs) \in Nat
  BY DEF PoolTypes
<1>2. Cardinality(Running) \in Nat /\ Cardinality(Alive) \in Nat
  BY FiniteThreads DEF Running, Alive
<1> QED  BY <1>1, <1>2 DEF PoolWork

\* What the pool does while shutdown joins brings it nearer to the end.
LEMMA LessPoolWork ==
  ASSUME PoolTypes, NobodySleepsThroughShutdown, Joining, PoolNext
  PROVE  PoolWork' < PoolWork
<1>0. /\ Len(jobs) \in Nat /\ Cardinality(Running) \in Nat /\ Cardinality(Alive) \in Nat
      /\ Running \in SUBSET Threads /\ Alive \in SUBSET Threads
  BY FiniteThreads DEF PoolTypes, Running, Alive
<1> DEFINE stage == CASE owner = "join" -> 2 [] owner = "collect" -> 1 [] OTHER -> 0
<1>1. stage \in Nat
  OBVIOUS
<1>2. PoolWork = 2 * Len(jobs) + Cardinality(Running) + Cardinality(Alive) + stage
  BY DEF PoolWork
<1>3. PoolWork' = 2 * Len(jobs') + Cardinality(Running') + Cardinality(Alive') + stage'
  BY DEF PoolWork
<1>4. CASE JoinBase \/ JoinDynamic
  <2>1. jobs' = jobs /\ Running' = Running /\ Alive' = Alive
    BY <1>4 DEF JoinBase, JoinDynamic, Running, Alive
  <2>2. stage' < stage /\ stage' \in Nat
    BY <1>4 DEF JoinBase, JoinDynamic
  <2> HIDE DEF stage
  <2> QED  BY <1>0, <1>1, <1>2, <1>3, <2>1, <2>2
<1>5. ASSUME NEW t \in Threads, Leave(t) PROVE PoolWork' < PoolWork
  <2>1. jobs' = jobs /\ owner' = owner /\ Running' = Running
    BY <1>5 DEF Leave, Awake, Running, PoolTypes
  <2>2. Alive' = Alive \ {t} /\ t \in Alive
    BY <1>5 DEF Leave, Awake, Alive, PoolTypes
  <2>3. Cardinality(Alive') = Cardinality(Alive) - 1
    BY <1>0, <2>2, OneMoreThread
  <2>4. stage' = stage
    BY <2>1
  <2> HIDE DEF stage
  <2> QED  BY <1>0, <1>1, <1>2, <1>3, <2>1, <2>3, <2>4
<1>6. ASSUME NEW t \in Threads, Take(t) PROVE PoolWork' < PoolWork
  <2>1. owner' = owner /\ Alive' = Alive
    BY <1>6 DEF Take, Awake, Alive, PoolTypes
  <2>2. Running' = Running \cup {t} /\ t \notin Running
    BY <1>6 DEF Take, Awake, Running, PoolTypes
  <2>3. Cardinality(Running') = Cardinality(Running) + 1
    BY <1>0, <2>2, OneMoreThread
  <2>4. Len(jobs') = Len(jobs) - 1
    BY <1>6, TailJob DEF Take, PoolTypes
  <2>5. stage' = stage
    BY <2>1
  <2> HIDE DEF stage
  <2> QED  BY <1>0, <1>1, <1>2, <1>3, <2>1, <2>3, <2>4, <2>5
<1>7. ASSUME NEW t \in Threads, Return(t) PROVE PoolWork' < PoolWork
  <2>1. jobs' = jobs /\ owner' = owner /\ Alive' = Alive
    BY <1>7 DEF Return, Alive, PoolTypes
  <2>2. Running' = Running \ {t} /\ t \in Running
    BY <1>7 DEF Return, Running, PoolTypes
  <2>3. Cardinality(Running') = Cardinality(Running) - 1
    BY <1>0, <2>2, OneMoreThread
  <2>4. stage' = stage
    BY <2>1
  <2> HIDE DEF stage
  <2> QED  BY <1>0, <1>1, <1>2, <1>3, <2>1, <2>3, <2>4
<1> QED  BY <1>4, <1>5, <1>6, <1>7, JoiningSteps

\* After the notify_all of shutdown the pool changes only so many times more,
\* each time nearer to the end of the last join, whatever the clients do.
ShutdownDescends == [][Joining => PoolWork' < PoolWork]_poolVars

THEOREM ShutdownFiniteWork == Spec => ShutdownDescends /\ [](PoolWork \in Nat)
<1>1. TypeInv /\ NobodySleepsThroughShutdown /\ [Next]_vars
        => [Joining => PoolWork' < PoolWork]_poolVars
  BY PoolSteps, LessPoolWork DEF TypeInv, NetTypes
<1>2. TypeInv => PoolWork \in Nat
  BY PoolWorkIsNat DEF TypeInv
<1> QED  BY <1>1, <1>2, TypeInvariance, ShutdownWakesAll, PTL DEF Spec, ShutdownDescends

=============================================================================
