--------------------------- MODULE Promises_proofs ---------------------------
(***************************************************************************)
(* What the two abstract specifications promise, from their definitions:   *)
(* TaskPool, which ThreadEnvironment and HttpPool implement, and           *)
(* Connections, which Server implements.                                   *)
(***************************************************************************)
EXTENDS TaskPool, SequenceTheorems, TLAPS

-----------------------------------------------------------------------------
(* TaskPool.                                                               *)

\* A job that was submitted is in one place: at one position of the queue, with
\* one worker, or done.
OnePlace ==
  /\ \A i, k \in DOMAIN queue : queue[i] = queue[k] => i = k
  /\ \A v, w \in Workers : current[v] = current[w] /\ current[w] # NoJob => v = w
  /\ \A i \in DOMAIN queue :
       queue[i] \notin done /\ \A w \in Workers : current[w] # queue[i]
  /\ \A w \in Workers : current[w] \notin done

\* And a worker that has left runs nothing.
PoolInv ==
  /\ queue \in Seq(Jobs)
  /\ current \in [Workers -> Jobs \cup {NoJob}]
  /\ done \subseteq Jobs
  /\ closed \in BOOLEAN
  /\ OnePlace
  /\ \A w \in retired : closed /\ (w \in Workers => current[w] = NoJob)

LEMMA PoolInit == Init => PoolInv
<1> SUFFICES ASSUME Init PROVE PoolInv
  OBVIOUS
<1>1. queue = <<>> /\ current = [w \in Workers |-> NoJob] /\ done = {} /\ retired = {}
  BY DEF Init
<1>2. queue \in Seq(Jobs) /\ DOMAIN queue = {}
  BY <1>1
<1>3. closed \in BOOLEAN
  BY DEF Init
<1> QED  BY <1>1, <1>2, <1>3 DEF PoolInv, OnePlace

\* What a worker takes is what was queued longest.
LEMMA TakesHead ==
  ASSUME PoolInv, queue # <<>>
  PROVE  /\ Len(queue) \in Nat \ {0} /\ DOMAIN queue = 1 .. Len(queue)
         /\ Head(queue) = queue[1] /\ queue[1] \in Jobs /\ 1 \in DOMAIN queue
         /\ Tail(queue) \in Seq(Jobs)
         /\ DOMAIN Tail(queue) = 1 .. Len(queue) - 1
         /\ \A i \in 1 .. Len(queue) - 1 :
              i + 1 \in DOMAIN queue /\ i + 1 # 1 /\ Tail(queue)[i] = queue[i + 1]
<1>1. queue \in Seq(Jobs) /\ Len(queue) \in Nat /\ Len(queue) # 0
  BY EmptySeq DEF PoolInv
<1> QED  BY <1>1, HeadTailProperties, ElementOfSeq

LEMMA MovesUp ==
  ASSUME PoolInv, queue # <<>>, NEW i \in DOMAIN queue, i # 1
  PROVE  i - 1 \in DOMAIN Tail(queue) /\ Tail(queue)[i - 1] = queue[i]
<1>1. i \in Nat /\ i >= 2 /\ i <= Len(queue) /\ Len(queue) \in Nat
  BY TakesHead
<1>2. i - 1 \in 1 .. Len(queue) - 1 /\ (i - 1) + 1 = i
  BY <1>1
<1> QED  BY <1>2, TakesHead

\* What a submitted job does to the queue.
LEMMA AddsLast ==
  ASSUME queue \in Seq(Jobs), NEW j \in Jobs
  PROVE  /\ Append(queue, j) \in Seq(Jobs)
         /\ DOMAIN Append(queue, j) = DOMAIN queue \cup {Len(queue) + 1}
         /\ Len(queue) + 1 \notin DOMAIN queue
         /\ Append(queue, j)[Len(queue) + 1] = j
         /\ \A i \in DOMAIN queue : Append(queue, j)[i] = queue[i]
<1>1. Len(queue) \in Nat /\ DOMAIN queue = 1 .. Len(queue)
  OBVIOUS
<1>2. /\ Append(queue, j) \in Seq(Jobs)
      /\ Len(Append(queue, j)) = Len(queue) + 1
      /\ \A i \in 1 .. Len(queue) : Append(queue, j)[i] = queue[i]
      /\ Append(queue, j)[Len(queue) + 1] = j
  BY AppendProperties
<1> QED  BY <1>1, <1>2

LEMMA PoolStep ==
  ASSUME NoJob \notin Jobs, PoolInv, [Next]_vars
  PROVE  PoolInv'
<1> USE DEF PoolInv
<1>1. ASSUME NEW j \in Jobs, Submit(j) PROVE PoolInv'
  <2>1. /\ queue' = Append(queue, j) /\ UNCHANGED <<current, done, closed, retired>>
        /\ \A i \in DOMAIN queue : queue[i] # j
        /\ \A w \in Workers : current[w] # j
        /\ j \notin done
    BY <1>1 DEF Submit, Submitted
  <2> DEFINE n == Len(queue) + 1
  <2>2. /\ queue' \in Seq(Jobs) /\ DOMAIN queue' = DOMAIN queue \cup {n}
        /\ queue'[n] = j /\ \A i \in DOMAIN queue : queue'[i] = queue[i]
    BY <2>1, AddsLast
  <2> HIDE DEF n
  <2>3. OnePlace'
    BY <2>1, <2>2 DEF OnePlace
  <2> QED  BY <2>1, <2>2, <2>3
<1>2. ASSUME NEW w \in Workers, Start(w) PROVE PoolInv'
  <2>1. /\ w \notin retired /\ current[w] = NoJob /\ queue # <<>>
        /\ current' = [current EXCEPT ![w] = Head(queue)] /\ queue' = Tail(queue)
        /\ UNCHANGED <<done, closed, retired>>
    BY <1>2 DEF Start
  <2> PICK j \in Jobs : j = queue[1] /\ 1 \in DOMAIN queue
    BY <2>1, TakesHead
  <2>2. /\ queue' \in Seq(Jobs)
        /\ \A i \in DOMAIN queue' : /\ i + 1 \in DOMAIN queue /\ i + 1 # 1
                                    /\ queue'[i] = queue[i + 1] /\ i \in Nat
    BY <2>1, TakesHead
  <2>3. \A v \in Workers : current'[v] = IF v = w THEN j ELSE current[v]
    BY <2>1, TakesHead
  <2>4. current' \in [Workers -> Jobs \cup {NoJob}]
    BY <2>1, TakesHead
  <2>5. \A i \in DOMAIN queue' :
          /\ queue'[i] # j
          /\ queue'[i] \notin done
          /\ \A v \in Workers : current[v] # queue'[i]
    BY <2>2 DEF OnePlace
  <2>6. /\ j \notin done
        /\ \A v \in Workers : current[v] # j
    BY DEF OnePlace
  <2>7. \A i, k \in DOMAIN queue' : queue'[i] = queue'[k] => i = k
    <3> SUFFICES ASSUME NEW i \in DOMAIN queue', NEW k \in DOMAIN queue', queue'[i] = queue'[k]
                 PROVE  i = k
      OBVIOUS
    <3>1. i + 1 = k + 1
      BY <2>2 DEF OnePlace
    <3> QED  BY <2>2, <3>1
  <2>8. OnePlace'
    BY <2>1, <2>3, <2>5, <2>6, <2>7 DEF OnePlace
  <2> QED  BY <2>1, <2>2, <2>3, <2>4, <2>8
<1>3. ASSUME NEW w \in Workers, Finish(w) PROVE PoolInv'
  <2>1. /\ current[w] # NoJob /\ done' = done \cup {current[w]}
        /\ current' = [current EXCEPT ![w] = NoJob]
        /\ UNCHANGED <<queue, closed, retired>>
    BY <1>3 DEF Finish
  <2>2. \A v \in Workers : current'[v] = IF v = w THEN NoJob ELSE current[v]
    BY <2>1
  <2>3. current[w] \in Jobs /\ NoJob \notin done'
    BY <2>1
  <2>4. \A i \in DOMAIN queue : queue[i] # NoJob
    BY ElementOfSeq
  <2>5. OnePlace'
    BY <2>1, <2>2, <2>3, <2>4 DEF OnePlace
  <2> QED  BY <2>1, <2>2, <2>3, <2>5
<1>4. CASE Close
  BY <1>4 DEF Close, OnePlace
<1>5. ASSUME NEW w \in Workers, Retire(w) PROVE PoolInv'
  BY <1>5 DEF Retire, OnePlace
<1>6. CASE UNCHANGED vars
  BY <1>6 DEF vars, OnePlace
<1> QED  BY <1>1, <1>2, <1>3, <1>4, <1>5, <1>6 DEF Next

\* Whatever is done, a job that was submitted stays queued, with a worker or
\* done, and is never taken back.
NeverLost == [][\A j \in Jobs : Submitted(j) => Submitted(j)']_vars

\* Job a was queued ahead of job b.
Ahead(a, b) ==
  \E i, k \in DOMAIN queue : i < k /\ queue[i] = a /\ queue[k] = b

\* Jobs are taken in the order in which they came: of two that are queued, the
\* one behind stays queued and stays behind, until the one ahead is gone.
InOrder ==
  [][\A a, b \in Jobs : Ahead(a, b) =>
       \/ Ahead(a, b)'
       \/ /\ \A i \in DOMAIN queue' : queue'[i] # a
          /\ \E i \in DOMAIN queue' : queue'[i] = b]_vars

LEMMA StaysSubmitted ==
  ASSUME NoJob \notin Jobs, PoolInv, [Next]_vars, NEW j \in Jobs, Submitted(j)
  PROVE  Submitted(j)'
<1>1. ASSUME NEW k \in Jobs, Submit(k) PROVE Submitted(j)'
  <2>1. \A i \in DOMAIN queue : i \in DOMAIN queue' /\ queue'[i] = queue[i]
    BY <1>1, AddsLast DEF Submit, PoolInv
  <2> QED  BY <1>1, <2>1 DEF Submit, Submitted
<1>2. ASSUME NEW w \in Workers, Start(w) PROVE Submitted(j)'
  <2>1. /\ current[w] = NoJob /\ queue # <<>> /\ queue' = Tail(queue) /\ done' = done
        /\ current' = [current EXCEPT ![w] = Head(queue)]
    BY <1>2 DEF Start
  <2>2. ASSUME NEW i \in DOMAIN queue, queue[i] = j PROVE Submitted(j)'
    <3>1. CASE i = 1
      <4>1. current'[w] = j
        BY <2>1, <2>2, <3>1, TakesHead DEF PoolInv
      <4> QED  BY <4>1 DEF Submitted
    <3>2. CASE i # 1
      <4>1. i - 1 \in DOMAIN queue' /\ queue'[i - 1] = queue[i]
        BY <2>1, <3>2, MovesUp
      <4> QED  BY <2>2, <4>1 DEF Submitted
    <3> QED  BY <3>1, <3>2
  <2>3. ASSUME NEW v \in Workers, current[v] = j PROVE Submitted(j)'
    <3>1. current'[v] = j
      BY <2>1, <2>3 DEF PoolInv
    <3> QED  BY <3>1 DEF Submitted
  <2> QED  BY <2>1, <2>2, <2>3 DEF Submitted
<1>3. ASSUME NEW w \in Workers, Finish(w) PROVE Submitted(j)'
  <2>1. done' = done \cup {current[w]} /\ queue' = queue
        /\ \A v \in Workers : v # w => current'[v] = current[v]
    BY <1>3 DEF Finish, PoolInv
  <2> QED  BY <2>1 DEF Submitted
<1>4. CASE Close \/ (\E w \in Workers : Retire(w)) \/ UNCHANGED vars
  BY <1>4 DEF Close, Retire, vars, Submitted
<1> QED  BY <1>1, <1>2, <1>3, <1>4 DEF Next

LEMMA KeepsOrder ==
  ASSUME PoolInv, [Next]_vars, NEW a \in Jobs, NEW b \in Jobs, Ahead(a, b)
  PROVE  \/ Ahead(a, b)'
         \/ /\ \A i \in DOMAIN queue' : queue'[i] # a
            /\ \E i \in DOMAIN queue' : queue'[i] = b
<1> PICK i \in DOMAIN queue, k \in DOMAIN queue : i < k /\ queue[i] = a /\ queue[k] = b
  BY DEF Ahead
<1>1. ASSUME NEW j \in Jobs, Submit(j) PROVE Ahead(a, b)'
  <2>1. /\ i \in DOMAIN queue' /\ queue'[i] = a
        /\ k \in DOMAIN queue' /\ queue'[k] = b
    BY <1>1, AddsLast DEF Submit, PoolInv
  <2> QED  BY <2>1 DEF Ahead
<1>2. ASSUME NEW w \in Workers, Start(w)
      PROVE  \/ Ahead(a, b)'
             \/ /\ \A n \in DOMAIN queue' : queue'[n] # a
                /\ \E n \in DOMAIN queue' : queue'[n] = b
  <2>1. queue # <<>> /\ queue' = Tail(queue)
    BY <1>2 DEF Start
  <2>2. i \in Nat /\ k \in Nat /\ i >= 1
    BY <2>1, TakesHead
  <2>3. k - 1 \in DOMAIN queue' /\ queue'[k - 1] = b
    BY <2>1, <2>2, MovesUp
  <2>4. CASE i = 1
    <3>1. \A n \in DOMAIN queue' :
            n + 1 \in DOMAIN queue /\ n + 1 # 1 /\ queue'[n] = queue[n + 1]
      BY <2>1, TakesHead
    <3>2. \A n \in DOMAIN queue' : queue'[n] # a
      BY <2>4, <3>1 DEF PoolInv, OnePlace
    <3> QED  BY <2>3, <3>2
  <2>5. CASE i # 1
    <3>1. i - 1 \in DOMAIN queue' /\ queue'[i - 1] = a
      BY <2>1, <2>5, MovesUp
    <3>2. i - 1 < k - 1
      BY <2>2
    <3>3. Ahead(a, b)'
      BY <2>3, <3>1, <3>2 DEF Ahead
    <3> QED  BY <3>3
  <2> QED  BY <2>4, <2>5
<1>3. CASE Close \/ (\E w \in Workers : Finish(w) \/ Retire(w)) \/ UNCHANGED vars
  <2>1. queue' = queue
    BY <1>3 DEF Close, Finish, Retire, vars
  <2> QED  BY <2>1 DEF Ahead
<1> QED  BY <1>1, <1>2, <1>3 DEF Next

LEMMA PoolInvariance == ASSUME NoJob \notin Jobs PROVE Spec => []PoolInv
<1>1. Init => PoolInv
  BY PoolInit
<1>2. PoolInv /\ [Next]_vars => PoolInv'
  BY PoolStep
<1> QED  BY <1>1, <1>2, PTL DEF Spec

\* Of a pool of any size and any number of jobs: a job is never both queued and
\* running, nor queued twice, nor run by two workers, nor queued or run again
\* once it is done.
THEOREM EachJobOnce == ASSUME NoJob \notin Jobs PROVE Spec => []OnePlace
<1>1. PoolInv => OnePlace
  BY DEF PoolInv
<1> QED  BY <1>1, PoolInvariance, PTL

\* No job that was submitted is lost, not by closing the pool either.
THEOREM NoJobLost == ASSUME NoJob \notin Jobs PROVE Spec => NeverLost
<1>1. PoolInv /\ [Next]_vars => \A j \in Jobs : Submitted(j) => Submitted(j)'
  BY StaysSubmitted
<1> QED  BY <1>1, PoolInvariance, PTL DEF Spec, NeverLost

\* Jobs are taken first in, first out, by any number of workers.
THEOREM FirstInFirstOut == ASSUME NoJob \notin Jobs PROVE Spec => InOrder
<1>1. PoolInv /\ [Next]_vars =>
        \A a, b \in Jobs : Ahead(a, b) =>
          \/ Ahead(a, b)'
          \/ /\ \A i \in DOMAIN queue' : queue'[i] # a
             /\ \E i \in DOMAIN queue' : queue'[i] = b
  BY KeepsOrder
<1> QED  BY <1>1, PoolInvariance, PTL DEF Spec, InOrder

-----------------------------------------------------------------------------
(* Connections.                                                            *)

CONSTANTS Peers, Fds, Runners, None
VARIABLES sock, under

Conns == INSTANCE Connections

ConnsSpec == Conns!Init /\ [][Conns!Next]_<<sock, under>>

\* A handler that is under way on a descriptor works for the connection that the
\* descriptor names, it is the only one on it, and its thread runs no other.
HandlersApart ==
  \A f, g \in Fds : \A h \in under[f], k \in under[g] :
    /\ h.of = sock[f] /\ sock[f] # None
    /\ (f = g \/ h.by = k.by) => f = g /\ h = k

ConnsInv ==
  /\ sock \in [Fds -> Peers \cup {None}]
  /\ DOMAIN under = Fds /\ under = [f \in Fds |-> under[f]]
  /\ HandlersApart

\* A descriptor keeps its connection from the call of a handler to its return.
NamedThroughout == [][\A f \in Fds : under[f] # {} => sock'[f] = sock[f]]_<<sock, under>>

LEMMA ConnsStep ==
  ASSUME ConnsInv, [Conns!Next]_<<sock, under>>
  PROVE  /\ ConnsInv'
         /\ \A f \in Fds : under[f] # {} => sock'[f] = sock[f]
<1> USE DEF ConnsInv
<1>1. ASSUME NEW f \in Fds, NEW c \in Peers, Conns!Open(c, f)
      PROVE  ConnsInv' /\ \A g \in Fds : under[g] # {} => sock'[g] = sock[g]
  <2>1. under[f] = {}
    BY <1>1 DEF Conns!Open, HandlersApart
  <2> QED  BY <1>1, <2>1 DEF Conns!Open, HandlersApart
<1>2. ASSUME NEW f \in Fds, NEW w \in Runners, Conns!Enter(w, f)
      PROVE  ConnsInv' /\ sock' = sock
  <2> DEFINE h == [by |-> w, of |-> sock[f]]
  <2>1. /\ sock' = sock /\ sock[f] # None
        /\ \A g \in Fds : under'[g] = IF g = f THEN {h} ELSE under[g]
        /\ \A g \in Fds : \A k \in under[g] : k.by # w
        /\ DOMAIN under' = Fds /\ under' = [g \in Fds |-> under'[g]]
    BY <1>2 DEF Conns!Enter
  <2>2. h.by = w /\ h.of = sock[f]
    OBVIOUS
  <2> HIDE DEF h
  <2>3. HandlersApart'
    BY <2>1, <2>2 DEF HandlersApart
  <2> QED  BY <2>1, <2>3
<1>3. ASSUME NEW f \in Fds, Conns!Leave(f) PROVE ConnsInv' /\ sock' = sock
  BY <1>3 DEF Conns!Leave, HandlersApart
<1>4. ASSUME NEW f \in Fds, Conns!Close(f)
      PROVE  ConnsInv' /\ \A g \in Fds : under[g] # {} => sock'[g] = sock[g]
  BY <1>4 DEF Conns!Close, HandlersApart
<1>5. CASE UNCHANGED <<sock, under>>
  BY <1>5 DEF HandlersApart
<1> QED  BY <1>1, <1>2, <1>3, <1>4, <1>5 DEF Conns!Next

LEMMA ConnsInvariance == ConnsSpec => []ConnsInv
<1>1. Conns!Init => ConnsInv
  BY DEF Conns!Init, ConnsInv, HandlersApart
<1>2. ConnsInv /\ [Conns!Next]_<<sock, under>> => ConnsInv'
  BY ConnsStep
<1> QED  BY <1>1, <1>2, PTL DEF ConnsSpec

\* For any number of connections, descriptors and threads, handlers are called
\* one at a time for each descriptor and each thread.
THEOREM OneHandlerEach == ConnsSpec => []HandlersApart
<1>1. ConnsInv => HandlersApart
  BY DEF ConnsInv
<1> QED  BY <1>1, ConnsInvariance, PTL

\* The descriptor that a handler was given names its connection until it returns.
THEOREM ContextKept == ConnsSpec => NamedThroughout
<1>1. ConnsInv /\ [Conns!Next]_<<sock, under>> =>
        \A f \in Fds : under[f] # {} => sock'[f] = sock[f]
  BY ConnsStep
<1> QED  BY <1>1, ConnsInvariance, PTL DEF ConnsSpec, NamedThroughout

=============================================================================
