---------------------------- MODULE Server_proofs ----------------------------
(***************************************************************************)
(* The connection table of oflib::Server, for every set of switches,       *)
(* descriptors and workers and any traffic: until stop is called, each     *)
(* open socket is in one pair of hands, the table agrees with the kernel   *)
(* in spite of the reuse of descriptors, no pointer into the table         *)
(* dangles, each handler gets the descriptor of the right switch and no    *)
(* switch is cut off without a cause; and stop leaves at most one socket   *)
(* open.                                                                   *)
(***************************************************************************)
EXTENDS Server, SequenceTheorems, FiniteSetTheorems, TLAPS

-----------------------------------------------------------------------------
(* Types.                                                                  *)

\* What returning from handle_client does to the types of a worker's locals.
LEMMA DoneType ==
  ASSUME TypeOK, NEW w \in Workers, Done(w)
  PROVE  /\ wpc' \in [Workers -> {"idle", "loop", "lookup", "recv", "blocked",
                                  "ingest", "parse", "cleanup", "erase"}]
         /\ wfd' \in [Workers -> Fds \cup {None}]
         /\ wconn' \in [Workers -> Clients \cup {None}]
         /\ wsock' \in [Workers -> Clients \cup {None}]
         /\ batch' \in [Workers -> Seq(Kinds)]
         /\ \A v \in Workers :
              /\ wfd'[v] # None <=> wpc'[v] # "idle"
              /\ Holding(v)' => wconn'[v] # None
              /\ wpc'[v] \in {"blocked", "ingest", "parse"} => wsock'[v] # None
<1>1. wpc'[w] = "idle" /\ wfd'[w] = None
  BY DEF TypeOK, Done
<1>2. \A v \in Workers \ {w} : /\ wpc'[v] = wpc[v] /\ wfd'[v] = wfd[v]
                               /\ wconn'[v] = wconn[v] /\ wsock'[v] = wsock[v]
  BY DEF TypeOK, Done
<1>3. \A v \in Workers :
              /\ wfd'[v] # None <=> wpc'[v] # "idle"
              /\ Holding(v)' => wconn'[v] # None
              /\ wpc'[v] \in {"blocked", "ingest", "parse"} => wsock'[v] # None
  <2> SUFFICES ASSUME NEW v \in Workers
               PROVE  /\ wfd'[v] # None <=> wpc'[v] # "idle"
                      /\ Holding(v)' => wconn'[v] # None
                      /\ wpc'[v] \in {"blocked", "ingest", "parse"} => wsock'[v] # None
    OBVIOUS
  <2>1. CASE v = w
    BY <1>1, <2>1 DEF Holding
  <2>2. CASE v # w
    <3>1. /\ wpc'[v] = wpc[v] /\ wfd'[v] = wfd[v]
          /\ wconn'[v] = wconn[v] /\ wsock'[v] = wsock[v]
      BY <1>2, <2>2
    <3>2. /\ wfd[v] # None <=> wpc[v] # "idle"
          /\ Holding(v) => wconn[v] # None
          /\ wpc[v] \in {"blocked", "ingest", "parse"} => wsock[v] # None
      BY DEF TypeOK
    <3> QED  BY <3>1, <3>2 DEF Holding
  <2> QED  BY <2>1, <2>2
<1>4. wpc' \in [Workers -> {"idle", "loop", "lookup", "recv", "blocked",
                           "ingest", "parse", "cleanup", "erase"}]
  BY DEF TypeOK, Done
<1>5. wfd' \in [Workers -> Fds \cup {None}] /\ wconn' \in [Workers -> Clients \cup {None}]
  BY DEF TypeOK, Done
<1>6. wsock' \in [Workers -> Clients \cup {None}]
  BY DEF TypeOK, Done
<1>7. batch' \in [Workers -> Seq(Kinds)]
  <2>1. <<>> \in Seq(Kinds)
    OBVIOUS
  <2> QED  BY <2>1 DEF TypeOK, Done
<1> QED  BY <1>3, <1>4, <1>5, <1>6, <1>7

\* The pointer of a worker refers to some Connection object.
LEMMA PointeeType ==
  ASSUME TypeOK, NEW w \in Workers, Holding(w)
  PROVE  Pointee(w) \subseteq Clients
  BY DEF TypeOK, Pointee, Registered

\* Closing an object changes the descriptor table and the field fd.
LEMMA CloseType ==
  ASSUME TypeOK, NEW o \in Clients, CloseObject(o)
  PROVE  sock' \in [Fds -> Clients \cup {None}] /\ conn' \in [Clients -> Fds \cup {None}]
  BY DEF TypeOK, CloseObject

\* The server starts with the declared types.
LEMMA TypeCorrect_Init == Init => TypeOK
<1> SUFFICES ASSUME Init PROVE TypeOK
  OBVIOUS
<1>1. /\ <<>> \in Seq(Kinds)
      /\ <<>> \in Seq(Fds)
  OBVIOUS
<1>2. wire \in [Clients -> Seq(Kinds)] /\ batch \in [Workers -> Seq(Kinds)]
  BY <1>1 DEF Init
<1>3. afd # None <=> acc \in {"insert", "enqueue"}
  BY DEF Init
<1>4. \A w \in Workers :
        /\ wfd[w] # None <=> wpc[w] # "idle"
        /\ ~Holding(w)
        /\ wpc[w] \notin {"blocked", "ingest", "parse"}
  BY DEF Init, Holding
<1>5. running \in BOOLEAN /\ events \subseteq Clients \X (Fds \cup {None})
  BY DEF Init
<1> QED  BY <1>1, <1>2, <1>3, <1>4, <1>5 DEF Init, TypeOK

\* The steps of the switches, of the acceptor and of stop keep the types.
LEMMA TypeCorrect_Others ==
  TypeOK /\ (Listen \/ Acceptor \/ Stop \/ Environment) => TypeOK'
<1> SUFFICES ASSUME TypeOK, Listen \/ Acceptor \/ Stop \/ Environment
             PROVE  TypeOK'
  OBVIOUS
<1> USE ServerAssumption
<1> USE DEF vars, envVars, tableVars, accVars, workerVars
<1>1. ASSUME NEW c \in Clients, Connect(c) PROVE TypeOK'
  BY <1>1 DEF TypeOK, Connect, Holding
<1>2. ASSUME NEW c \in Clients, Send(c) PROVE TypeOK'
  <2>1. PICK k \in Kinds : wire' = [wire EXCEPT ![c] = Append(@, k)]
    BY <1>2 DEF Send
  <2>2. Append(wire[c], k) \in Seq(Kinds)
    BY DEF TypeOK
  <2>3. wire' \in [Clients -> Seq(Kinds)]
    BY <2>1, <2>2 DEF TypeOK
  <2>4. UNCHANGED <<net, hungup, sock, others, tableVars, tasks, main, accVars, workerVars>>
    BY <1>2 DEF Send
  <2> QED  BY <2>3, <2>4 DEF TypeOK, Holding
<1>3. ASSUME NEW c \in Clients, HangUp(c) PROVE TypeOK'
  <2>1. <<>> \in Seq(Kinds)
    OBVIOUS
  <2>2. wire' \in [Clients -> Seq(Kinds)]
    <3>1. wire' = wire \/ wire' = [wire EXCEPT ![c] = <<>>]
      BY <1>3 DEF HangUp
    <3>2. wire \in [Clients -> Seq(Kinds)]
      BY DEF TypeOK
    <3> QED  BY <2>1, <3>1, <3>2
  <2> QED  BY <1>3, <2>2 DEF TypeOK, HangUp, Holding
<1>4. CASE Listen
  <2>1. running' \in BOOLEAN
    BY <1>4 DEF TypeOK, Listen
  <2>2. acc = "none" /\ acc' \in {"none", "loop"} /\ afd' = afd /\ main' \in {"up", "failed"}
    BY <1>4 DEF TypeOK, Listen
  <2> QED  BY <1>4, <2>1, <2>2 DEF TypeOK, Listen, Holding
<1>5. CASE AcceptLoop \/ AcceptEnd \/ AcceptFails
  BY <1>5 DEF TypeOK, AcceptLoop, AcceptEnd, AcceptFails, Holding
<1>6. ASSUME NEW c \in Clients, NEW f \in Fds, Accept(c, f) PROVE TypeOK'
  BY <1>6 DEF TypeOK, Accept, FreeFds, Holding
<1>7. CASE Insert
  <2>1. afd \in Fds
    BY <1>7 DEF TypeOK, Insert
  <2>2. connections' \in [Fds -> Clients \cup {None}]
    BY <1>7, <2>1 DEF TypeOK, Insert
  <2>3. conn' \in [Clients -> Fds \cup {None}]
    BY <1>7, <2>1 DEF TypeOK, Insert
  <2> QED  BY <1>7, <2>2, <2>3 DEF TypeOK, Insert, Holding
<1>8. CASE Enqueue
  <2>1. afd \in Fds
    BY <1>8 DEF TypeOK, Enqueue
  <2>2. tasks' \in Seq(Fds)
    BY <1>8, <2>1 DEF TypeOK, Enqueue
  <2> QED  BY <1>8, <2>2 DEF TypeOK, Enqueue, Holding
<1>9. CASE StopFlag \/ StopLock \/ StopClear
  <2>1. running' \in BOOLEAN
    BY <1>9 DEF TypeOK, StopFlag, StopLock, StopClear
  <2>2. connections' \in [Fds -> Clients \cup {None}]
    BY <1>9 DEF TypeOK, StopFlag, StopLock, StopClear
  <2> QED  BY <1>9, <2>1, <2>2 DEF TypeOK, StopFlag, StopLock, StopClear, Holding
<1>10. ASSUME NEW c \in Clients, StopClose(c) PROVE TypeOK'
  <2>1. sock' \in [Fds -> Clients \cup {None}] /\ conn' \in [Clients -> Fds \cup {None}]
    BY <1>10, CloseType DEF StopClose
  <2> QED  BY <1>10, <2>1 DEF TypeOK, StopClose, Holding
<1>11. ASSUME NEW f \in Fds, Borrow(f) \/ GiveBack(f) PROVE TypeOK'
  BY <1>11 DEF TypeOK, Borrow, GiveBack, Holding
<1> QED  BY <1>1, <1>2, <1>3, <1>4, <1>5, <1>6, <1>7, <1>8, <1>9, <1>10, <1>11
         DEF Acceptor, Stop, Environment, Switch

\* The steps of a worker keep the types.
LEMMA TypeCorrect_Worker ==
  ASSUME TypeOK, NEW w \in Workers, Worker(w)
  PROVE  TypeOK'
<1> USE ServerAssumption
<1> USE DEF envVars, tableVars, accVars, Goto
<1>1. CASE TakeTask(w)
  <2>1. Head(tasks) \in Fds /\ Tail(tasks) \in Seq(Fds)
    BY <1>1 DEF TypeOK, TakeTask
  <2>2. \A v \in Workers : wfd'[v] # None <=> wpc'[v] # "idle"
    BY <1>1, <2>1 DEF TypeOK, TakeTask
  <2> QED  BY <1>1, <2>1, <2>2 DEF TypeOK, TakeTask, Holding
<1>2. CASE LoopTest(w)
  <2>1. CASE Done(w)
    BY <1>2, <2>1, DoneType DEF TypeOK, LoopTest
  <2>2. CASE Goto(w, "lookup") /\ UNCHANGED <<wfd, wconn, wsock, batch>>
    BY <1>2, <2>2 DEF TypeOK, LoopTest, Holding
  <2> QED  BY <1>2, <2>1, <2>2 DEF LoopTest
<1>3. CASE Lookup(w)
  <2>1. CASE Done(w)
    BY <1>3, <2>1, DoneType DEF TypeOK, Lookup
  <2>2. CASE ~Done(w)
    <3>1. wfd[w] \in Fds /\ connections[wfd[w]] \in Clients
      BY <1>3, <2>2 DEF TypeOK, Lookup
    <3>2. /\ wconn' = [wconn EXCEPT ![w] = connections[wfd[w]]]
          /\ wpc' = [wpc EXCEPT ![w] = "recv"]
          /\ UNCHANGED <<wfd, wsock, batch>>
      BY <1>3, <2>2 DEF Lookup
    <3>3. \A v \in Workers :
            /\ wfd'[v] # None <=> wpc'[v] # "idle"
            /\ Holding(v)' => wconn'[v] # None
            /\ wpc'[v] \in {"blocked", "ingest", "parse"} => wsock'[v] # None
      BY <3>1, <3>2 DEF TypeOK, Holding
    <3> QED  BY <1>3, <3>1, <3>2, <3>3 DEF TypeOK, Lookup
  <2> QED  BY <2>1, <2>2
<1>4. CASE RecvCall(w)
  <2>1. Holding(w)
    BY <1>4 DEF RecvCall, Holding
  <2>2. PICK o \in Pointee(w) :
          LET s == IF conn[o] = None THEN None ELSE sock[conn[o]] IN
            /\ wsock' = [wsock EXCEPT ![w] = s]
            /\ IF s = None THEN Goto(w, "cleanup") ELSE Goto(w, "blocked")
    BY <1>4 DEF RecvCall
  <2>3. (IF conn[o] = None THEN None ELSE sock[conn[o]]) \in Clients \cup {None}
    BY <2>1, <2>2, PointeeType DEF TypeOK
  <2>4. wsock' \in [Workers -> Clients \cup {None}]
    BY <2>2, <2>3 DEF TypeOK
  <2>5. \/ wsock'[w] = None /\ wpc' = [wpc EXCEPT ![w] = "cleanup"]
        \/ wsock'[w] # None /\ wpc' = [wpc EXCEPT ![w] = "blocked"]
    BY <2>2 DEF TypeOK
  <2>6. \A v \in Workers \ {w} : wsock'[v] = wsock[v]
    BY <2>2 DEF TypeOK
  <2>7. UNCHANGED <<wfd, wconn, batch>> /\ wpc[w] = "recv"
    BY <1>4 DEF RecvCall
  <2>8. \A v \in Workers :
          /\ wfd'[v] # None <=> wpc'[v] # "idle"
          /\ Holding(v)' => wconn'[v] # None
          /\ wpc'[v] \in {"blocked", "ingest", "parse"} => wsock'[v] # None
    BY <2>5, <2>6, <2>7 DEF TypeOK, Holding
  <2>9. wpc' \in [Workers -> {"idle", "loop", "lookup", "recv", "blocked",
                             "ingest", "parse", "cleanup", "erase"}]
    BY <2>5 DEF TypeOK
  <2>10. UNCHANGED <<net, wire, hungup, sock, others, running, connections, conn, mutex, tasks,
                     main, acc, afd, events>>
    BY <1>4 DEF RecvCall
  <2> QED  BY <2>4, <2>7, <2>8, <2>9, <2>10 DEF TypeOK
<1>5. CASE RecvData(w)
  <2>1. wsock[w] \in Clients
    BY <1>5 DEF TypeOK, RecvData
  <2>2. PICK n \in 1 .. Len(wire[wsock[w]]) :
          /\ batch' = [batch EXCEPT ![w] = SubSeq(wire[wsock[w]], 1, n)]
          /\ wire' = [wire EXCEPT ![wsock[w]] = SubSeq(@, n + 1, Len(@))]
    BY <1>5 DEF RecvData
  <2>3. wire[wsock[w]] \in Seq(Kinds)
    BY <2>1 DEF TypeOK
  <2>4. \A i \in 1 .. Len(wire[wsock[w]]) : wire[wsock[w]][i] \in Kinds
    BY <2>3, ElementOfSeq
  <2>5. /\ SubSeq(wire[wsock[w]], 1, n) \in Seq(Kinds)
        /\ SubSeq(wire[wsock[w]], n + 1, Len(wire[wsock[w]])) \in Seq(Kinds)
    <3>1. Len(wire[wsock[w]]) \in Nat /\ n \in Int /\ n + 1 \in Int /\ n + 1 > 1
      BY <2>2, <2>3
    <3>2. \A i \in 1 .. n : wire[wsock[w]][i] \in Kinds
      BY <2>2, <2>4, <3>1
    <3>3. \A i \in n + 1 .. Len(wire[wsock[w]]) : wire[wsock[w]][i] \in Kinds
      BY <2>4, <3>1
    <3> QED  BY <3>1, <3>2, <3>3, SubSeqProperties
  <2>6. batch' \in [Workers -> Seq(Kinds)] /\ wire' \in [Clients -> Seq(Kinds)]
    BY <2>2, <2>5 DEF TypeOK
  <2> QED  BY <1>5, <2>1, <2>6 DEF TypeOK, RecvData, Holding
<1>6. CASE RecvEnd(w)
  BY <1>6 DEF TypeOK, RecvEnd, Holding
<1>7. CASE Ingest(w)
  <2>1. \E label \in {"cleanup", "parse"} : wpc' = [wpc EXCEPT ![w] = label]
    BY <1>7 DEF Ingest
  <2> QED  BY <1>7, <2>1 DEF TypeOK, Ingest, Holding
<1>8. CASE NeedMore(w)
  BY <1>8 DEF TypeOK, NeedMore, Holding
<1>9. CASE Parse(w)
  <2>1. Holding(w) /\ wsock[w] \in Clients
    BY <1>9 DEF TypeOK, Parse, Holding
  <2>2. batch' \in [Workers -> Seq(Kinds)]
    <3>1. batch[w] \in Seq(Kinds) /\ batch[w] # <<>> /\ batch \in [Workers -> Seq(Kinds)]
      BY <1>9 DEF TypeOK, Parse
    <3>2. Tail(batch[w]) \in Seq(Kinds)
      BY <3>1
    <3>3. batch' = batch \/ batch' = [batch EXCEPT ![w] = Tail(batch[w])]
      BY <1>9 DEF Parse
    <3> QED  BY <3>1, <3>2, <3>3
  <2>3. events' \subseteq Clients \X (Fds \cup {None})
    <3>1. events' = events \/ \E o \in Pointee(w) : events' = events \cup {<<wsock[w], conn[o]>>}
      BY <1>9 DEF Parse
    <3>2. ASSUME NEW o \in Pointee(w) PROVE conn[o] \in Fds \cup {None}
      BY <2>1, <3>2, PointeeType DEF TypeOK
    <3>3. events \subseteq Clients \X (Fds \cup {None})
      BY DEF TypeOK
    <3> QED  BY <2>1, <3>1, <3>2, <3>3
  <2>4. wpc' = wpc \/ wpc' = [wpc EXCEPT ![w] = "cleanup"]
    BY <1>9 DEF Parse, Goto
  <2>5. UNCHANGED <<envVars, tableVars, tasks, main, accVars, wfd, wconn, wsock>> /\ wpc[w] = "parse"
    BY <1>9 DEF Parse
  <2>6. /\ wpc' \in [Workers -> {"idle", "loop", "lookup", "recv", "blocked",
                              "ingest", "parse", "cleanup", "erase"}]
        /\ \A v \in Workers :
             /\ wfd[v] # None <=> wpc'[v] # "idle"
             /\ Holding(v)' => wconn[v] # None
             /\ wpc'[v] \in {"blocked", "ingest", "parse"} => wsock[v] # None
    <3>1. \A v \in Workers : wpc'[v] = wpc[v] \/ (v = w /\ wpc'[v] = "cleanup")
      BY <2>4, <2>5 DEF TypeOK
    <3>2. \A v \in Workers : /\ wfd[v] # None <=> wpc[v] # "idle"
                             /\ Holding(v) => wconn[v] # None
                             /\ wpc[v] \in {"blocked", "ingest", "parse"} => wsock[v] # None
      BY DEF TypeOK
    <3>3. wpc' \in [Workers -> {"idle", "loop", "lookup", "recv", "blocked",
                               "ingest", "parse", "cleanup", "erase"}]
      BY <2>4 DEF TypeOK
    <3> QED  BY <2>1, <2>5, <3>1, <3>2, <3>3 DEF Holding
  <2> QED  BY <2>2, <2>3, <2>5, <2>6 DEF TypeOK
<1>10. CASE Cleanup(w)
  <2>1. Holding(w)
    BY <1>10 DEF Cleanup, Holding
  <2>2. sock' \in [Fds -> Clients \cup {None}] /\ conn' \in [Clients -> Fds \cup {None}]
    BY <1>10, <2>1, PointeeType, CloseType DEF Cleanup
  <2> QED  BY <1>10, <2>2 DEF TypeOK, Cleanup, Holding
<1>11. CASE Erase(w)
  BY <1>11, DoneType DEF TypeOK, Erase
<1> QED  BY <1>1, <1>2, <1>3, <1>4, <1>5, <1>6, <1>7, <1>8, <1>9, <1>10, <1>11 DEF Worker

\* No step at all keeps the types.
LEMMA TypeCorrect_Stutter == TypeOK /\ UNCHANGED vars => TypeOK'
  BY DEF TypeOK, vars, envVars, tableVars, accVars, workerVars, Holding

\* Every variable of the server keeps its type, whatever stop and the switches do.
THEOREM TypeCorrect == Spec => []TypeOK
<1>1. TypeOK /\ [Next]_vars => TypeOK'
  BY TypeCorrect_Others, TypeCorrect_Worker, TypeCorrect_Stutter DEF Next
<1> QED  BY <1>1, TypeCorrect_Init, PTL DEF Spec

-----------------------------------------------------------------------------
(***************************************************************************)
(* The inductive invariant.  A descriptor is linked when the kernel, the   *)
(* table and the Connection object all agree on what it names.  Queued     *)
(* jobs, busy workers and the acceptor that made an entry hold linked      *)
(* descriptors, all different; a worker that closed its socket and has not *)
(* yet erased the entry holds the mutex, and its descriptor, whose number  *)
(* the acceptor may hold by then, is not linked.                           *)
(***************************************************************************)
Linked(f) ==
  /\ sock[f] # None
  /\ connections[f] = sock[f]
  /\ conn[sock[f]] = f

Serving(w) == wpc[w] \notin {"idle", "erase"}

Erasing(f) == \E w \in Workers : wpc[w] = "erase" /\ wfd[w] = f

\* Jobs are about linked descriptors, each about another one.
JobsOK ==
  \A i \in DOMAIN tasks :
    /\ Linked(tasks[i])
    /\ tasks[i] # afd
    /\ \A j \in DOMAIN tasks : tasks[i] = tasks[j] => i = j

\* So are workers, whose locals agree with the table.
WorkersOK ==
  \A w \in Workers : Serving(w) =>
    /\ Linked(wfd[w])
    /\ wfd[w] # afd
    /\ \A i \in DOMAIN tasks : tasks[i] # wfd[w]
    /\ \A v \in Workers : Serving(v) /\ wfd[v] = wfd[w] => v = w
    /\ Holding(w) => wconn[w] = sock[wfd[w]]
    /\ wpc[w] \in {"blocked", "ingest", "parse"} => wsock[w] = sock[wfd[w]]

\* The acceptor has a socket that is not in the table, then makes its entry
\* where there is none, unless that entry is being erased.
AcceptorOK ==
  /\ acc = "enqueue" => Linked(afd)
  /\ acc = "insert" => /\ sock[afd] # None
                       /\ sock[afd] \notin Registered
                       /\ connections[afd] = None \/ Erasing(afd)

\* Every open socket is in somebody's hands; when running_ is false its worker
\* may have left it to stop, which finds it in the table.
SocketsOwned ==
  \A f \in Fds : sock[f] # None =>
    \/ afd = f
    \/ \E i \in DOMAIN tasks : tasks[i] = f
    \/ \E w \in Workers : Serving(w) /\ wfd[w] = f
    \/ main = "lock" /\ Linked(f)

\* An entry that disagrees with the kernel is being erased, by the worker that
\* holds the mutex.
EntriesOK ==
  /\ \A f \in Fds : connections[f] # None => connections[f] = sock[f] \/ Erasing(f)
  /\ \A w \in Workers : wpc[w] = "erase" =>
       /\ mutex = w
       /\ connections[wfd[w]] # None
       /\ conn[connections[wfd[w]]] = None
  /\ mutex # None => mutex \in Workers /\ wpc[mutex] = "erase"

\* A connection has one descriptor and one entry, and none before accept.
NamesUnique ==
  /\ \A f \in Fds : sock[f] # None => net[sock[f]] = "accepted"
  /\ \A f \in Fds : connections[f] # None => net[connections[f]] = "accepted"
  /\ \A f, g \in Fds : sock[f] # None /\ sock[f] = sock[g] => f = g
  /\ \A f, g \in Fds : connections[f] # None /\ connections[f] = connections[g] => f = g

\* Before stop, the threads run exactly if listen succeeded.
MainOK ==
  /\ main = "up" => running
  /\ main \in {"start", "failed"} => acc = "none" /\ \A f \in Fds : sock[f] = None

Consistent ==
  /\ JobsOK
  /\ WorkersOK
  /\ AcceptorOK
  /\ SocketsOwned
  /\ EntriesOK
  /\ NamesUnique
  /\ MainOK

\* From the moment on when stop has the mutex it closes what others use.
Closing == main \in {"close", "stopped"}

TableInv == TypeOK /\ (~Closing => Consistent)

-----------------------------------------------------------------------------
(* The steps that leave the table and the descriptors alone.               *)

\* A step that moves a worker inside handle_client, or a switch, keeps the
\* table consistent if the locals of the workers go on agreeing with it.
LEMMA LocalStep ==
  ASSUME TypeOK, TypeOK', Consistent,
         UNCHANGED <<sock, connections, conn, tasks, mutex, main, running, afd, wfd>>,
         acc' = acc \/ (acc \in {"loop", "accept"} /\ acc' \in {"loop", "accept", "end"}),
         \A c \in Clients : net[c] = "accepted" => net'[c] = "accepted",
         \A v \in Workers : Serving(v)' <=> Serving(v),
         \A v \in Workers : wpc'[v] = "erase" <=> wpc[v] = "erase",
         \A v \in Workers : Holding(v)' => wconn'[v] = sock[wfd[v]],
         \A v \in Workers : wpc'[v] \in {"blocked", "ingest", "parse"} => wsock'[v] = sock[wfd[v]]
  PROVE  Consistent'
<1> USE DEF Consistent
<1>1. \A f : Linked(f)' <=> Linked(f)
  BY DEF Linked
<1>2. \A f : Erasing(f)' <=> Erasing(f)
  BY DEF Erasing
<1>3. Registered' = Registered
  BY DEF Registered
<1>4. JobsOK'
  BY <1>1 DEF JobsOK
<1>5. WorkersOK'
  BY <1>1 DEF WorkersOK
<1>6. AcceptorOK'
  BY <1>1, <1>2, <1>3 DEF AcceptorOK
<1>7. SocketsOwned'
  BY <1>1 DEF SocketsOwned
<1>8. EntriesOK'
  BY <1>2 DEF EntriesOK
<1>9. NamesUnique'
  BY DEF NamesUnique, TypeOK
<1>10. MainOK'
  BY DEF MainOK
<1> QED  BY <1>4, <1>5, <1>6, <1>7, <1>8, <1>9, <1>10

\* The object that a worker's pointer refers to is the one of its own socket.
LEMMA PointeeIsOwn ==
  ASSUME TypeOK, Consistent, NEW w \in Workers, Holding(w)
  PROVE  /\ wfd[w] \in Fds
         /\ wconn[w] \in Clients
         /\ sock[wfd[w]] = wconn[w]
         /\ connections[wfd[w]] = wconn[w]
         /\ conn[wconn[w]] = wfd[w]
         /\ Pointee(w) = {wconn[w]}
<1>1. Serving(w)
  BY DEF Holding, Serving
<1>2. Linked(wfd[w]) /\ wconn[w] = sock[wfd[w]]
  BY <1>1 DEF Consistent, WorkersOK
<1>3. wfd[w] \in Fds /\ wconn[w] \in Clients
  BY <1>1 DEF TypeOK, Holding
<1>4. wconn[w] \in Registered
  BY <1>2, <1>3 DEF Linked, Registered
<1> QED  BY <1>2, <1>3, <1>4 DEF Linked, Pointee

\* While stop waits for the mutex, a worker that leaves its socket behind leaves
\* it in the table.
LEMMA DoneStep ==
  ASSUME TypeOK, Consistent, NEW w \in Workers,
         wpc[w] = "loop", Linked(wfd[w]), wfd[w] \in Fds, main = "lock", Done(w),
         UNCHANGED <<sock, connections, conn, tasks, mutex, main, running, afd, acc, net>>
  PROVE  Consistent'
<1>1. /\ wpc'[w] = "idle"
      /\ \A v \in Workers \ {w} : /\ wpc'[v] = wpc[v] /\ wfd'[v] = wfd[v]
                                  /\ wconn'[v] = wconn[v] /\ wsock'[v] = wsock[v]
  BY DEF Done, TypeOK
<1>2. /\ \A f : Linked(f)' <=> Linked(f)
      /\ Registered' = Registered
  BY DEF Linked, Registered
<1>3. \A v \in Workers : (Serving(v)' <=> Serving(v) /\ v # w) /\ (Holding(v)' => Holding(v) /\ v # w)
  BY <1>1 DEF Serving, Holding
<1>4. \A f : Erasing(f)' <=> Erasing(f)
  BY <1>1 DEF Erasing
<1>5. JobsOK'
  BY <1>2 DEF Consistent, JobsOK
<1>6. WorkersOK'
  <2> SUFFICES ASSUME NEW v \in Workers, Serving(v)'
               PROVE  /\ Linked(wfd[v])' /\ wfd'[v] # afd
                      /\ \A i \in DOMAIN tasks : tasks[i] # wfd'[v]
                      /\ \A u \in Workers : Serving(u)' /\ wfd'[u] = wfd'[v] => u = v
                      /\ Holding(v)' => wconn'[v] = sock[wfd'[v]]
                      /\ wpc'[v] \in {"blocked", "ingest", "parse"} => wsock'[v] = sock[wfd'[v]]
    BY DEF WorkersOK
  <2>1. Serving(v) /\ v # w /\ wfd'[v] = wfd[v] /\ wpc'[v] = wpc[v]
        /\ wconn'[v] = wconn[v] /\ wsock'[v] = wsock[v]
    BY <1>1, <1>3
  <2>2. Linked(wfd[v])'
    <3>1. Linked(wfd[v])
      BY <2>1 DEF Consistent, WorkersOK
    <3> QED  BY <2>1, <3>1 DEF Linked
  <2>3. \A u \in Workers : Serving(u)' /\ wfd'[u] = wfd'[v] => u = v
    BY <1>1, <1>3, <2>1 DEF Consistent, WorkersOK
  <2> QED  BY <1>3, <2>1, <2>2, <2>3 DEF Consistent, WorkersOK
<1>7. AcceptorOK'
  BY <1>2, <1>4 DEF Consistent, AcceptorOK
<1>8. SocketsOwned'
  <2> SUFFICES ASSUME NEW f \in Fds, sock[f] # None
               PROVE  \/ afd = f \/ \E i \in DOMAIN tasks : tasks[i] = f
                      \/ \E v \in Workers : Serving(v)' /\ wfd'[v] = f
                      \/ Linked(f)
    BY <1>2 DEF SocketsOwned
  <2>1. ASSUME NEW v \in Workers, Serving(v), wfd[v] = f
        PROVE  Linked(f) \/ \E u \in Workers : Serving(u)' /\ wfd'[u] = f
    <3>1. CASE v = w
      BY <2>1, <3>1
    <3>2. CASE v # w
      BY <1>1, <1>3, <2>1, <3>2
    <3> QED  BY <3>1, <3>2
  <2> QED  BY <2>1 DEF Consistent, SocketsOwned
<1>9. EntriesOK'
  <2>1. \A v \in Workers : wpc'[v] = "erase" <=> wpc[v] = "erase"
    BY <1>1
  <2>2. \A v \in Workers : wpc'[v] = "erase" => wfd'[v] = wfd[v]
    BY <1>1
  <2> QED  BY <1>4, <2>1, <2>2 DEF Consistent, EntriesOK
<1>10. NamesUnique' /\ MainOK'
  BY DEF Consistent, NamesUnique, MainOK
<1> QED  BY <1>5, <1>6, <1>7, <1>8, <1>9, <1>10 DEF Consistent

\* A worker that reads, parses and calls handlers leaves the table consistent.
LEMMA ReadSteps ==
  ASSUME TypeOK, TypeOK', Consistent, ~Closing, NEW w \in Workers,
         \/ LoopTest(w) \/ Lookup(w) \/ RecvCall(w) \/ RecvData(w)
         \/ RecvEnd(w) \/ Ingest(w) \/ NeedMore(w) \/ Parse(w)
  PROVE  Consistent'
<1> USE ServerAssumption
<1> USE DEF envVars, tableVars, accVars, Goto
<1> DEFINE Same == UNCHANGED <<sock, connections, conn, tasks, mutex, main, running, afd, wfd, acc, net>>
           Inside == {"loop", "lookup", "recv", "blocked", "ingest", "parse", "cleanup"}
<1>1. CASE LoopTest(w)
  <2>1. Serving(w) /\ wpc[w] = "loop"
    BY <1>1 DEF LoopTest, Serving
  <2>2. Linked(wfd[w]) /\ wfd[w] \in Fds
    BY <1>1, <2>1 DEF Consistent, WorkersOK, TypeOK, LoopTest
  <2>3. CASE running
    <3>1. Same /\ UNCHANGED <<wconn, wsock>> /\ wpc' = [wpc EXCEPT ![w] = "lookup"]
      BY <1>1, <2>3 DEF LoopTest
    <3>2. /\ \A v \in Workers : Serving(v)' <=> Serving(v)
          /\ \A v \in Workers : wpc'[v] = "erase" <=> wpc[v] = "erase"
          /\ \A v \in Workers : Holding(v)' => Holding(v)
          /\ \A v \in Workers : wpc'[v] \in {"blocked", "ingest", "parse"}
                                  => wpc[v] \in {"blocked", "ingest", "parse"}
      BY <2>1, <3>1 DEF TypeOK, Serving, Holding
    <3>3. /\ \A v \in Workers : Holding(v)' => wconn'[v] = sock[wfd[v]]
          /\ \A v \in Workers : wpc'[v] \in {"blocked", "ingest", "parse"} => wsock'[v] = sock[wfd[v]]
      BY <3>1, <3>2 DEF Consistent, WorkersOK, Serving, Holding
    <3> QED  BY <3>1, <3>2, <3>3, LocalStep
  <2>4. CASE ~running
    <3>1. main = "lock"
      BY <2>2, <2>4 DEF Linked, Consistent, MainOK, TypeOK, Closing
    <3>2. /\ UNCHANGED <<sock, connections, conn, tasks, mutex, main, running, afd, acc, net>>
          /\ Done(w)
      BY <1>1, <2>4 DEF LoopTest
    <3> QED  BY <2>1, <2>2, <3>1, <3>2, DoneStep
  <2> QED  BY <2>3, <2>4
<1>2. CASE Lookup(w)
  <2>1. Linked(wfd[w]) /\ wfd[w] \in Fds
    BY <1>2 DEF Consistent, WorkersOK, TypeOK, Lookup, Serving
  <2>2. /\ Same /\ wsock' = wsock
        /\ wconn' = [wconn EXCEPT ![w] = sock[wfd[w]]]
        /\ wpc' = [wpc EXCEPT ![w] = "recv"]
    BY <1>2, <2>1 DEF Lookup, Linked
  <2>3. /\ \A v \in Workers : Serving(v)' <=> Serving(v)
        /\ \A v \in Workers : wpc'[v] = "erase" <=> wpc[v] = "erase"
        /\ \A v \in Workers \ {w} : Holding(v)' => Holding(v)
        /\ \A v \in Workers : wpc'[v] \in {"blocked", "ingest", "parse"}
                                => wpc[v] \in {"blocked", "ingest", "parse"}
    BY <1>2, <2>2 DEF Lookup, TypeOK, Serving, Holding
  <2>4. /\ \A v \in Workers : Holding(v)' => wconn'[v] = sock[wfd[v]]
        /\ \A v \in Workers : wpc'[v] \in {"blocked", "ingest", "parse"} => wsock'[v] = sock[wfd[v]]
    BY <2>2, <2>3 DEF Consistent, WorkersOK, Serving, Holding, TypeOK
  <2> QED  BY <2>2, <2>3, <2>4, LocalStep
<1>3. CASE \/ RecvCall(w) \/ RecvData(w) \/ RecvEnd(w)
           \/ Ingest(w) \/ NeedMore(w) \/ Parse(w)
  <2>1. Holding(w)
    BY <1>3 DEF Holding, RecvCall, RecvData, RecvEnd, Ingest, NeedMore, Parse
  <2>2. Same /\ wconn' = wconn
    BY <1>3 DEF RecvCall, RecvData, RecvEnd, Ingest, NeedMore, Parse
  <2>3. \A v \in Workers \ {w} : wsock'[v] = wsock[v]
    <3>1. CASE RecvCall(w)
      BY <3>1 DEF RecvCall, TypeOK
    <3>2. CASE RecvData(w) \/ RecvEnd(w) \/ Ingest(w) \/ NeedMore(w) \/ Parse(w)
      BY <3>2 DEF RecvData, RecvEnd, Ingest, NeedMore, Parse
    <3> QED  BY <1>3, <3>1, <3>2
  <2>4. wpc' = wpc \/ \E label \in Inside : wpc' = [wpc EXCEPT ![w] = label]
    BY <1>3 DEF RecvCall, RecvData, RecvEnd, Ingest, NeedMore, Parse
  <2>5. wpc'[w] \in {"blocked", "ingest", "parse"} => wsock'[w] = sock[wfd[w]]
    <3>1. CASE RecvCall(w)
      <4>1. conn[wconn[w]] = wfd[w] /\ wfd[w] # None /\ sock[wfd[w]] # None
        BY <2>1, PointeeIsOwn
      <4> QED  BY <3>1, <2>1, <4>1, PointeeIsOwn DEF RecvCall, TypeOK
    <3>2. CASE RecvData(w) \/ RecvEnd(w) \/ Ingest(w) \/ NeedMore(w) \/ Parse(w)
      <4>1. wsock' = wsock /\ wpc[w] \in {"blocked", "ingest", "parse"}
        BY <3>2 DEF RecvData, RecvEnd, Ingest, NeedMore, Parse
      <4>2. wsock[w] = sock[wfd[w]]
        BY <4>1 DEF Consistent, WorkersOK, Serving
      <4> QED  BY <4>1, <4>2
    <3> QED  BY <1>3, <3>1, <3>2
  <2>6. /\ \A v \in Workers : Serving(v)' <=> Serving(v)
        /\ \A v \in Workers : wpc'[v] = "erase" <=> wpc[v] = "erase"
        /\ \A v \in Workers \ {w} : wpc'[v] = wpc[v]
    <3>1. wpc[w] \notin {"idle", "erase"}
      BY <2>1 DEF Holding
    <3>2. \A v \in Workers \ {w} : wpc'[v] = wpc[v]
      BY <2>4 DEF TypeOK
    <3>3. wpc'[w] \notin {"idle", "erase"}
      BY <2>4, <3>1 DEF TypeOK
    <3> QED  BY <3>1, <3>2, <3>3 DEF Serving
  <2>7. /\ \A v \in Workers : Holding(v)' => wconn'[v] = sock[wfd[v]]
        /\ \A v \in Workers : wpc'[v] \in {"blocked", "ingest", "parse"} => wsock'[v] = sock[wfd[v]]
    BY <2>1, <2>2, <2>3, <2>5, <2>6 DEF Consistent, WorkersOK, Serving, Holding
  <2> QED  BY <2>2, <2>6, <2>7, LocalStep
<1> QED  BY <1>1, <1>2, <1>3

\* The switches, the outcome of listen and the acceptor's loop leave it alone.
LEMMA QuietSteps ==
  ASSUME TypeOK, TypeOK', Consistent,
         \/ Environment
         \/ AcceptLoop \/ AcceptFails \/ AcceptEnd
         \/ UNCHANGED vars
  PROVE  Consistent'
<1>1. /\ UNCHANGED <<sock, connections, conn, tasks, mutex, main, running, afd, wfd, wpc, wconn, wsock>>
      /\ acc' = acc \/ (acc \in {"loop", "accept"} /\ acc' \in {"loop", "accept", "end"})
  BY DEF Environment, Switch, Connect, Send, HangUp, Borrow, GiveBack,
         AcceptLoop, AcceptFails, AcceptEnd, vars, envVars, tableVars, accVars, workerVars
<1>2. \A c \in Clients : net[c] = "accepted" => net'[c] = "accepted"
  BY DEF Environment, Switch, Connect, Send, HangUp, Borrow, GiveBack,
         AcceptLoop, AcceptFails, AcceptEnd, TypeOK, vars, envVars, tableVars, accVars, workerVars
<1>3. /\ \A v \in Workers : Serving(v)' <=> Serving(v)
      /\ \A v \in Workers : Holding(v)' <=> Holding(v)
  BY <1>1 DEF Serving, Holding
<1>4. \A v \in Workers : Holding(v)' => wconn'[v] = sock[wfd[v]]
  BY <1>1, <1>3 DEF Consistent, WorkersOK, Serving, Holding
<1>5. \A v \in Workers : wpc'[v] \in {"blocked", "ingest", "parse"} => wsock'[v] = sock[wfd[v]]
  BY <1>1 DEF Consistent, WorkersOK, Serving
<1> QED  BY <1>1, <1>2, <1>3, <1>4, <1>5, LocalStep

-----------------------------------------------------------------------------
(* The steps that change the descriptors or the table.                     *)

\* listen starts the acceptor of a server without connections.
LEMMA ListenStep ==
  ASSUME TypeOK, Consistent, Listen PROVE Consistent'
<1> USE DEF Consistent, Listen, envVars, tableVars, workerVars
<1>1. acc = "none" /\ \A f \in Fds : sock[f] = None
  BY DEF MainOK
<1>2. /\ \A f : Linked(f)' <=> Linked(f)
      /\ \A f : Erasing(f)' <=> Erasing(f)
  BY DEF Linked, Erasing
<1>3. JobsOK' /\ SocketsOwned' /\ EntriesOK' /\ NamesUnique'
  BY <1>2 DEF JobsOK, SocketsOwned, EntriesOK, NamesUnique, Serving
<1>4. WorkersOK'
  BY <1>2 DEF WorkersOK, Serving, Holding
<1>5. AcceptorOK'
  BY <1>1 DEF AcceptorOK
<1>6. MainOK'
  BY <1>1 DEF MainOK
<1> QED  BY <1>3, <1>4, <1>5, <1>6

\* accept names a new connection by a descriptor that nobody holds, except
\* perhaps a worker that is about to erase its last user's entry.
LEMMA AcceptStep ==
  ASSUME TypeOK, Consistent, NEW c \in Clients, NEW f \in Fds, Accept(c, f)
  PROVE  Consistent'
<1> USE ServerAssumption
<1>1. /\ UNCHANGED <<connections, conn, tasks, mutex, main, running, wfd, wpc, wconn, wsock>>
      /\ sock[f] = None /\ sock' = [sock EXCEPT ![f] = c]
      /\ net[c] = "backlog" /\ net' = [net EXCEPT ![c] = "accepted"]
      /\ acc = "accept" /\ acc' = "insert" /\ afd' = f
  BY DEF Accept, FreeFds, tableVars, workerVars
<1>2. /\ \A g \in Fds : sock[g] # c
      /\ \A g \in Fds : connections[g] # c
      /\ c # None
  BY <1>1 DEF Consistent, NamesUnique
<1>3. ~Linked(f) /\ \A g \in Fds : Linked(g) => g # f /\ Linked(g)'
  BY <1>1 DEF Linked, TypeOK
<1>4. \A g : Erasing(g)' <=> Erasing(g)
  BY <1>1 DEF Erasing
<1>5. /\ \A i \in DOMAIN tasks : tasks[i] \in Fds
      /\ \A w \in Workers : Serving(w) => wfd[w] \in Fds
  BY DEF TypeOK, Serving
<1>6. JobsOK'
  BY <1>1, <1>3, <1>5 DEF Consistent, JobsOK
<1>7. WorkersOK'
  <2> SUFFICES ASSUME NEW w \in Workers, Serving(w)'
               PROVE  /\ Linked(wfd[w])' /\ wfd[w] # f
                      /\ \A i \in DOMAIN tasks : tasks[i] # wfd[w]
                      /\ \A v \in Workers : Serving(v) /\ wfd[v] = wfd[w] => v = w
                      /\ Holding(w) => wconn[w] = sock'[wfd[w]]
                      /\ wpc[w] \in {"blocked", "ingest", "parse"} => wsock[w] = sock'[wfd[w]]
    BY <1>1 DEF WorkersOK, Serving, Holding
  <2>1. Serving(w)
    BY <1>1 DEF Serving
  <2>2. Linked(wfd[w]) /\ wfd[w] # f /\ wfd[w] \in Fds
    BY <2>1, <1>3, <1>5 DEF Consistent, WorkersOK
  <2>3. sock'[wfd[w]] = sock[wfd[w]]
    BY <1>1, <2>2 DEF TypeOK
  <2>4. Linked(wfd[w])'
    <3>1. \A g \in Fds : Linked(g) => /\ sock'[g] # None
                                     /\ connections'[g] = sock'[g]
                                     /\ conn'[sock'[g]] = g
      BY <1>3 DEF Linked
    <3> QED  BY <2>2, <3>1, <1>1 DEF Linked
  <2> QED  BY <2>1, <2>2, <2>3, <2>4 DEF Consistent, WorkersOK
<1>8. AcceptorOK'
  <2>1. sock'[f] = c /\ c \notin Registered'
    BY <1>1, <1>2 DEF Registered, TypeOK
  <2>2. connections[f] = None \/ Erasing(f)
    BY <1>1, <1>2 DEF Consistent, EntriesOK
  <2> QED  BY <1>1, <1>2, <1>4, <2>1, <2>2 DEF AcceptorOK
<1>9. SocketsOwned'
  <2> SUFFICES ASSUME NEW g \in Fds, sock'[g] # None, g # f
               PROVE  \/ \E i \in DOMAIN tasks : tasks[i] = g
                      \/ \E w \in Workers : Serving(w) /\ wfd[w] = g
                      \/ main = "lock" /\ Linked(g)'
    BY <1>1 DEF SocketsOwned, Serving
  <2>1. sock[g] # None /\ afd = None
    BY <1>1 DEF TypeOK
  <2> QED  BY <1>3, <2>1 DEF Consistent, SocketsOwned
<1>10. EntriesOK'
  BY <1>1, <1>3, <1>4 DEF Consistent, EntriesOK, TypeOK
<1>11. NamesUnique'
  BY <1>1, <1>2 DEF Consistent, NamesUnique, TypeOK
<1>12. MainOK'
  BY <1>1 DEF Consistent, MainOK
<1> QED  BY <1>6, <1>7, <1>8, <1>9, <1>10, <1>11, <1>12 DEF Consistent

\* The acceptor enters the connection: the mutex is free, so nobody is erasing
\* and no entry is overwritten.
LEMMA InsertStep ==
  ASSUME TypeOK, Consistent, Insert
  PROVE  Consistent'
<1> USE ServerAssumption
<1> DEFINE c == sock[afd]
<1>1. /\ UNCHANGED <<net, sock, tasks, mutex, main, running, afd, wfd, wpc, wconn, wsock>>
      /\ acc = "insert" /\ acc' = "enqueue" /\ mutex = None
      /\ connections' = [connections EXCEPT ![afd] = c]
      /\ conn' = [conn EXCEPT ![c] = afd]
  BY DEF Insert, envVars, workerVars
<1>2. afd \in Fds /\ c \in Clients /\ c \notin Registered
  BY <1>1 DEF Consistent, AcceptorOK, TypeOK
<1>3. \A w \in Workers : wpc[w] # "erase"
  BY <1>1 DEF Consistent, EntriesOK
<1>4. connections[afd] = None
  BY <1>1, <1>3 DEF Consistent, AcceptorOK, Erasing
<1>5. \A g \in Fds : connections[g] # c /\ (sock[g] = c => g = afd)
  BY <1>2 DEF Registered, Consistent, NamesUnique
<1>6. Linked(afd)' /\ \A g \in Fds : Linked(g) => g # afd /\ Linked(g)'
  BY <1>1, <1>2, <1>4, <1>5 DEF Linked, TypeOK
<1>7. \A g : Erasing(g)' <=> Erasing(g)
  BY <1>1 DEF Erasing
<1>8. /\ \A i \in DOMAIN tasks : tasks[i] \in Fds
      /\ \A w \in Workers : Serving(w) => wfd[w] \in Fds
  BY DEF TypeOK, Serving
<1>9. JobsOK'
  BY <1>1, <1>6, <1>8 DEF Consistent, JobsOK
<1>10. WorkersOK'
  BY <1>1, <1>6, <1>8 DEF Consistent, WorkersOK, Serving, Holding
<1>11. AcceptorOK'
  BY <1>1, <1>6 DEF AcceptorOK
<1>12. SocketsOwned'
  BY <1>1, <1>6 DEF Consistent, SocketsOwned, Serving
<1>13. EntriesOK'
  BY <1>1, <1>2, <1>3, <1>7 DEF Consistent, EntriesOK, TypeOK
<1>14. NamesUnique'
  BY <1>1, <1>2, <1>5 DEF Consistent, NamesUnique, TypeOK
<1>15. MainOK'
  BY <1>1 DEF Consistent, MainOK
<1> QED  BY <1>9, <1>10, <1>11, <1>12, <1>13, <1>14, <1>15 DEF Consistent

\* The acceptor hands the linked descriptor over to a new job.
LEMMA EnqueueStep ==
  ASSUME TypeOK, Consistent, Enqueue
  PROVE  Consistent'
<1> USE ServerAssumption
<1>1. /\ UNCHANGED <<net, sock, connections, conn, mutex, main, running, wfd, wpc, wconn, wsock>>
      /\ acc = "enqueue" /\ acc' = "loop" /\ afd' = None
      /\ tasks' = Append(tasks, afd)
  BY DEF Enqueue, envVars, tableVars, workerVars
<1>2. afd \in Fds /\ Linked(afd)
  BY <1>1 DEF Consistent, AcceptorOK, TypeOK
<1>3. /\ DOMAIN tasks = 1 .. Len(tasks) /\ Len(tasks) \in Nat
      /\ DOMAIN tasks' = 1 .. (Len(tasks) + 1)
      /\ \A i \in DOMAIN tasks : tasks'[i] = tasks[i]
      /\ tasks'[Len(tasks) + 1] = afd
  BY <1>1, <1>2 DEF TypeOK
<1>4. \A i \in DOMAIN tasks' : i \in DOMAIN tasks \/ i = Len(tasks) + 1
  BY <1>3
<1>5. /\ \A f : Linked(f)' <=> Linked(f)
      /\ \A f : Erasing(f)' <=> Erasing(f)
  BY <1>1 DEF Linked, Erasing
<1>6. /\ \A i \in DOMAIN tasks : tasks[i] # afd /\ tasks[i] \in Fds
      /\ \A w \in Workers : Serving(w) => wfd[w] # afd /\ wfd[w] \in Fds
  BY DEF Consistent, JobsOK, WorkersOK, TypeOK, Serving
<1>7. JobsOK'
  <2> SUFFICES ASSUME NEW i \in DOMAIN tasks'
               PROVE  /\ Linked(tasks'[i]) /\ tasks'[i] # None
                      /\ \A j \in DOMAIN tasks' : tasks'[i] = tasks'[j] => i = j
    BY <1>1, <1>5 DEF JobsOK
  <2>1. CASE i \in DOMAIN tasks
    BY <2>1, <1>3, <1>4, <1>6 DEF Consistent, JobsOK
  <2>2. CASE i = Len(tasks) + 1
    BY <2>2, <1>2, <1>3, <1>4, <1>6
  <2> QED  BY <2>1, <2>2, <1>4
<1>8. WorkersOK'
  <2> SUFFICES ASSUME NEW w \in Workers, Serving(w)'
               PROVE  /\ Linked(wfd[w]) /\ wfd[w] # None
                      /\ \A i \in DOMAIN tasks' : tasks'[i] # wfd[w]
                      /\ \A v \in Workers : Serving(v) /\ wfd[v] = wfd[w] => v = w
                      /\ Holding(w) => wconn[w] = sock[wfd[w]]
                      /\ wpc[w] \in {"blocked", "ingest", "parse"} => wsock[w] = sock[wfd[w]]
    BY <1>1, <1>5 DEF WorkersOK, Serving, Holding
  <2>1. Serving(w)
    BY <1>1 DEF Serving
  <2> QED  BY <2>1, <1>3, <1>4, <1>6 DEF Consistent, WorkersOK
<1>9. AcceptorOK' /\ EntriesOK' /\ NamesUnique' /\ MainOK'
  BY <1>1, <1>5 DEF Consistent, AcceptorOK, EntriesOK, NamesUnique, MainOK
<1>10. SocketsOwned'
  <2> SUFFICES ASSUME NEW f \in Fds, sock[f] # None
               PROVE  \/ \E i \in DOMAIN tasks' : tasks'[i] = f
                      \/ \E w \in Workers : Serving(w) /\ wfd[w] = f
                      \/ main = "lock" /\ Linked(f)
    BY <1>1, <1>5 DEF SocketsOwned, Serving
  <2>1. CASE afd = f
    <3>1. Len(tasks) + 1 \in DOMAIN tasks'
      BY <1>3
    <3> QED  BY <2>1, <3>1, <1>3
  <2>2. CASE \E i \in DOMAIN tasks : tasks[i] = f
    <3>1. DOMAIN tasks \subseteq DOMAIN tasks'
      BY <1>3
    <3> QED  BY <2>2, <3>1, <1>3
  <2> QED  BY <2>1, <2>2 DEF Consistent, SocketsOwned
<1> QED  BY <1>7, <1>8, <1>9, <1>10 DEF Consistent

\* A worker takes the oldest job over, descriptor and all.
LEMMA TakeStep ==
  ASSUME TypeOK, Consistent, NEW w \in Workers, TakeTask(w)
  PROVE  Consistent'
<1> USE ServerAssumption
<1> DEFINE f == Head(tasks)
<1>1. /\ UNCHANGED <<net, sock, connections, conn, mutex, main, running, acc, afd, wconn, wsock>>
      /\ tasks # <<>> /\ tasks' = Tail(tasks)
      /\ wpc[w] = "idle" /\ wpc' = [wpc EXCEPT ![w] = "loop"]
      /\ wfd' = [wfd EXCEPT ![w] = f]
  BY DEF TakeTask, Goto, envVars, tableVars, accVars
<1>2. /\ DOMAIN tasks = 1 .. Len(tasks) /\ Len(tasks) \in Nat \ {0}
      /\ DOMAIN tasks' = 1 .. (Len(tasks) - 1)
      /\ \A i \in DOMAIN tasks' : tasks'[i] = tasks[i + 1]
      /\ f = tasks[1] /\ f \in Fds /\ tasks' \in Seq(Fds)
  BY <1>1 DEF TypeOK
<1>3. /\ 1 \in DOMAIN tasks
      /\ \A i \in DOMAIN tasks' : i + 1 \in DOMAIN tasks /\ i + 1 # 1
      /\ \A i \in DOMAIN tasks \ {1} : i - 1 \in DOMAIN tasks' /\ tasks'[i - 1] = tasks[i]
  BY <1>2
<1>4. /\ \A g : Linked(g)' <=> Linked(g)
      /\ Linked(f) /\ f # afd
  BY <1>1, <1>2, <1>3 DEF Linked, Consistent, JobsOK
<1>5. /\ \A v \in Workers \ {w} : wpc'[v] = wpc[v] /\ wfd'[v] = wfd[v]
      /\ wpc'[w] = "loop" /\ wfd'[w] = f
  BY <1>1 DEF TypeOK
<1>6. \A g : Erasing(g)' <=> Erasing(g)
  BY <1>1, <1>5 DEF Erasing
<1>7. \A i \in DOMAIN tasks' : tasks'[i] # f
  BY <1>2, <1>3 DEF Consistent, JobsOK
<1>8. JobsOK'
  <2> SUFFICES ASSUME NEW i \in DOMAIN tasks'
               PROVE  /\ Linked(tasks'[i]) /\ tasks'[i] # afd
                      /\ \A j \in DOMAIN tasks' : tasks'[i] = tasks'[j] => i = j
    BY <1>1, <1>4 DEF JobsOK
  <2>1. Linked(tasks[i + 1]) /\ tasks[i + 1] # afd
    BY <1>3 DEF Consistent, JobsOK
  <2>2. ASSUME NEW j \in DOMAIN tasks', tasks'[i] = tasks'[j] PROVE i = j
    <3>1. i + 1 = j + 1
      BY <2>2, <1>2, <1>3 DEF Consistent, JobsOK
    <3> QED  BY <3>1, <1>2
  <2> QED  BY <2>1, <2>2, <1>2
<1>9. \A v \in Workers : Serving(v) => wfd[v] # f
  BY <1>2, <1>3 DEF Consistent, WorkersOK
<1>10. WorkersOK'
  <2> SUFFICES ASSUME NEW v \in Workers, Serving(v)'
               PROVE  /\ Linked(wfd'[v]) /\ wfd'[v] # afd
                      /\ \A i \in DOMAIN tasks' : tasks'[i] # wfd'[v]
                      /\ \A u \in Workers : Serving(u)' /\ wfd'[u] = wfd'[v] => u = v
                      /\ Holding(v)' => wconn[v] = sock[wfd'[v]]
                      /\ wpc'[v] \in {"blocked", "ingest", "parse"} => wsock[v] = sock[wfd'[v]]
    BY <1>1, <1>4 DEF WorkersOK
  <2>1. CASE v = w
    BY <2>1, <1>4, <1>5, <1>7, <1>9 DEF Serving, Holding
  <2>2. CASE v # w
    <3>1. Serving(v) /\ wfd'[v] = wfd[v] /\ wpc'[v] = wpc[v]
      BY <2>2, <1>5 DEF Serving
    <3>2. \A i \in DOMAIN tasks' : tasks'[i] # wfd[v]
      BY <3>1, <1>2, <1>3 DEF Consistent, WorkersOK
    <3>3. \A u \in Workers : Serving(u)' /\ wfd'[u] = wfd[v] => u = v
      BY <3>1, <1>5, <1>9 DEF Consistent, WorkersOK, Serving
    <3> QED  BY <3>1, <3>2, <3>3 DEF Consistent, WorkersOK, Holding
  <2> QED  BY <2>1, <2>2
<1>11. AcceptorOK'
  <2>1. Registered' = Registered
    BY <1>1 DEF Registered
  <2> QED  BY <1>1, <1>4, <1>6, <2>1 DEF Consistent, AcceptorOK
<1>12. SocketsOwned'
  <2> SUFFICES ASSUME NEW g \in Fds, sock[g] # None
               PROVE  \/ afd = g \/ \E i \in DOMAIN tasks' : tasks'[i] = g
                      \/ \E v \in Workers : Serving(v)' /\ wfd'[v] = g
                      \/ main = "lock" /\ Linked(g)
    BY <1>1, <1>4 DEF SocketsOwned
  <2>1. CASE g = f
    BY <2>1, <1>5 DEF Serving
  <2>2. CASE g # f /\ \E i \in DOMAIN tasks : tasks[i] = g
    BY <2>2, <1>2, <1>3
  <2>3. CASE \E v \in Workers : Serving(v) /\ wfd[v] = g
    BY <2>3, <1>1, <1>5 DEF Serving
  <2> QED  BY <2>1, <2>2, <2>3 DEF Consistent, SocketsOwned
<1>13. EntriesOK'
  BY <1>1, <1>5, <1>6 DEF Consistent, EntriesOK, TypeOK
<1>14. NamesUnique' /\ MainOK'
  BY <1>1 DEF Consistent, NamesUnique, MainOK
<1> QED  BY <1>8, <1>10, <1>11, <1>12, <1>13, <1>14 DEF Consistent

\* A worker closes its own socket and nobody else's; what it leaves is an entry
\* that it is erasing, with the mutex in its hands.
LEMMA CleanupStep ==
  ASSUME TypeOK, Consistent, NEW w \in Workers, Cleanup(w)
  PROVE  Consistent'
<1> USE ServerAssumption
<1> DEFINE f == wfd[w]
           c == wconn[w]
<1>1. /\ f \in Fds /\ c \in Clients /\ c # None /\ f # None
      /\ sock[f] = c /\ connections[f] = c /\ conn[c] = f
      /\ Pointee(w) = {c}
  <2>1. Holding(w)
    BY DEF Cleanup, Holding
  <2> QED  BY <2>1, PointeeIsOwn
<1>2. /\ UNCHANGED <<net, connections, tasks, main, running, acc, afd, wfd, wconn, wsock>>
      /\ sock' = [sock EXCEPT ![f] = None]
      /\ conn' = [conn EXCEPT ![c] = None]
      /\ mutex = None /\ mutex' = w
      /\ wpc[w] = "cleanup" /\ wpc' = [wpc EXCEPT ![w] = "erase"]
  BY <1>1 DEF Cleanup, CloseObject, Goto, accVars
<1>3. /\ \A v \in Workers \ {w} : wpc'[v] = wpc[v]
      /\ wpc'[w] = "erase"
      /\ \A v \in Workers : wpc[v] # "erase"
  BY <1>2 DEF Consistent, EntriesOK, TypeOK
<1>4. \A g \in Fds \ {f} : sock'[g] = sock[g] /\ (sock[g] # None => sock[g] # c)
  BY <1>1, <1>2 DEF Consistent, NamesUnique, TypeOK
<1>5. sock'[f] = None /\ conn'[c] = None /\ \A d \in Clients \ {c} : conn'[d] = conn[d]
  BY <1>1, <1>2 DEF TypeOK
<1>6. \A g \in Fds \ {f} : Linked(g) => Linked(g)'
  BY <1>2, <1>4, <1>5 DEF Linked, TypeOK
<1>7. Serving(w) /\ \A v \in Workers : Serving(v)' <=> Serving(v) /\ v # w
  BY <1>2, <1>3 DEF Serving
<1>8. /\ f # afd
      /\ \A i \in DOMAIN tasks : tasks[i] \in Fds \ {f}
      /\ \A v \in Workers : Serving(v)' => wfd[v] \in Fds \ {f}
  BY <1>7 DEF Consistent, WorkersOK, TypeOK, Serving
<1>9. JobsOK'
  BY <1>2, <1>6, <1>8 DEF Consistent, JobsOK
<1>10. WorkersOK'
  <2> SUFFICES ASSUME NEW v \in Workers, Serving(v)'
               PROVE  /\ Linked(wfd[v])' /\ wfd[v] # afd
                      /\ \A i \in DOMAIN tasks : tasks[i] # wfd[v]
                      /\ \A u \in Workers : Serving(u)' /\ wfd[u] = wfd[v] => u = v
                      /\ Holding(v)' => wconn[v] = sock'[wfd[v]]
                      /\ wpc'[v] \in {"blocked", "ingest", "parse"} => wsock[v] = sock'[wfd[v]]
    BY <1>2 DEF WorkersOK, Linked
  <2>1. Serving(v) /\ v # w /\ wpc'[v] = wpc[v] /\ wfd[v] \in Fds \ {f}
    BY <1>3, <1>7, <1>8
  <2>2. Linked(wfd[v])' /\ sock'[wfd[v]] = sock[wfd[v]]
    <3>1. Linked(wfd[v])
      BY <2>1 DEF Consistent, WorkersOK
    <3>2. \A g \in Fds \ {f} : Linked(g) => /\ sock'[g] # None
                                            /\ connections'[g] = sock'[g]
                                            /\ conn'[sock'[g]] = g
      BY <1>6 DEF Linked
    <3> QED  BY <2>1, <3>1, <3>2, <1>2, <1>4 DEF Linked
  <2>3. \A u \in Workers : Serving(u)' /\ wfd[u] = wfd[v] => u = v
    BY <1>7, <2>1 DEF Consistent, WorkersOK
  <2> QED  BY <2>1, <2>2, <2>3 DEF Consistent, WorkersOK, Holding
<1>11. \A g : Erasing(g) => Erasing(g)'
  BY <1>3 DEF Erasing
<1>12. AcceptorOK'
  <2>1. Registered' = Registered
    BY <1>2 DEF Registered
  <2>2. acc \in {"insert", "enqueue"} => afd \in Fds \ {f}
    BY <1>8 DEF TypeOK
  <2>3. acc = "enqueue" => Linked(afd)'
    <3>1. \A g \in Fds \ {f} : Linked(g) => /\ sock'[g] # None
                                            /\ connections'[g] = sock'[g]
                                            /\ conn'[sock'[g]] = g
      BY <1>6 DEF Linked
    <3> QED  BY <2>2, <3>1, <1>2 DEF Consistent, AcceptorOK, Linked
  <2>4. acc = "insert" => sock'[afd] = sock[afd]
    BY <2>2, <1>4
  <2>5. acc = "insert" => Erasing(afd) \/ connections[afd] = None
    BY DEF Consistent, AcceptorOK
  <2>6. acc = "insert" => Erasing(afd)' \/ connections[afd] = None
    BY <2>5, <1>2, <1>3 DEF Erasing
  <2> QED  BY <1>2, <2>1, <2>3, <2>4, <2>6 DEF Consistent, AcceptorOK
<1>13. SocketsOwned'
  <2> SUFFICES ASSUME NEW g \in Fds, sock'[g] # None
               PROVE  \/ afd = g \/ \E i \in DOMAIN tasks : tasks[i] = g
                      \/ \E v \in Workers : Serving(v)' /\ wfd[v] = g
                      \/ main = "lock" /\ Linked(g)'
    BY <1>2 DEF SocketsOwned
  <2>1. g # f /\ sock[g] # None
    BY <1>4, <1>5
  <2> QED  BY <2>1, <1>6, <1>7 DEF Consistent, SocketsOwned
<1>14. EntriesOK'
  <2>1. \A g \in Fds : connections[g] # None => connections[g] = sock'[g] \/ Erasing(g)'
    <3> SUFFICES ASSUME NEW g \in Fds, connections[g] # None
                 PROVE  connections[g] = sock'[g] \/ Erasing(g)'
      OBVIOUS
    <3>1. CASE g = f
      BY <3>1, <1>2, <1>3 DEF Erasing
    <3>2. CASE g # f
      BY <3>2, <1>3, <1>4 DEF Consistent, EntriesOK, Erasing
    <3> QED  BY <3>1, <3>2
  <2>2. \A v \in Workers : wpc'[v] = "erase" => v = w
    BY <1>3
  <2> QED  BY <2>1, <2>2, <1>1, <1>2, <1>3, <1>5 DEF EntriesOK
<1>15. NamesUnique'
  BY <1>2, <1>4, <1>5 DEF Consistent, NamesUnique
<1>16. MainOK'
  BY <1>2, <1>4, <1>5 DEF Consistent, MainOK
<1> QED  BY <1>9, <1>10, <1>12, <1>13, <1>14, <1>15, <1>16 DEF Consistent

\* The entry that a worker erases is about no open socket, even if the
\* acceptor was given its number again.
LEMMA EraseStep ==
  ASSUME TypeOK, Consistent, NEW w \in Workers, Erase(w)
  PROVE  Consistent'
<1> USE ServerAssumption
<1> DEFINE f == wfd[w]
<1>1. /\ UNCHANGED <<net, sock, conn, tasks, main, running, acc, afd>>
      /\ connections' = [connections EXCEPT ![f] = None]
      /\ mutex' = None
      /\ wpc[w] = "erase" /\ wpc' = [wpc EXCEPT ![w] = "idle"]
      /\ wfd' = [wfd EXCEPT ![w] = None]
      /\ wconn' = [wconn EXCEPT ![w] = None]
      /\ wsock' = [wsock EXCEPT ![w] = None]
  BY DEF Erase, Done, envVars, accVars
<1>2. /\ f \in Fds /\ mutex = w
      /\ connections[f] # None /\ conn[connections[f]] = None
  BY <1>1 DEF Consistent, EntriesOK, TypeOK
<1>3. /\ \A v \in Workers \ {w} : /\ wpc'[v] = wpc[v] /\ wfd'[v] = wfd[v]
                                  /\ wconn'[v] = wconn[v] /\ wsock'[v] = wsock[v]
      /\ wpc'[w] = "idle"
      /\ \A v \in Workers : wpc'[v] # "erase"
      /\ \A v \in Workers : wpc[v] = "erase" => v = w
  <2>1. \A v \in Workers : wpc[v] = "erase" => v = w
    BY <1>2 DEF Consistent, EntriesOK
  <2> QED  BY <1>1, <2>1 DEF TypeOK
<1>4. connections'[f] = None /\ \A g \in Fds \ {f} : connections'[g] = connections[g]
  BY <1>1, <1>2 DEF TypeOK
<1>5. \A g \in Fds : Linked(g) => g # f
  BY <1>2 DEF Linked
<1>6. \A g \in Fds : Linked(g) => /\ sock'[g] # None
                                  /\ connections'[g] = sock'[g]
                                  /\ conn'[sock'[g]] = g
  BY <1>1, <1>4, <1>5 DEF Linked
<1>7. \A v \in Workers : Serving(v)' <=> Serving(v)
  BY <1>1, <1>3 DEF Serving
<1>8. /\ \A i \in DOMAIN tasks : tasks[i] \in Fds
      /\ \A v \in Workers : Serving(v) => wfd[v] \in Fds /\ v # w
  BY <1>1 DEF TypeOK, Serving
<1>9. JobsOK'
  BY <1>1, <1>6, <1>8 DEF Consistent, JobsOK, Linked
<1>10. WorkersOK'
  <2> SUFFICES ASSUME NEW v \in Workers, Serving(v)'
               PROVE  /\ Linked(wfd[v])' /\ wfd'[v] # afd
                      /\ \A i \in DOMAIN tasks : tasks[i] # wfd'[v]
                      /\ \A u \in Workers : Serving(u)' /\ wfd'[u] = wfd'[v] => u = v
                      /\ Holding(v)' => wconn'[v] = sock[wfd'[v]]
                      /\ wpc'[v] \in {"blocked", "ingest", "parse"} => wsock'[v] = sock[wfd'[v]]
    BY <1>1 DEF WorkersOK, Linked
  <2>1. Serving(v) /\ v # w /\ wfd'[v] = wfd[v] /\ wpc'[v] = wpc[v] /\ wfd[v] \in Fds
        /\ wconn'[v] = wconn[v] /\ wsock'[v] = wsock[v]
    BY <1>3, <1>7, <1>8
  <2>2. Linked(wfd[v])'
    <3>1. Linked(wfd[v])
      BY <2>1 DEF Consistent, WorkersOK
    <3> QED  BY <2>1, <3>1, <1>6 DEF Linked
  <2>3. \A u \in Workers : Serving(u)' /\ wfd'[u] = wfd'[v] => u = v
    BY <1>3, <1>7, <1>8, <2>1 DEF Consistent, WorkersOK
  <2> QED  BY <2>1, <2>2, <2>3 DEF Consistent, WorkersOK, Holding
<1>11. AcceptorOK'
  <2>1. Registered' \subseteq Registered
    BY <1>4 DEF Registered
  <2>2. acc = "enqueue" => Linked(afd)'
    BY <1>1, <1>6 DEF Consistent, AcceptorOK, Linked, TypeOK
  <2>3. acc = "insert" => connections'[afd] = None
    <3>1. acc = "insert" => afd \in Fds /\ (connections[afd] = None \/ Erasing(afd))
      BY DEF Consistent, AcceptorOK, TypeOK
    <3>2. Erasing(afd) => afd = f
      BY <1>3 DEF Erasing
    <3> QED  BY <3>1, <3>2, <1>4
  <2> QED  BY <1>1, <2>1, <2>2, <2>3 DEF Consistent, AcceptorOK
<1>12. SocketsOwned'
  <2>1. \A g \in Fds : Linked(g) => Linked(g)'
    BY <1>6 DEF Linked
  <2> QED  BY <1>1, <1>3, <1>7, <1>8, <2>1 DEF Consistent, SocketsOwned
<1>13. EntriesOK'
  <2>1. \A g \in Fds : connections'[g] # None => connections'[g] = sock[g]
    BY <1>3, <1>4 DEF Consistent, EntriesOK, Erasing
  <2> QED  BY <2>1, <1>1, <1>3 DEF EntriesOK
<1>14. NamesUnique'
  BY <1>1, <1>4 DEF Consistent, NamesUnique
<1>15. MainOK'
  BY <1>1 DEF Consistent, MainOK
<1> QED  BY <1>9, <1>10, <1>11, <1>12, <1>13, <1>14, <1>15 DEF Consistent

-----------------------------------------------------------------------------
(* The invariant holds of the whole specification.                         *)

\* The server starts consistent.
LEMMA TableInv_Init == Init => TableInv
<1> SUFFICES ASSUME Init PROVE TypeOK /\ Consistent
  BY DEF TableInv
<1> USE ServerAssumption
<1>1. /\ \A f \in Fds : sock[f] = None /\ connections[f] = None
      /\ \A w \in Workers : wpc[w] = "idle"
      /\ acc = "none" /\ mutex = None /\ main = "start"
      /\ DOMAIN tasks = {}
  BY DEF Init
<1>2. JobsOK /\ SocketsOwned /\ NamesUnique
  BY <1>1 DEF JobsOK, SocketsOwned, NamesUnique
<1>3. WorkersOK /\ EntriesOK
  BY <1>1 DEF WorkersOK, EntriesOK, Serving
<1>4. AcceptorOK /\ MainOK
  BY <1>1 DEF AcceptorOK, MainOK
<1> QED  BY <1>2, <1>3, <1>4, TypeCorrect_Init DEF Consistent

\* Once stop has begun it stays begun.
LEMMA StoppingStays ==
  ASSUME Stopping, [Next]_vars PROVE Stopping'
<1> USE DEF Stopping, vars, envVars, tableVars, accVars, workerVars
<1>1. CASE Listen \/ Acceptor \/ UNCHANGED vars
  BY <1>1 DEF Listen, Acceptor, AcceptLoop, AcceptEnd, AcceptFails, Accept, Insert, Enqueue
<1>2. CASE Environment
  BY <1>2 DEF Environment, Switch, Connect, Send, HangUp, Borrow, GiveBack
<1>3. ASSUME NEW w \in Workers, Worker(w) PROVE Stopping'
  BY <1>3 DEF Worker, TakeTask, LoopTest, Lookup, RecvCall, RecvData, RecvEnd, Ingest, NeedMore,
              Parse, Cleanup, Erase
<1>4. CASE Stop
  BY <1>4 DEF Stop, StopFlag, StopLock, StopClose, StopClear
<1> QED  BY <1>1, <1>2, <1>3, <1>4 DEF Next

\* And once it has the mutex it is closing, or done.
LEMMA ClosingStays ==
  ASSUME Closing, [Next]_vars PROVE Closing'
<1> USE DEF Closing, vars, envVars, tableVars, accVars, workerVars
<1>1. CASE Listen \/ Acceptor \/ UNCHANGED vars
  BY <1>1 DEF Listen, Acceptor, AcceptLoop, AcceptEnd, AcceptFails, Accept, Insert, Enqueue
<1>2. CASE Environment
  BY <1>2 DEF Environment, Switch, Connect, Send, HangUp, Borrow, GiveBack
<1>3. ASSUME NEW w \in Workers, Worker(w) PROVE Closing'
  BY <1>3 DEF Worker, TakeTask, LoopTest, Lookup, RecvCall, RecvData, RecvEnd, Ingest, NeedMore,
              Parse, Cleanup, Erase
<1>4. CASE Stop
  BY <1>4 DEF Stop, StopFlag, StopLock, StopClose, StopClear
<1> QED  BY <1>1, <1>2, <1>3, <1>4 DEF Next

\* The flag alone changes nothing that the threads agree on.
LEMMA FlagStep ==
  ASSUME TypeOK, Consistent, StopFlag PROVE Consistent'
<1> USE DEF Consistent, StopFlag, envVars, accVars, workerVars
<1>1. /\ \A f : Linked(f)' <=> Linked(f)
      /\ \A f : Erasing(f)' <=> Erasing(f)
      /\ Registered' = Registered
  BY DEF Linked, Erasing, Registered
<1>2. main' = "lock" /\ main # "lock"
  OBVIOUS
<1>3. JobsOK' /\ EntriesOK' /\ NamesUnique' /\ AcceptorOK'
  BY <1>1 DEF JobsOK, EntriesOK, NamesUnique, AcceptorOK
<1>4. WorkersOK'
  BY <1>1 DEF WorkersOK, Serving, Holding
<1>5. SocketsOwned'
  BY <1>2 DEF SocketsOwned, Serving
<1>6. MainOK'
  BY <1>2 DEF MainOK
<1> QED  BY <1>3, <1>4, <1>5, <1>6

\* Every step of the server, of the switches and of stop keeps the invariant.
LEMMA TableInv_Step == TableInv /\ [Next]_vars => TableInv'
<1> SUFFICES ASSUME TableInv, [Next]_vars PROVE TableInv'
  OBVIOUS
<1>1. TypeOK /\ TypeOK'
  BY TypeCorrect_Others, TypeCorrect_Worker, TypeCorrect_Stutter DEF Next, TableInv
<1>2. CASE Closing
  BY <1>1, <1>2, ClosingStays DEF TableInv
<1>3. CASE ~Closing
  <2>1. Consistent
    BY <1>3 DEF TableInv
  <2>2. CASE Listen
    BY <1>1, <2>1, <2>2, ListenStep DEF TableInv
  <2>3. CASE Environment \/ UNCHANGED vars
    BY <1>1, <2>1, <2>3, QuietSteps DEF TableInv
  <2>4. CASE Acceptor
    <3>1. CASE AcceptLoop \/ AcceptFails \/ AcceptEnd
      BY <1>1, <2>1, <3>1, QuietSteps DEF TableInv
    <3>2. ASSUME NEW c \in Clients, NEW f \in Fds, Accept(c, f) PROVE TableInv'
      BY <1>1, <2>1, <3>2, AcceptStep DEF TableInv
    <3>3. CASE Insert
      BY <1>1, <2>1, <3>3, InsertStep DEF TableInv
    <3>4. CASE Enqueue
      BY <1>1, <2>1, <3>4, EnqueueStep DEF TableInv
    <3> QED  BY <2>4, <3>1, <3>2, <3>3, <3>4 DEF Acceptor
  <2>5. ASSUME NEW w \in Workers, Worker(w) PROVE TableInv'
    <3>1. CASE TakeTask(w)
      BY <1>1, <2>1, <3>1, TakeStep DEF TableInv
    <3>2. CASE \/ LoopTest(w) \/ Lookup(w) \/ RecvCall(w) \/ RecvData(w)
               \/ RecvEnd(w) \/ Ingest(w) \/ NeedMore(w) \/ Parse(w)
      BY <1>1, <1>3, <2>1, <3>2, ReadSteps DEF TableInv
    <3>3. CASE Cleanup(w)
      BY <1>1, <2>1, <3>3, CleanupStep DEF TableInv
    <3>4. CASE Erase(w)
      BY <1>1, <2>1, <3>4, EraseStep DEF TableInv
    <3> QED  BY <2>5, <3>1, <3>2, <3>3, <3>4 DEF Worker
  <2>6. CASE StopFlag
    BY <1>1, <2>1, <2>6, FlagStep DEF TableInv
  <2>7. CASE StopLock
    <3>1. Closing'
      BY <2>7 DEF StopLock, Closing
    <3> QED  BY <1>1, <3>1 DEF TableInv
  <2>8. ~StopClear /\ ~\E c \in Clients : StopClose(c)
    BY <1>3 DEF StopClose, StopClear, Closing
  <2> QED  BY <2>2, <2>3, <2>4, <2>5, <2>6, <2>7, <2>8 DEF Next, Stop
<1> QED  BY <1>2, <1>3

\* The table, the kernel and the threads' locals stay consistent until stop has
\* the mutex.
THEOREM TableInvariance == Spec => []TableInv
  BY TableInv_Init, TableInv_Step, PTL DEF Spec

-----------------------------------------------------------------------------
(* What follows from it.                                                   *)

\* Until stop is called each open socket has exactly one owner among the
\* acceptor, the queued jobs and the workers, and no closed one has any.
THEOREM OwnedOnce == Spec => []OneOwner
<1>1. TableInv => OneOwner
  <2> SUFFICES ASSUME TypeOK, Consistent, main # "lock", NEW f \in Fds
               PROVE  IF sock[f] = None THEN Owners(f) = {}
                                        ELSE \E o \in Owners(f) : Owners(f) = {o}
    BY DEF TableInv, OneOwner, Closing, Stopping
  <2> USE ServerAssumption
  <2>1. /\ afd = f => acc \in {"insert", "enqueue"} /\ sock[f] # None
        /\ \A i \in DOMAIN tasks : tasks[i] = f => sock[f] # None /\ afd # f
        /\ \A w \in Workers : wfd[w] = f /\ wpc[w] # "erase" =>
             /\ Serving(w)
             /\ sock[f] # None /\ afd # f
             /\ \A i \in DOMAIN tasks : tasks[i] # f
    <3>1. afd = f => acc \in {"insert", "enqueue"} /\ sock[f] # None
      BY DEF TypeOK, Consistent, AcceptorOK, Linked
    <3>2. \A w \in Workers : wfd[w] = f /\ wpc[w] # "erase" => Serving(w)
      BY DEF TypeOK, Serving
    <3> QED  BY <3>1, <3>2 DEF Consistent, JobsOK, WorkersOK, Linked
  <2>2. /\ \A i, j \in DOMAIN tasks : tasks[i] = f /\ tasks[j] = f => i = j
        /\ \A v, w \in Workers : Serving(v) /\ wfd[v] = f /\ Serving(w) /\ wfd[w] = f => v = w
    BY DEF Consistent, JobsOK, WorkersOK
  <2>3. CASE sock[f] = None
    BY <2>1, <2>3 DEF Owners
  <2>4. CASE sock[f] # None
    <3>1. CASE afd = f
      <4>1. Owners(f) = {<<"acceptor", f>>}
        BY <2>1, <3>1 DEF Owners
      <4> QED  BY <4>1, <2>4
    <3>2. ASSUME NEW i \in DOMAIN tasks, tasks[i] = f
          PROVE  \E o \in Owners(f) : Owners(f) = {o}
      <4>1. Owners(f) = {<<"job", i>>}
        BY <2>1, <2>2, <3>2 DEF Owners
      <4> QED  BY <4>1
    <3>3. ASSUME NEW w \in Workers, Serving(w), wfd[w] = f
          PROVE  \E o \in Owners(f) : Owners(f) = {o}
      <4>1. wpc[w] # "erase"
        BY <3>3 DEF Serving
      <4>2. Owners(f) = {<<"worker", w>>}
        BY <2>1, <2>2, <3>3, <4>1 DEF Owners
      <4> QED  BY <4>2
    <3> QED  BY <2>4, <3>1, <3>2, <3>3 DEF Consistent, SocketsOwned
  <2> QED  BY <2>3, <2>4
<1> QED  BY <1>1, TableInvariance, PTL

\* Until stop is called the table and the descriptor table of the kernel agree,
\* up to the entry being made and those being erased.
THEOREM TableAgrees == Spec => []TableMatchesKernel
<1>1. TableInv => TableMatchesKernel
  <2> SUFFICES ASSUME TypeOK, Consistent, NEW f \in Fds
               PROVE  /\ connections[f] # None =>
                          \/ connections[f] = sock[f] /\ conn[sock[f]] = f
                          \/ \E w \in Workers : wpc[w] = "erase" /\ wfd[w] = f /\ mutex = w
                      /\ sock[f] # None => connections[f] = sock[f] \/ (acc = "insert" /\ afd = f)
    BY DEF TableInv, TableMatchesKernel, Closing, Stopping
  <2> USE ServerAssumption
  <2>1. sock[f] # None => Linked(f) \/ (acc = "insert" /\ afd = f)
    <3>1. afd = f => acc = "insert" \/ Linked(f)
      BY DEF Consistent, AcceptorOK, TypeOK
    <3>2. \A i \in DOMAIN tasks : Linked(tasks[i])
      BY DEF Consistent, JobsOK
    <3>3. \A w \in Workers : Serving(w) => Linked(wfd[w])
      BY DEF Consistent, WorkersOK
    <3> QED  BY <3>1, <3>2, <3>3 DEF Consistent, SocketsOwned
  <2>2. connections[f] # None => connections[f] = sock[f] \/ Erasing(f)
    BY DEF Consistent, EntriesOK
  <2>3. Erasing(f) => \E w \in Workers : wpc[w] = "erase" /\ wfd[w] = f /\ mutex = w
    BY DEF Erasing, Consistent, EntriesOK
  <2>4. acc = "insert" /\ afd = f => sock[f] \notin Registered
    BY DEF Consistent, AcceptorOK
  <2>5. connections[f] # None => connections[f] \in Registered
    BY DEF Registered, TypeOK
  <2> QED  BY <2>1, <2>2, <2>3, <2>4, <2>5 DEF Linked
<1> QED  BY <1>1, TableInvariance, PTL

\* Until stop is called a frame is handled with the descriptor of the socket
\* that it was read from.
THEOREM RightContext == Spec => []HandlerContext
<1>1. TableInv => HandlerContext
  <2> SUFFICES ASSUME TypeOK, Consistent, NEW w \in Workers, wpc[w] = "parse", NEW o \in Pointee(w)
               PROVE  conn[o] # None /\ sock[conn[o]] = wsock[w]
    BY DEF TableInv, HandlerContext, Closing, Stopping
  <2> USE ServerAssumption
  <2>1. Holding(w) /\ Serving(w)
    BY DEF Holding, Serving
  <2>2. o = wconn[w] /\ conn[o] = wfd[w] /\ wfd[w] \in Fds
    BY <2>1, PointeeIsOwn
  <2>3. wsock[w] = sock[wfd[w]]
    BY <2>1 DEF Consistent, WorkersOK
  <2> QED  BY <2>2, <2>3
<1> QED  BY <1>1, TableInvariance, PTL

\* Until stop is called no worker uses a pointer to an erased entry.  (After
\* stop it may: the run server_stop_dangles.)
THEOREM PointersLive == Spec => [](~Stopping => NoDangling)
<1>1. TableInv => (~Stopping => NoDangling)
  <2> SUFFICES ASSUME TypeOK, Consistent, NEW w \in Workers, Holding(w)
               PROVE  wconn[w] \in Registered
    BY DEF TableInv, NoDangling, Closing, Stopping
  <2> QED  BY PointeeIsOwn DEF Registered
<1> QED  BY <1>1, TableInvariance, PTL

\* Until stop is called the acceptor overwrites no entry, although accept may
\* return a number whose last entry is still being erased.
THEOREM KeysFresh == Spec => [](~Stopping => FreshKey)
<1>1. TableInv => (~Stopping => FreshKey)
  <2> SUFFICES ASSUME Consistent, acc = "insert", mutex = None
               PROVE  connections[afd] = None
    BY DEF TableInv, FreshKey, Closing, Stopping
  <2>1. \A w \in Workers : wpc[w] # "erase"
    BY ServerAssumption DEF Consistent, EntriesOK
  <2> QED  BY <2>1 DEF Consistent, AcceptorOK, Erasing
<1> QED  BY <1>1, TableInvariance, PTL

-----------------------------------------------------------------------------
(* Why a socket is closed.                                                 *)

\* A worker on its way to close its socket found that the switch hung up, or
\* still has the item that ingest refused.
Caused(w) ==
  /\ wsock[w] = wconn[w]
  /\ \/ wconn[w] \in hungup
     \/ batch[w] # <<>> /\ Head(batch[w]) = "bad"

CauseInv == ~Stopping => \A w \in Workers : wpc[w] = "cleanup" => Caused(w)

\* What a worker does to the locals of the others, and to hungup: nothing.
LEMMA WorkerLocal ==
  ASSUME TypeOK, NEW w \in Workers, Worker(w)
  PROVE  /\ hungup' = hungup
         /\ \A v \in Workers \ {w} : /\ wpc'[v] = wpc[v] /\ wconn'[v] = wconn[v]
                                     /\ wsock'[v] = wsock[v] /\ batch'[v] = batch[v]
<1> USE DEF TypeOK, envVars, Goto
<1>1. CASE TakeTask(w)
  BY <1>1 DEF TakeTask
<1>2. CASE LoopTest(w)
  BY <1>2 DEF LoopTest, Done
<1>3. CASE Lookup(w)
  BY <1>3 DEF Lookup, Done
<1>4. CASE RecvCall(w)
  BY <1>4 DEF RecvCall
<1>5. CASE RecvData(w)
  BY <1>5 DEF RecvData
<1>6. CASE RecvEnd(w) \/ Ingest(w) \/ NeedMore(w)
  BY <1>6 DEF RecvEnd, Ingest, NeedMore
<1>7. CASE Parse(w)
  BY <1>7 DEF Parse
<1>8. CASE Cleanup(w)
  BY <1>8 DEF Cleanup
<1>9. CASE Erase(w)
  BY <1>9 DEF Erase, Done
<1> QED  BY <1>1, <1>2, <1>3, <1>4, <1>5, <1>6, <1>7, <1>8, <1>9 DEF Worker

\* What the others do to the locals of the workers: nothing.
LEMMA OthersQuiet ==
  ASSUME Listen \/ Acceptor \/ Stop \/ Environment \/ UNCHANGED vars
  PROVE  UNCHANGED <<wpc, wconn, wsock, batch>> /\ hungup \subseteq hungup'
<1> USE DEF envVars, tableVars, accVars, workerVars
<1>1. CASE Listen \/ UNCHANGED vars
  BY <1>1 DEF Listen, vars
<1>2. CASE Acceptor
  BY <1>2 DEF Acceptor, AcceptLoop, AcceptEnd, AcceptFails, Accept, Insert, Enqueue
<1>3. CASE Stop
  BY <1>3 DEF Stop, StopFlag, StopLock, StopClose, StopClear
<1>4. CASE Environment
  BY <1>4 DEF Environment, Switch, Connect, Send, HangUp, Borrow, GiveBack
<1> QED  BY <1>1, <1>2, <1>3, <1>4

\* A worker comes to close its socket only from a recv that found the end of
\* it or from an item that ingest refuses: its descriptor was never closed
\* behind its back.
LEMMA CauseInv_Step == TableInv /\ CauseInv /\ [Next]_vars => CauseInv'
<1> SUFFICES ASSUME TableInv, CauseInv, [Next]_vars, ~Stopping',
                    NEW w \in Workers, wpc'[w] = "cleanup"
             PROVE  Caused(w)'
  BY DEF CauseInv
<1> USE ServerAssumption
<1>1. TypeOK /\ ~Stopping /\ Consistent
  BY StoppingStays DEF TableInv, Closing, Stopping
<1>2. wpc[w] = "cleanup" => Caused(w)
  BY <1>1 DEF CauseInv
<1>3. ASSUME wpc'[w] = wpc[w], wconn'[w] = wconn[w], wsock'[w] = wsock[w], batch'[w] = batch[w],
             hungup \subseteq hungup'
      PROVE  Caused(w)'
  BY <1>2, <1>3 DEF Caused
<1>4. CASE Listen \/ Acceptor \/ Stop \/ Environment \/ UNCHANGED vars
  BY <1>3, <1>4, OthersQuiet
<1>5. ASSUME NEW v \in Workers \ {w}, Worker(v) PROVE Caused(w)'
  BY <1>1, <1>3, <1>5, WorkerLocal
<1>6. CASE Worker(w)
  <2>1. wpc[w] # "cleanup" => RecvCall(w) \/ RecvEnd(w) \/ Ingest(w) \/ Parse(w)
    <3>1. CASE TakeTask(w) \/ RecvData(w) \/ NeedMore(w)
      BY <1>1, <3>1 DEF TakeTask, RecvData, NeedMore, Goto, TypeOK
    <3>2. CASE LoopTest(w) \/ Lookup(w) \/ Erase(w)
      BY <1>1, <3>2 DEF LoopTest, Lookup, Erase, Done, Goto, TypeOK
    <3>3. CASE Cleanup(w)
      BY <3>3 DEF Cleanup
    <3> QED  BY <1>6, <3>1, <3>2, <3>3 DEF Worker
  <2>2. wpc[w] # "cleanup"
    <3>1. ASSUME wpc[w] = "cleanup" PROVE FALSE
      <4>1. Cleanup(w)
        BY <1>6, <3>1 DEF Worker, TakeTask, LoopTest, Lookup, RecvCall, RecvData, RecvEnd,
                          Ingest, NeedMore, Parse, Erase
      <4> QED  BY <1>1, <4>1 DEF Cleanup, Goto, TypeOK
    <3> QED  BY <3>1
  <2>3. ASSUME Holding(w)
        PROVE  /\ Pointee(w) = {wconn[w]} /\ conn[wconn[w]] # None /\ sock[conn[wconn[w]]] # None
               /\ wpc[w] \in {"blocked", "ingest", "parse"} => wsock[w] = wconn[w]
    <3>1. /\ Pointee(w) = {wconn[w]} /\ conn[wconn[w]] = wfd[w] /\ wfd[w] \in Fds
          /\ sock[wfd[w]] = wconn[w] /\ wconn[w] \in Clients
      BY <1>1, <2>3, PointeeIsOwn
    <3>2. Serving(w)
      BY <2>3 DEF Holding, Serving
    <3> QED  BY <1>1, <3>1, <3>2 DEF Consistent, WorkersOK
  <2>4. ~RecvCall(w)
    <3> SUFFICES ASSUME RecvCall(w) PROVE FALSE
      OBVIOUS
    <3>1. Holding(w)
      BY DEF RecvCall, Holding
    <3>2. wpc' = [wpc EXCEPT ![w] = "blocked"]
      BY <2>3, <3>1 DEF RecvCall, Goto
    <3> QED  BY <1>1, <3>2 DEF TypeOK
  <2>5. ~Ingest(w)
    <3> SUFFICES ASSUME Ingest(w) PROVE FALSE
      OBVIOUS
    <3>1. Holding(w)
      BY DEF Ingest, Holding
    <3>2. wpc' = [wpc EXCEPT ![w] = "parse"]
      BY <2>3, <3>1 DEF Ingest, Goto
    <3> QED  BY <1>1, <3>2 DEF TypeOK
  <2>6. CASE RecvEnd(w)
    <3>1. Holding(w) /\ wpc[w] = "blocked"
      BY <2>6 DEF RecvEnd, Holding
    <3>2. wsock[w] = wconn[w] /\ wsock[w] \in hungup
      BY <2>3, <2>6, <3>1 DEF RecvEnd
    <3> QED  BY <2>6, <3>2 DEF RecvEnd, Caused, envVars
  <2>7. CASE Parse(w)
    <3>1. Holding(w) /\ wpc[w] = "parse"
      BY <2>7 DEF Parse, Holding
    <3>2. wsock[w] = wconn[w]
      BY <2>3, <3>1
    <3>3. wpc' # wpc
      BY <3>1
    <3>4. batch[w] # <<>> /\ Head(batch[w]) = "bad" /\ UNCHANGED <<batch, wconn, wsock>>
      BY <2>7, <3>3 DEF Parse
    <3> QED  BY <3>2, <3>4 DEF Caused
  <2> QED  BY <2>1, <2>2, <2>4, <2>5, <2>6, <2>7
<1> QED  BY <1>4, <1>5, <1>6 DEF Next

\* Only Cleanup closes a socket before stop, and the one it closes is its own.
LEMMA CloseStep ==
  TableInv /\ CauseInv /\ [Next]_vars =>
    \A f \in Fds :
      LET c == sock[f] IN
      (~Stopping /\ c # None /\ sock'[f] # c) =>
        \/ c \in hungup
        \/ \E w \in Workers : /\ wsock[w] = c /\ wpc[w] = "cleanup"
                              /\ batch[w] # <<>> /\ Head(batch[w]) = "bad"
<1> SUFFICES ASSUME TableInv, CauseInv, [Next]_vars,
                    NEW f \in Fds, ~Stopping, sock[f] # None, sock'[f] # sock[f]
             PROVE  \/ sock[f] \in hungup
                    \/ \E w \in Workers : /\ wsock[w] = sock[f] /\ wpc[w] = "cleanup"
                                          /\ batch[w] # <<>> /\ Head(batch[w]) = "bad"
  OBVIOUS
<1>1. TypeOK /\ Consistent
  BY DEF TableInv, Closing, Stopping
<1>2. \E w \in Workers : Cleanup(w)
  <2> USE DEF envVars
  <2>1. CASE Listen \/ UNCHANGED vars \/ Environment
    BY <2>1 DEF Listen, vars, Environment, Switch, Connect, Send, HangUp, Borrow, GiveBack
  <2>2. CASE Acceptor
    <3>1. CASE AcceptLoop \/ AcceptEnd \/ AcceptFails \/ Insert \/ Enqueue
      BY <3>1 DEF AcceptLoop, AcceptEnd, AcceptFails, Insert, Enqueue
    <3>2. ASSUME NEW c \in Clients, NEW g \in Fds, Accept(c, g) PROVE FALSE
      <4>1. sock[g] = None /\ sock' = [sock EXCEPT ![g] = c]
        BY <3>2 DEF Accept, FreeFds
      <4> QED  BY <1>1, <4>1 DEF TypeOK
    <3> QED  BY <2>2, <3>1, <3>2 DEF Acceptor
  <2>3. CASE Stop
    BY <2>3 DEF Stop, StopFlag, StopLock, StopClose, StopClear, Stopping
  <2>4. ASSUME NEW w \in Workers, Worker(w) PROVE Cleanup(w)
    BY <2>4 DEF Worker, TakeTask, LoopTest, Lookup, RecvCall, RecvData, RecvEnd,
                Ingest, NeedMore, Parse, Erase
  <2> QED  BY <2>1, <2>2, <2>3, <2>4 DEF Next
<1>3. PICK w \in Workers : Cleanup(w)
  BY <1>2
<1>4. Holding(w) /\ wpc[w] = "cleanup"
  BY <1>3 DEF Cleanup, Holding
<1>5. /\ Pointee(w) = {wconn[w]} /\ conn[wconn[w]] = wfd[w] /\ wfd[w] \in Fds
      /\ sock[wfd[w]] = wconn[w] /\ wconn[w] \in Clients
  BY <1>1, <1>4, PointeeIsOwn
<1>6. sock' = sock \/ sock' = [sock EXCEPT ![wfd[w]] = None]
  <2>1. CloseObject(wconn[w])
    BY <1>3, <1>5 DEF Cleanup
  <2> QED  BY <1>5, <2>1 DEF CloseObject
<1>7. f = wfd[w]
  BY <1>1, <1>6 DEF TypeOK
<1>8. Caused(w)
  BY <1>4 DEF CauseInv
<1> QED  BY <1>4, <1>5, <1>7, <1>8 DEF Caused

\* Until stop is called a socket is closed only after its switch hung up or
\* sent something that ingest refuses.
THEOREM ClosedWithCause == Spec => CloseHasCause
<1>1. Init => CauseInv
  BY DEF Init, CauseInv
<1>2. TableInv /\ CauseInv /\ [Next]_vars =>
        [\A f \in Fds :
          LET c == sock[f] IN
          (~Stopping /\ c # None /\ sock'[f] # c) =>
            \/ c \in hungup
            \/ \E w \in Workers : /\ wsock[w] = c /\ wpc[w] = "cleanup"
                                  /\ batch[w] # <<>> /\ Head(batch[w]) = "bad"]_vars
  BY CloseStep
<1> QED  BY <1>1, <1>2, CauseInv_Step, TableInvariance, PTL DEF Spec, CloseHasCause

-----------------------------------------------------------------------------
(* What stop leaves open.                                                  *)

Open == {f \in Fds : sock[f] # None}

\* While stop closes the table, under the mutex: an open socket is in the table,
\* where stop will find it, or in the hands of the acceptor that waits to enter
\* it, and no worker is between its close and its erase.
WhileClosing ==
  /\ mutex = "main"
  /\ \A w \in Workers : wpc[w] # "erase"
  /\ \A f \in Open : Linked(f) \/ (acc = "insert" /\ afd = f)

\* After that only the turn of the acceptor that was under way can leave one.
AfterStop ==
  /\ acc = "accept" => Open = {}
  /\ acc \in {"insert", "enqueue"} => Open \subseteq {afd}
  /\ \A f, g \in Open : f = g

LeftInv ==
  /\ Stopping => ~running
  /\ main = "close" => WhileClosing
  /\ main = "stopped" => AfterStop

\* A worker's step outside the mutex leaves the table and the sockets alone.
LEMMA WorkerTable ==
  ASSUME TypeOK, NEW w \in Workers, Worker(w)
  PROVE  /\ UNCHANGED <<running, main, acc, afd>>
         /\ \/ Cleanup(w) \/ Erase(w)
            \/ /\ UNCHANGED <<sock, connections, conn, mutex>>
               /\ \A v \in Workers : wpc'[v] = "erase" => wpc[v] = "erase"
<1> USE DEF envVars, tableVars, accVars, Goto, TypeOK
<1>1. CASE TakeTask(w)
  BY <1>1 DEF TakeTask
<1>2. CASE LoopTest(w)
  BY <1>2 DEF LoopTest, Done
<1>3. CASE Lookup(w)
  BY <1>3 DEF Lookup, Done
<1>4. CASE RecvCall(w)
  BY <1>4 DEF RecvCall
<1>5. CASE RecvData(w)
  BY <1>5 DEF RecvData
<1>6. CASE RecvEnd(w) \/ Ingest(w) \/ NeedMore(w)
  BY <1>6 DEF RecvEnd, Ingest, NeedMore
<1>7. CASE Parse(w)
  BY <1>7 DEF Parse
<1>8. CASE Cleanup(w)
  BY <1>8 DEF Cleanup
<1>9. CASE Erase(w)
  BY <1>9 DEF Erase
<1> QED  BY <1>1, <1>2, <1>3, <1>4, <1>5, <1>6, <1>7, <1>8, <1>9 DEF Worker

\* Once running_ is false it stays so, for nobody listens again.
LEMMA FlagStays == TypeOK /\ (Stopping => ~running) /\ [Next]_vars => (Stopping => ~running)'
<1> SUFFICES ASSUME TypeOK, Stopping => ~running, [Next]_vars PROVE (Stopping => ~running)'
  OBVIOUS
<1> USE DEF Stopping, envVars, tableVars, accVars, workerVars
<1>1. CASE Listen \/ UNCHANGED vars \/ Environment
  BY <1>1 DEF Listen, vars, Environment, Switch, Connect, Send, HangUp, Borrow, GiveBack
<1>2. CASE Acceptor
  BY <1>2 DEF Acceptor, AcceptLoop, AcceptEnd, AcceptFails, Accept, Insert, Enqueue
<1>3. ASSUME NEW w \in Workers, Worker(w) PROVE (Stopping => ~running)'
  BY <1>3, WorkerTable
<1>4. CASE Stop
  BY <1>4 DEF Stop, StopFlag, StopLock, StopClose, StopClear
<1> QED  BY <1>1, <1>2, <1>3, <1>4 DEF Next

\* What stop finds when it gets the mutex.
LEMMA LockStep == TableInv /\ StopLock => WhileClosing'
<1> SUFFICES ASSUME TypeOK, Consistent, StopLock PROVE WhileClosing'
  BY DEF TableInv, StopLock, Closing
<1> USE ServerAssumption
<1>1. /\ UNCHANGED <<sock, connections, conn, acc, afd, wpc>>
      /\ mutex = None /\ mutex' = "main"
  BY DEF StopLock, envVars, accVars, workerVars
<1>2. \A w \in Workers : wpc[w] # "erase"
  BY <1>1 DEF Consistent, EntriesOK
<1>3. ASSUME NEW f \in Fds, sock[f] # None PROVE Linked(f) \/ (acc = "insert" /\ afd = f)
  <2>1. afd = f => acc = "insert" \/ Linked(f)
    BY DEF Consistent, AcceptorOK, TypeOK
  <2>2. \A i \in DOMAIN tasks : Linked(tasks[i])
    BY DEF Consistent, JobsOK
  <2>3. \A w \in Workers : Serving(w) => Linked(wfd[w])
    BY DEF Consistent, WorkersOK
  <2> QED  BY <1>3, <2>1, <2>2, <2>3 DEF Consistent, SocketsOwned
<1>4. Open' = Open /\ \A f : Linked(f)' <=> Linked(f)
  BY <1>1 DEF Open, Linked
<1> QED  BY <1>1, <1>2, <1>3, <1>4 DEF WhileClosing, Open

\* While stop has the mutex, others can only accept one more socket.
LEMMA ClosingStep ==
  TypeOK /\ main = "close" /\ WhileClosing /\ [Next]_vars /\ main' = "close" => WhileClosing'
<1> SUFFICES ASSUME TypeOK, main = "close", WhileClosing, [Next]_vars, main' = "close"
             PROVE  WhileClosing'
  OBVIOUS
<1> USE ServerAssumption
<1> USE DEF envVars, tableVars, accVars, workerVars
<1>1. ASSUME UNCHANGED <<sock, connections, conn, mutex>>,
             \A w \in Workers : wpc'[w] = "erase" => wpc[w] = "erase",
             acc = "insert" => acc' = "insert" /\ afd' = afd
      PROVE  WhileClosing'
  BY <1>1 DEF WhileClosing, Open, Linked
<1>2. CASE Listen
  BY <1>2 DEF Listen
<1>3. CASE UNCHANGED vars \/ Environment
  BY <1>1, <1>3 DEF vars, Environment, Switch, Connect, Send, HangUp, Borrow, GiveBack
<1>4. CASE AcceptLoop \/ AcceptEnd \/ AcceptFails \/ Enqueue
  BY <1>1, <1>4 DEF AcceptLoop, AcceptEnd, AcceptFails, Enqueue
<1>5. CASE Insert
  BY <1>5 DEF Insert, WhileClosing
<1>6. ASSUME NEW c \in Clients, NEW f \in Fds, Accept(c, f) PROVE WhileClosing'
  <2>1. /\ acc = "accept" /\ acc' = "insert" /\ afd' = f /\ sock[f] = None
        /\ sock' = [sock EXCEPT ![f] = c]
        /\ UNCHANGED <<connections, conn, mutex, wpc>>
    BY <1>6 DEF Accept, FreeFds
  <2>2. ASSUME NEW g \in Open' PROVE Linked(g)' \/ g = f
    <3>1. CASE g # f
      <4>1. sock'[g] = sock[g] /\ g \in Open
        BY <2>1, <2>2, <3>1 DEF TypeOK, Open
      <4>2. Linked(g)
        BY <2>1, <4>1 DEF WhileClosing
      <4> QED  BY <2>1, <4>1, <4>2 DEF Linked
    <3> QED  BY <3>1
  <2> QED  BY <2>1, <2>2 DEF WhileClosing
<1>7. ASSUME NEW w \in Workers, Worker(w) PROVE WhileClosing'
  <2>1. ~Cleanup(w) /\ ~Erase(w)
    BY DEF WhileClosing, Cleanup, Erase
  <2> QED  BY <1>1, <1>7, <2>1, WorkerTable
<1>8. CASE StopFlag \/ StopLock \/ StopClear
  BY <1>8 DEF StopFlag, StopLock, StopClear
<1>9. ASSUME NEW c \in Clients, StopClose(c) PROVE WhileClosing'
  <2>1. /\ sock' = [sock EXCEPT ![conn[c]] = None]
        /\ conn' = [conn EXCEPT ![c] = None]
        /\ UNCHANGED <<connections, mutex, wpc, acc, afd>>
    BY <1>9 DEF StopClose, CloseObject
  <2>2. ASSUME NEW g \in Open' PROVE Linked(g)' \/ (acc = "insert" /\ afd = g)
    <3>1. g # conn[c] /\ sock'[g] = sock[g] /\ g \in Open
      BY <2>1, <2>2 DEF TypeOK, Open
    <3>2. CASE Linked(g)
      <4>1. sock[g] # c /\ sock[g] \in Clients
        BY <3>1, <3>2 DEF Linked, Open, TypeOK
      <4>2. conn'[sock[g]] = conn[sock[g]]
        BY <2>1, <4>1 DEF TypeOK
      <4> QED  BY <2>1, <3>1, <3>2, <4>2 DEF Linked
    <3> QED  BY <3>1, <3>2 DEF WhileClosing
  <2> QED  BY <2>1, <2>2 DEF WhileClosing
<1> QED  BY <1>2, <1>3, <1>4, <1>5, <1>6, <1>7, <1>8, <1>9 DEF Next, Acceptor, Stop

\* When stop returns nothing of the table is open.
LEMMA ClearStep == TypeOK /\ WhileClosing /\ StopClear => AfterStop'
<1> SUFFICES ASSUME TypeOK, WhileClosing, StopClear PROVE AfterStop'
  OBVIOUS
<1> USE ServerAssumption
<1>1. UNCHANGED <<sock, acc, afd>>
  BY DEF StopClear, envVars, accVars
<1>2. ASSUME NEW f \in Open, Linked(f) PROVE FALSE
  <2>1. sock[f] \in Registered /\ conn[sock[f]] = f /\ f \in Fds
    BY <1>2 DEF Linked, Registered, Open, TypeOK
  <2> QED  BY <2>1 DEF StopClear
<1>3. \A f \in Open : acc = "insert" /\ afd = f
  BY <1>2 DEF WhileClosing
<1>4. Open' = Open
  BY <1>1 DEF Open
<1> QED  BY <1>1, <1>3, <1>4 DEF AfterStop

\* After stop at most the turn of the acceptor under way opens a socket.
LEMMA StoppedStep ==
  TypeOK /\ ~running /\ main = "stopped" /\ AfterStop /\ [Next]_vars => AfterStop'
<1> SUFFICES ASSUME TypeOK, ~running, main = "stopped", AfterStop, [Next]_vars
             PROVE  AfterStop'
  OBVIOUS
<1> USE ServerAssumption
<1> USE DEF envVars, tableVars, accVars, workerVars
<1>1. ASSUME Open' \subseteq Open, UNCHANGED <<acc, afd>> PROVE AfterStop'
  BY <1>1 DEF AfterStop
<1>2. CASE Listen \/ Stop
  BY <1>2 DEF Listen, Stop, StopFlag, StopLock, StopClose, StopClear
<1>3. CASE UNCHANGED vars \/ Environment
  BY <1>1, <1>3 DEF vars, Environment, Switch, Connect, Send, HangUp, Borrow, GiveBack, Open
<1>4. CASE AcceptLoop \/ AcceptEnd \/ AcceptFails \/ Insert \/ Enqueue
  <2>1. Open' = Open
    BY <1>4 DEF AcceptLoop, AcceptEnd, AcceptFails, Insert, Enqueue, Open
  <2>2. acc' \in {"loop", "end"} \/ (acc = "insert" /\ acc' = "enqueue" /\ afd' = afd)
    BY <1>4 DEF AcceptLoop, AcceptEnd, AcceptFails, Insert, Enqueue
  <2> QED  BY <2>1, <2>2 DEF AfterStop
<1>5. ASSUME NEW c \in Clients, NEW f \in Fds, Accept(c, f) PROVE AfterStop'
  <2>1. acc = "accept" /\ acc' = "insert" /\ afd' = f /\ sock' = [sock EXCEPT ![f] = c]
    BY <1>5 DEF Accept
  <2>2. Open' \subseteq {f}
    BY <2>1 DEF AfterStop, Open, TypeOK
  <2> QED  BY <2>1, <2>2 DEF AfterStop
<1>6. ASSUME NEW w \in Workers, Worker(w) PROVE AfterStop'
  <2>1. UNCHANGED <<acc, afd>> /\ (Cleanup(w) \/ Erase(w) \/ UNCHANGED sock)
    BY <1>6, WorkerTable
  <2>2. Open' \subseteq Open
    <3>1. CASE UNCHANGED sock \/ Erase(w)
      BY <3>1 DEF Erase, Open
    <3>2. CASE Cleanup(w)
      <4>1. PICK o \in Pointee(w) : CloseObject(o)
        BY <3>2 DEF Cleanup
      <4>2. sock' = sock \/ sock' = [sock EXCEPT ![conn[o]] = None]
        BY <4>1 DEF CloseObject
      <4> QED  BY <4>2 DEF Open, TypeOK
    <3> QED  BY <2>1, <3>1, <3>2
  <2> QED  BY <1>1, <2>1, <2>2
<1> QED  BY <1>2, <1>3, <1>4, <1>5, <1>6 DEF Next, Acceptor

\* Only stop moves main towards "close" and "stopped".
LEMMA MainSteps ==
  TypeOK /\ [Next]_vars =>
    /\ main' = "close" /\ main # "close" => StopLock
    /\ main' = "stopped" /\ main # "stopped" => StopClear /\ main = "close"
<1> SUFFICES ASSUME TypeOK, [Next]_vars
             PROVE  /\ main' = "close" /\ main # "close" => StopLock
                    /\ main' = "stopped" /\ main # "stopped" => StopClear /\ main = "close"
  OBVIOUS
<1> USE DEF envVars, tableVars, accVars, workerVars
<1>1. CASE Listen \/ UNCHANGED vars \/ Environment
  BY <1>1 DEF Listen, vars, Environment, Switch, Connect, Send, HangUp, Borrow, GiveBack
<1>2. CASE Acceptor
  BY <1>2 DEF Acceptor, AcceptLoop, AcceptEnd, AcceptFails, Accept, Insert, Enqueue
<1>3. ASSUME NEW w \in Workers, Worker(w) PROVE main' = main
  BY <1>3, WorkerTable
<1>4. CASE Stop
  BY <1>4 DEF Stop, StopFlag, StopLock, StopClose, StopClear
<1> QED  BY <1>1, <1>2, <1>3, <1>4 DEF Next

\* After stop at most one socket is open, whatever the switches, the acceptor
\* and the workers do.
THEOREM OneStaysOpen == Spec => []AtMostOneLeft
<1>1. Init => LeftInv
  BY DEF Init, LeftInv, Stopping
<1>2. TableInv /\ LeftInv /\ [Next]_vars => LeftInv'
  <2> SUFFICES ASSUME TableInv, TypeOK, LeftInv, [Next]_vars PROVE LeftInv'
    BY DEF TableInv
  <2>1. (Stopping => ~running)'
    BY FlagStays DEF LeftInv
  <2>2. main' = "close" => WhileClosing'
    BY MainSteps, LockStep, ClosingStep DEF LeftInv
  <2>3. main' = "stopped" => AfterStop'
    BY MainSteps, ClearStep, StoppedStep DEF LeftInv, Stopping
  <2> QED  BY <2>1, <2>2, <2>3 DEF LeftInv
<1>3. LeftInv => AtMostOneLeft
  <2> SUFFICES ASSUME LeftInv, main = "stopped" PROVE Cardinality(Open) <= 1
    BY DEF AtMostOneLeft, Open
  <2>1. \A f, g \in Open : f = g
    BY DEF LeftInv, AfterStop
  <2>2. CASE Open = {}
    BY <2>2, FS_EmptySet
  <2>3. CASE Open # {}
    <3>1. PICK f : f \in Open
      BY <2>3
    <3>2. Open = {f}
      BY <2>1, <3>1
    <3> QED  BY <3>2, FS_Singleton
  <2> QED  BY <2>2, <2>3
<1> QED  BY <1>1, <1>2, <1>3, TableInvariance, PTL DEF Spec

-----------------------------------------------------------------------------
(* Until stop is called the server implements Connections.                    *)

\* The workers in the framing loop on the socket behind f.
Framing(f) == {w \in Workers : wpc[w] = "parse" /\ wfd[w] = f}

\* The handlers under way on f are those of the worker that owns f, on behalf of
\* the connection that f names.
UnderOwner ==
  /\ \A f \in Fds : Under[f] = {[by |-> w, of |-> sock[f]] : w \in Framing(f)}
  /\ \A f \in Fds : \A v, w \in Framing(f) : v = w
  /\ \A f \in Fds : Framing(f) # {} => sock[f] # None

LEMMA UnderIsOwn == TypeOK /\ Consistent => UnderOwner
<1> SUFFICES ASSUME TypeOK, Consistent PROVE UnderOwner
  OBVIOUS
<1>1. ASSUME NEW w \in Workers, wpc[w] = "parse"
      PROVE  /\ wfd[w] \in Fds /\ conn[wconn[w]] = wfd[w]
             /\ wsock[w] = sock[wfd[w]] /\ sock[wfd[w]] # None
             /\ \A v \in Workers : wpc[v] = "parse" /\ wfd[v] = wfd[w] => v = w
  <2>1. Holding(w) /\ Serving(w)
    BY <1>1 DEF Holding, Serving
  <2>2. \A v \in Workers : wpc[v] = "parse" => Serving(v)
    BY DEF Serving
  <2> QED  BY <1>1, <2>1, <2>2, PointeeIsOwn DEF Consistent, WorkersOK, Linked
<1>2. ASSUME NEW f \in Fds
      PROVE  Under[f] = {[by |-> w, of |-> sock[f]] : w \in Framing(f)}
  <2>1. {v \in Workers : wpc[v] = "parse" /\ conn[wconn[v]] = f} = Framing(f)
    BY <1>1 DEF Framing
  <2>2. Under[f] = {[by |-> w, of |-> wsock[w]] : w \in Framing(f)}
    BY <2>1 DEF Under
  <2>3. \A w \in Framing(f) : wsock[w] = sock[f]
    BY <1>1 DEF Framing
  <2> QED  BY <2>2, <2>3
<1>3. \A f \in Fds : \A v, w \in Framing(f) : v = w
  BY <1>1 DEF Framing
<1>4. \A f \in Fds : Framing(f) # {} => sock[f] # None
  BY <1>1 DEF Framing
<1> QED  BY <1>2, <1>3, <1>4 DEF UnderOwner

\* A step that moves no worker into the framing loop or out of it, and leaves the
\* sockets of those in it alone, changes no handler under way.
LEMMA UnderStays ==
  ASSUME TypeOK, Consistent, TypeOK', Consistent',
         \A w \in Workers : (wpc'[w] = "parse") <=> (wpc[w] = "parse"),
         \A w \in Workers : wpc[w] = "parse" => wfd'[w] = wfd[w] /\ sock'[wfd[w]] = sock[wfd[w]]
  PROVE  Under' = Under
<1>1. \A f \in Fds : Framing(f)' = Framing(f)
  BY DEF Framing
<1>2. \A f \in Fds : Framing(f) # {} => sock'[f] = sock[f]
  BY DEF Framing
<1>3. UnderOwner /\ UnderOwner'
  BY UnderIsOwn, PTL
<1>4. \A f \in Fds : Under'[f] = Under[f]
  <2> SUFFICES ASSUME NEW f \in Fds PROVE Under'[f] = Under[f]
    OBVIOUS
  <2>1. Under[f] = {[by |-> w, of |-> sock[f]] : w \in Framing(f)}
    BY <1>3 DEF UnderOwner
  <2>2. Under'[f] = {[by |-> w, of |-> sock'[f]] : w \in Framing(f)'}
    BY <1>3 DEF UnderOwner
  <2>3. CASE Framing(f) = {}
    BY <1>1, <2>1, <2>2, <2>3
  <2>4. CASE Framing(f) # {}
    BY <1>1, <1>2, <2>1, <2>2, <2>4
  <2> QED  BY <2>3, <2>4
<1>5. Under = [f \in Fds |-> Under[f]] /\ Under' = [f \in Fds |-> Under'[f]]
  BY DEF Under
<1> QED  BY <1>4, <1>5

\* The steps of a worker that neither enter the framing loop nor leave it, nor
\* close the socket.
LEMMA AsideSteps ==
  ASSUME TypeOK, Consistent, TypeOK', Consistent', NEW w \in Workers,
         \/ TakeTask(w) \/ LoopTest(w) \/ Lookup(w) \/ RecvCall(w)
         \/ RecvData(w) \/ RecvEnd(w) \/ Erase(w)
  PROVE  UNCHANGED <<sock, Under>>
<1>1. sock' = sock
  BY DEF TakeTask, LoopTest, Lookup, RecvCall, RecvData, RecvEnd, Erase, envVars
<1>2. \A v \in Workers : v # w => wpc'[v] = wpc[v] /\ wfd'[v] = wfd[v]
  BY DEF TypeOK, TakeTask, LoopTest, Lookup, RecvCall, RecvData, RecvEnd, Erase, Goto, Done
<1>3. wpc[w] # "parse"
  BY DEF TakeTask, LoopTest, Lookup, RecvCall, RecvData, RecvEnd, Erase
<1>4. wpc'[w] # "parse"
  <2>1. CASE TakeTask(w) \/ RecvCall(w) \/ RecvData(w) \/ RecvEnd(w)
    BY <2>1 DEF TypeOK, TakeTask, RecvCall, RecvData, RecvEnd, Goto
  <2>2. CASE LoopTest(w) \/ Lookup(w) \/ Erase(w)
    BY <2>2 DEF TypeOK, LoopTest, Lookup, Erase, Goto, Done
  <2> QED  BY <2>1, <2>2
<1>5. Under' = Under
  BY <1>1, <1>2, <1>3, <1>4, UnderStays
<1> QED  BY <1>1, <1>5

\* A worker that goes into the framing loop is the only one there for its socket.
LEMMA EnterStep ==
  ASSUME TypeOK, Consistent, TypeOK', Consistent', NEW w \in Workers, Ingest(w)
  PROVE  Conns!Enter(w, wfd[w])
<1> USE ServerAssumption
<1> PICK f : f = wfd[w]
  OBVIOUS
<1>1. Holding(w) /\ Serving(w) /\ wpc[w] = "ingest"
  BY DEF Ingest, Holding, Serving
<1>2. f \in Fds /\ conn[wconn[w]] = f /\ Pointee(w) = {wconn[w]} /\ sock[f] # None
  BY <1>1, PointeeIsOwn
<1>3. wpc' = [wpc EXCEPT ![w] = "parse"] /\ wfd' = wfd /\ sock' = sock
  <2>1. f # None
    BY <1>2
  <2> QED  BY <1>2, <2>1 DEF Ingest, Goto, envVars
<1>4. /\ \A g \in Fds : g # f => Framing(g)' = Framing(g)
      /\ w \in Framing(f)' /\ \A g \in Fds : w \notin Framing(g)
      /\ \A g \in Fds : \A v \in Framing(g) : v # w
      /\ Framing(f) \subseteq Framing(f)'
  <2>1. \A v \in Workers : v # w => wpc'[v] = wpc[v]
    BY <1>3 DEF TypeOK
  <2>2. wpc'[w] = "parse"
    BY <1>3 DEF TypeOK
  <2> QED  BY <1>1, <1>3, <2>1, <2>2 DEF Framing
<1>5. UnderOwner /\ UnderOwner'
  BY UnderIsOwn, PTL
<1>6. Framing(f)' = {w} /\ Framing(f) = {}
  <2>1. \A v \in Framing(f)' : v = w
    BY <1>2, <1>4, <1>5 DEF UnderOwner
  <2> QED  BY <1>2, <1>4, <2>1
<1>7. Under[f] = {} /\ Under'[f] = {[by |-> w, of |-> sock[f]]}
  BY <1>2, <1>3, <1>5, <1>6 DEF UnderOwner
<1>8. \A g \in Fds : g # f => Under'[g] = Under[g]
  <2> SUFFICES ASSUME NEW g \in Fds, g # f PROVE Under'[g] = Under[g]
    OBVIOUS
  <2>1. Under[g] = {[by |-> v, of |-> sock[g]] : v \in Framing(g)}
    BY <1>5 DEF UnderOwner
  <2>2. Under'[g] = {[by |-> v, of |-> sock'[g]] : v \in Framing(g)'}
    BY <1>5 DEF UnderOwner
  <2> QED  BY <1>3, <1>4, <2>1, <2>2
<1>9. Under' = [Under EXCEPT ![f] = {[by |-> w, of |-> sock[f]]}]
  <2>1. Under = [g \in Fds |-> Under[g]] /\ Under' = [g \in Fds |-> Under'[g]]
    BY DEF Under
  <2> QED  BY <1>7, <1>8, <2>1
<1>10. \A g \in Fds : \A h \in Under[g] : h.by # w
  <2> SUFFICES ASSUME NEW g \in Fds, NEW h \in Under[g] PROVE h.by # w
    OBVIOUS
  <2>1. PICK v \in Framing(g) : h = [by |-> v, of |-> sock[g]]
    BY <1>5 DEF UnderOwner
  <2> QED  BY <1>2, <1>4, <2>1
<1> QED  BY <1>2, <1>3, <1>7, <1>9, <1>10 DEF Conns!Enter

\* A worker that leaves the framing loop leaves no other behind.
LEMMA LeaveStep ==
  ASSUME TypeOK, Consistent, TypeOK', Consistent', NEW w \in Workers, wpc[w] = "parse",
         wpc' = [wpc EXCEPT ![w] = "loop"] \/ wpc' = [wpc EXCEPT ![w] = "cleanup"],
         UNCHANGED <<sock, wfd>>
  PROVE  wfd[w] \in Fds /\ Conns!Leave(wfd[w])
<1> PICK f : f = wfd[w]
  OBVIOUS
<1>1. f \in Fds
  BY DEF TypeOK
<1>2. UnderOwner /\ UnderOwner'
  BY UnderIsOwn, PTL
<1>3. \A v \in Workers : IF v = w THEN wpc'[v] # "parse" ELSE wpc'[v] = wpc[v]
  BY DEF TypeOK
<1>4. /\ w \in Framing(f) /\ w \notin Framing(f)'
      /\ Framing(f)' \subseteq Framing(f)
      /\ \A g \in Fds : g # f => Framing(g)' = Framing(g)
  BY <1>3 DEF Framing
<1>5. Framing(f)' = {}
  BY <1>1, <1>2, <1>4 DEF UnderOwner
<1>6. Under[f] # {} /\ Under'[f] = {}
  <2>1. Under[f] = {[by |-> v, of |-> sock[f]] : v \in Framing(f)}
    BY <1>1, <1>2 DEF UnderOwner
  <2>2. Under'[f] = {[by |-> v, of |-> sock'[f]] : v \in Framing(f)'}
    BY <1>1, <1>2 DEF UnderOwner
  <2>3. [by |-> w, of |-> sock[f]] \in Under[f]
    BY <1>4, <2>1
  <2>4. Under'[f] = {}
    BY <1>5, <2>2
  <2> QED  BY <2>3, <2>4
<1>7. \A g \in Fds : g # f => Under'[g] = Under[g]
  <2> SUFFICES ASSUME NEW g \in Fds, g # f PROVE Under'[g] = Under[g]
    OBVIOUS
  <2>1. Under[g] = {[by |-> v, of |-> sock[g]] : v \in Framing(g)}
    BY <1>2 DEF UnderOwner
  <2>2. Under'[g] = {[by |-> v, of |-> sock'[g]] : v \in Framing(g)'}
    BY <1>2 DEF UnderOwner
  <2> QED  BY <1>4, <2>1, <2>2
<1>8. Under' = [Under EXCEPT ![f] = {}]
  <2>1. Under = [g \in Fds |-> Under[g]] /\ Under' = [g \in Fds |-> Under'[g]]
    BY DEF Under
  <2> QED  BY <1>6, <1>7, <2>1
<1> QED  BY <1>1, <1>6, <1>8 DEF Conns!Leave

\* The worker that closes a socket is its owner, so no handler is under way on it.
LEMMA CloseUnderStep ==
  ASSUME TypeOK, Consistent, TypeOK', Consistent', NEW w \in Workers, Cleanup(w)
  PROVE  wfd[w] \in Fds /\ Conns!Close(wfd[w])
<1> DEFINE f == wfd[w]
<1> USE ServerAssumption
<1>1. Holding(w) /\ Serving(w) /\ wpc[w] = "cleanup"
  BY DEF Cleanup, Holding, Serving
<1>2. f \in Fds /\ conn[wconn[w]] = f /\ Pointee(w) = {wconn[w]} /\ sock[f] # None
  BY <1>1, PointeeIsOwn
<1>3. sock' = [sock EXCEPT ![f] = None] /\ wfd' = wfd /\ wpc' = [wpc EXCEPT ![w] = "erase"]
  BY <1>2 DEF Cleanup, CloseObject, Goto
<1>4. \A v \in Workers : wpc[v] = "parse" => wfd[v] # f /\ v # w
  <2>1. \A v \in Workers : wpc[v] = "parse" => Serving(v) /\ v # w
    BY <1>1 DEF Serving
  <2> QED  BY <1>1, <2>1 DEF Consistent, WorkersOK
<1>5. Under' = Under
  <2>1. \A v \in Workers : (wpc'[v] = "parse") <=> (wpc[v] = "parse")
    BY <1>1, <1>3 DEF TypeOK
  <2>2. \A v \in Workers : wpc[v] = "parse" => wfd'[v] = wfd[v] /\ sock'[wfd[v]] = sock[wfd[v]]
    BY <1>3, <1>4 DEF TypeOK
  <2> QED  BY <2>1, <2>2, UnderStays
<1>6. Under[f] = {}
  <2>1. Framing(f) = {}
    BY <1>4 DEF Framing
  <2> QED  BY <1>2, <2>1, UnderIsOwn DEF UnderOwner
<1> QED  BY <1>2, <1>3, <1>5, <1>6 DEF Conns!Close

\* Each step before stop is a step of Connections, or changes neither a
\* descriptor nor the handlers under way.
LEMMA ConnectionsStep ==
  ASSUME TypeOK, Consistent, TypeOK', Consistent', ~Stopping', [Next]_vars
  PROVE  Conns!Next \/ UNCHANGED <<sock, Under>>
<1> USE DEF vars, envVars, tableVars, accVars, workerVars
<1>1. CASE \/ Listen \/ Environment \/ UNCHANGED vars
           \/ AcceptLoop \/ AcceptEnd \/ AcceptFails \/ Insert \/ Enqueue
  <2>1. UNCHANGED <<sock, wpc, wfd>>
    BY <1>1 DEF Listen, Environment, Switch, Connect, Send, HangUp, Borrow, GiveBack,
                AcceptLoop, AcceptEnd, AcceptFails, Insert, Enqueue
  <2>2. Under' = Under
    BY <2>1, UnderStays
  <2> QED  BY <2>1, <2>2
<1>2. ASSUME NEW c \in Clients, NEW f \in Fds, Accept(c, f)
      PROVE  Conns!Next
  <2>1. sock[f] = None /\ sock' = [sock EXCEPT ![f] = c] /\ UNCHANGED <<wpc, wfd>>
    BY <1>2 DEF Accept, FreeFds
  <2>2. \A w \in Workers : wpc[w] = "parse" => wfd[w] # f
    BY <2>1 DEF Serving, Consistent, WorkersOK, Linked
  <2>3. \A w \in Workers : wpc[w] = "parse" => sock'[wfd[w]] = sock[wfd[w]]
    BY <2>1, <2>2 DEF TypeOK
  <2>4. Under' = Under
    BY <2>1, <2>3, UnderStays
  <2> QED  BY <2>1, <2>4 DEF Conns!Next, Conns!Open
<1>3. ASSUME NEW w \in Workers, Worker(w)
      PROVE  Conns!Next \/ UNCHANGED <<sock, Under>>
  <2>1. CASE \/ TakeTask(w) \/ LoopTest(w) \/ Lookup(w) \/ RecvCall(w)
             \/ RecvData(w) \/ RecvEnd(w) \/ Erase(w)
    BY <2>1, AsideSteps
  <2>2. CASE Ingest(w)
    <3>1. wfd[w] \in Fds
      BY <2>2 DEF TypeOK, Ingest
    <3> QED  BY <2>2, <3>1, EnterStep DEF Conns!Next
  <2>3. CASE NeedMore(w)
    <3>1. wpc[w] = "parse" /\ wpc' = [wpc EXCEPT ![w] = "loop"] /\ UNCHANGED <<sock, wfd>>
      BY <2>3 DEF NeedMore, Goto
    <3> QED  BY <3>1, LeaveStep DEF Conns!Next
  <2>4. CASE Parse(w)
    <3>1. wpc[w] = "parse" /\ UNCHANGED <<sock, wfd>>
      BY <2>4 DEF Parse
    <3>2. wpc' = wpc \/ wpc' = [wpc EXCEPT ![w] = "cleanup"]
      BY <2>4 DEF Parse, Goto
    <3>3. wpc' = wpc => Under' = Under
      BY <3>1, UnderStays
    <3> QED  BY <3>1, <3>2, <3>3, LeaveStep DEF Conns!Next
  <2>5. CASE Cleanup(w)
    BY <2>5, CloseUnderStep DEF Conns!Next
  <2> QED  BY <1>3, <2>1, <2>2, <2>3, <2>4, <2>5 DEF Worker
<1>4. ~Stop
  <2>1. ~Stopping
    BY StoppingStays
  <2> QED  BY <2>1 DEF Stop, StopFlag, StopLock, StopClose, StopClear, Stopping
<1> QED  BY <1>1, <1>2, <1>3, <1>4 DEF Next, Acceptor

\* Until stop is called the server implements Connections: a descriptor is given
\* to another connection only after it was closed, the handlers of a connection
\* run on one thread with the descriptor that names it, and none is under way
\* when it is closed.
THEOREM ServerImplements == Spec => ServesConnections
<1>1. Init => Conns!Init
  <2> SUFFICES ASSUME Init PROVE Conns!Init
    OBVIOUS
  <2>1. \A f \in Fds : Under[f] = {}
    BY DEF Init, Under
  <2>2. Under = [f \in Fds |-> Under[f]]
    BY DEF Under
  <2>3. Under = [f \in Fds |-> {}]
    BY <2>1, <2>2
  <2> QED  BY <2>3 DEF Init, Conns!Init
<1>2. TableInv /\ TableInv' /\ [Next]_vars => [~Stopping' => Conns!Next]_<<sock, Under>>
  <2> SUFFICES ASSUME TableInv, TableInv', [Next]_vars, ~Stopping'
               PROVE  Conns!Next \/ UNCHANGED <<sock, Under>>
    OBVIOUS
  <2>1. ~Stopping
    BY StoppingStays
  <2>2. TypeOK /\ Consistent
    BY <2>1 DEF TableInv, Closing, Stopping
  <2>3. TypeOK' /\ Consistent'
    BY DEF TableInv, Closing, Stopping
  <2> QED  BY <2>2, <2>3, ConnectionsStep
<1> QED  BY <1>1, <1>2, TableInvariance, PTL DEF Spec, ServesConnections

-----------------------------------------------------------------------------
(* The mutex, before, during and after stop.                                  *)

\* A thread is in the critical section that closes sockets exactly while it holds
\* connections_mutex_.
LockInv ==
  /\ \A w \in Workers : wpc[w] = "erase" <=> mutex = w
  /\ main = "close" <=> mutex = "main"

\* Where a step of the worker leaves it, and what it does to the mutex.
LEMMA WorkerLock ==
  ASSUME TypeOK, NEW w \in Workers, Worker(w)
  PROVE  /\ main' = main
         /\ \A v \in Workers \ {w} : wpc'[v] = wpc[v]
         /\ \/ mutex' = mutex /\ wpc[w] # "erase" /\ wpc'[w] # "erase"
            \/ mutex = None /\ mutex' = w /\ wpc'[w] = "erase"
            \/ wpc[w] = "erase" /\ mutex' = None /\ wpc'[w] = "idle"
<1> USE DEF TypeOK, tableVars, envVars, Goto, Done
<1>0. \A v \in Workers \ {w} : wpc'[v] = wpc[v]
  BY WorkerLocal
<1>1. CASE TakeTask(w)
  BY <1>0, <1>1 DEF TakeTask
<1>2. CASE LoopTest(w)
  BY <1>0, <1>2 DEF LoopTest
<1>3. CASE Lookup(w)
  BY <1>0, <1>3 DEF Lookup
<1>4. CASE RecvCall(w)
  BY <1>0, <1>4 DEF RecvCall
<1>5. CASE RecvData(w) \/ RecvEnd(w) \/ Ingest(w) \/ NeedMore(w)
  BY <1>0, <1>5 DEF RecvData, RecvEnd, Ingest, NeedMore
<1>6. CASE Parse(w)
  BY <1>0, <1>6 DEF Parse
<1>7. CASE Cleanup(w)
  BY <1>0, <1>7 DEF Cleanup
<1>8. CASE Erase(w)
  BY <1>0, <1>8 DEF Erase
<1> QED  BY <1>1, <1>2, <1>3, <1>4, <1>5, <1>6, <1>7, <1>8 DEF Worker

LEMMA LockInv_Step == TypeOK /\ LockInv /\ [Next]_vars => LockInv'
<1> SUFFICES ASSUME TypeOK, LockInv, [Next]_vars PROVE LockInv'
  OBVIOUS
<1> USE ServerAssumption
<1>0. None \notin Workers /\ "main" \notin Workers /\ None # "main"
  OBVIOUS
<1>1. CASE \/ Listen \/ Environment \/ Acceptor \/ UNCHANGED vars
  <2>1. UNCHANGED <<mutex, wpc>> /\ (main' = "close" <=> main = "close")
    BY <1>1 DEF Listen, Environment, Switch, Connect, Send, HangUp, Borrow, GiveBack,
                Acceptor, AcceptLoop, AcceptEnd, AcceptFails, Accept, Insert, Enqueue,
                vars, envVars, tableVars, accVars, workerVars
  <2> QED  BY <2>1 DEF LockInv
<1>2. CASE Stop
  <2>1. wpc' = wpc
    BY <1>2, OthersQuiet
  <2>2. \/ mutex' = mutex /\ (main' = "close" <=> main = "close")
        \/ mutex = None /\ mutex' = "main" /\ main' = "close"
        \/ main = "close" /\ mutex' = None /\ main' = "stopped"
    BY <1>2 DEF Stop, StopFlag, StopLock, StopClose, StopClear, tableVars
  <2> QED  BY <1>0, <2>1, <2>2 DEF LockInv
<1>3. ASSUME NEW w \in Workers, Worker(w) PROVE LockInv'
  <2>1. /\ main' = main
        /\ \A v \in Workers \ {w} : wpc'[v] = wpc[v]
        /\ \/ mutex' = mutex /\ wpc[w] # "erase" /\ wpc'[w] # "erase"
           \/ mutex = None /\ mutex' = w /\ wpc'[w] = "erase"
           \/ wpc[w] = "erase" /\ mutex' = None /\ wpc'[w] = "idle"
    BY <1>3, WorkerLock
  <2> QED  BY <1>0, <2>1 DEF LockInv
<1> QED  BY <1>1, <1>2, <1>3 DEF Next

\* Closing is exclusive, also while stop closes what workers use and afterwards:
\* at most one of the workers and stop is between the close of a socket and the
\* end of its critical section, and it is the one that holds the mutex.  So the
\* mutex is never left behind, and whoever holds it waits for nobody: the safe
\* half of StopReturns.
THEOREM ClosingIsExclusive == Spec => []LockInv
<1>1. Init => LockInv
  BY ServerAssumption DEF Init, LockInv
<1> QED  BY <1>1, LockInv_Step, TypeCorrect, PTL DEF Spec

=============================================================================
