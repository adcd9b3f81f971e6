------------------------------- MODULE Server -------------------------------
(***************************************************************************)
(* oflib::Server (src/api/SouthBoundInterface/OpenFlowLib.cpp and .h): an  *)
(* acceptor thread, a table of connections keyed by file descriptor under  *)
(* one mutex, and one job per connection on the worker pool, which reads   *)
(* the socket until the switch leaves.                                     *)
(*                                                                         *)
(* The difficulty is that a descriptor is a name the kernel hands out      *)
(* again as soon as it was closed, while the table, the queued jobs and    *)
(* the workers go on using it, and that a worker keeps a pointer into the  *)
(* table after it released the mutex.                                      *)
(*                                                                         *)
(* A connection is named by the switch at its other end, which connects at *)
(* most once; that name also stands for the Connection object in the table *)
(* (a node of the unordered_map, whose address is stable until erased).    *)
(* The pool is TaskPool: tasks is its queue.  What recv returns is a batch *)
(* of items, each the rest of what the framer makes of some bytes: "part"  *)
(* completes no frame, "frame" completes one that passes its validator,    *)
(* "bad" makes ingest fail.                                                *)
(***************************************************************************)
EXTENDS Naturals, Sequences, FiniteSets

CONSTANTS
  Clients,     \* the TCP connections that switches may open
  Fds,         \* the descriptors the kernel can give to accepted sockets
  Shared,      \* those of them that other parts of the process may take
  Workers,     \* the worker threads of the pool
  Kinds,       \* the kinds of item a switch sends
  MaxPending,  \* bound: items the receive buffer of a socket holds
  MayStop,     \* whether stop() is ever called
  None         \* no client, no descriptor, nobody

ASSUME ServerAssumption ==
  /\ None \notin Clients \cup Fds \cup Workers \cup {"main"}
  /\ "main" \notin Workers
  /\ Shared \subseteq Fds
  /\ Kinds \subseteq {"part", "frame", "bad"}
  /\ MaxPending \in Nat \ {0}
  /\ MayStop \in BOOLEAN

VARIABLES
  \* the switches and the kernel
  net,          \* net[c]: "new", "backlog", "accepted" or "refused"
  wire,         \* wire[c]: items that arrived and were not read
  hungup,       \* the switches whose end is closed, or whose connection failed
  sock,         \* the descriptor table: which connection a descriptor names
  others,       \* the descriptors that other parts of the process hold
  \* the Server object
  running,      \* running_
  connections,  \* connections_: descriptor -> Connection object
  conn,         \* conn[c]: the field fd of the Connection object of c
  mutex,        \* who holds connections_mutex_
  tasks,        \* descriptors captured by the jobs queued in pool_
  \* the threads
  main,         \* the thread that calls listen and stop
  acc,          \* the acceptor thread ...
  afd,          \* ... and its client_fd
  wpc,          \* where each worker is in handle_client
  wfd,          \* its client_fd
  wconn,        \* its pointer conn
  wsock,        \* the socket its recv reads from
  batch,        \* what its recv returned and ingest has not consumed
  events        \* what the handlers and event_queue_ were given: pairs
                \*   <<origin of the frame, fd of the Connection>>; nobody
                \*   pops the queue, and its order and repetitions are dropped

envVars    == <<net, wire, hungup, sock, others>>
tableVars  == <<running, connections, conn, mutex>>
accVars    == <<acc, afd>>
workerVars == <<wpc, wfd, wconn, wsock, batch, events>>
vars == <<envVars, tableVars, tasks, main, accVars, workerVars>>

Registered  == {c \in Clients : \E f \in Fds : connections[f] = c}
FreeFds     == {f \in Fds \ others : sock[f] = None}
InRecv      == {w \in Workers : wpc[w] = "blocked"}
\* A socket lives while a descriptor names it or a recv is under way on it.
Established == {c \in Clients : \/ \E f \in Fds : sock[f] = c
                                \/ \E w \in InRecv : wsock[w] = c}

Init ==
  /\ net = [c \in Clients |-> "new"]
  /\ wire = [c \in Clients |-> <<>>]
  /\ hungup = {}
  /\ sock = [f \in Fds |-> None]
  /\ others = {}
  /\ running = FALSE
  /\ connections = [f \in Fds |-> None]
  /\ conn = [c \in Clients |-> None]
  /\ mutex = None
  /\ tasks = <<>>
  /\ main = "start"
  /\ acc = "none"
  /\ afd = None
  /\ wpc = [w \in Workers |-> "idle"]
  /\ wfd = [w \in Workers |-> None]
  /\ wconn = [w \in Workers |-> None]
  /\ wsock = [w \in Workers |-> None]
  /\ batch = [w \in Workers |-> <<>>]
  /\ events = {}

-----------------------------------------------------------------------------
(* The switches: they connect while the listening socket exists, send, and *)
(* leave, in order (FIN) or at once (RST, or an error of the connection:   *)
(* what was not read may be lost).                                         *)

Connect(c) ==
  /\ net[c] = "new"
  /\ acc \in {"loop", "accept", "insert", "enqueue"}
  /\ net' = [net EXCEPT ![c] = "backlog"]
  /\ UNCHANGED <<wire, hungup, sock, others, tableVars, tasks, main, accVars, workerVars>>

Send(c) ==
  /\ net[c] = "backlog" \/ c \in Established
  /\ c \notin hungup
  /\ Len(wire[c]) < MaxPending
  /\ \E k \in Kinds : wire' = [wire EXCEPT ![c] = Append(@, k)]
  /\ UNCHANGED <<net, hungup, sock, others, tableVars, tasks, main, accVars, workerVars>>

HangUp(c) ==
  /\ net[c] = "backlog" \/ c \in Established
  /\ c \notin hungup
  /\ hungup' = hungup \cup {c}
  /\ \/ UNCHANGED wire
     \/ wire' = [wire EXCEPT ![c] = <<>>]
  /\ UNCHANGED <<net, sock, others, tableVars, tasks, main, accVars, workerVars>>

-----------------------------------------------------------------------------
(* The rest of the process: clients of the northbound interface, the       *)
(* database and whatever else has descriptors takes some and gives them    *)
(* back, or keeps them.                                                    *)

Borrow(f) ==
  /\ f \in Shared \cap FreeFds
  /\ others' = others \cup {f}
  /\ UNCHANGED <<net, wire, hungup, sock, tableVars, tasks, main, accVars, workerVars>>

GiveBack(f) ==
  /\ f \in others
  /\ others' = others \ {f}
  /\ UNCHANGED <<net, wire, hungup, sock, tableVars, tasks, main, accVars, workerVars>>

-----------------------------------------------------------------------------
(* listen, and the thread accept_loop.                                     *)

Listen ==
  /\ main = "start"
  /\ \/ /\ main' = "up"
        /\ running' = TRUE
        /\ acc' = "loop"
     \/ /\ main' = "failed"
        /\ UNCHANGED <<running, acc>>
  /\ UNCHANGED <<envVars, connections, conn, mutex, tasks, afd, workerVars>>

AcceptLoop ==
  /\ acc = "loop"
  /\ running
  /\ acc' = "accept"
  /\ UNCHANGED <<envVars, tableVars, tasks, main, afd, workerVars>>

\* Closing the listening socket resets the connections nobody accepted.
AcceptEnd ==
  /\ acc = "loop"
  /\ ~running
  /\ acc' = "end"
  /\ net' = [c \in Clients |-> IF net[c] = "backlog" THEN "refused" ELSE net[c]]
  /\ UNCHANGED <<wire, hungup, sock, others, tableVars, tasks, main, afd, workerVars>>

\* accept returns a descriptor that names nothing at that moment.
Accept(c, f) ==
  /\ acc = "accept"
  /\ net[c] = "backlog"
  /\ f \in FreeFds
  /\ net' = [net EXCEPT ![c] = "accepted"]
  /\ sock' = [sock EXCEPT ![f] = c]
  /\ afd' = f
  /\ acc' = "insert"
  /\ UNCHANGED <<wire, hungup, others, tableVars, tasks, main, workerVars>>

\* accept fails, for want of descriptors or for any other reason: the loop does
\* not look why, and tries again.
AcceptFails ==
  /\ acc = "accept"
  /\ acc' = "loop"
  /\ UNCHANGED <<envVars, tableVars, tasks, main, afd, workerVars>>

\* connections_[client_fd] = Connection{client_fd}, under the mutex.
Insert ==
  /\ acc = "insert"
  /\ mutex = None
  /\ connections' = [connections EXCEPT ![afd] = sock[afd]]
  /\ conn' = [conn EXCEPT ![sock[afd]] = afd]
  /\ acc' = "enqueue"
  /\ UNCHANGED <<envVars, running, mutex, tasks, main, afd, workerVars>>

\* Mutant: the job is enqueued again on the next turn as well.
EnqueueAgain ==
  /\ acc = "enqueue"
  /\ tasks' = Append(tasks, afd)
  /\ \/ acc' = "loop" /\ afd' = None
     \/ UNCHANGED accVars /\ Len(tasks) < Cardinality(Clients)
  /\ UNCHANGED <<envVars, tableVars, main, workerVars>>

Enqueue ==
  /\ acc = "enqueue"
  /\ tasks' = Append(tasks, afd)
  /\ acc' = "loop"
  /\ afd' = None
  /\ UNCHANGED <<envVars, tableVars, main, workerVars>>

-----------------------------------------------------------------------------
(* A worker runs handle_client(client_fd).                                 *)

\* The worker's locals when handle_client has returned.
Done(w) ==
  /\ wpc' = [wpc EXCEPT ![w] = "idle"]
  /\ wfd' = [wfd EXCEPT ![w] = None]
  /\ wconn' = [wconn EXCEPT ![w] = None]
  /\ wsock' = [wsock EXCEPT ![w] = None]
  /\ batch' = [batch EXCEPT ![w] = <<>>]

Goto(w, label) == wpc' = [wpc EXCEPT ![w] = label]

(***************************************************************************)
(* The objects that conn may refer to.  As long as the node is in the      *)
(* table it is the one that was looked up.  Memory of an erased node keeps *)
(* its last contents until the allocator uses it for another node.         *)
(***************************************************************************)
Pointee(w) ==
  IF wconn[w] \in Registered THEN {wconn[w]} ELSE {wconn[w]} \cup Registered

TakeTask(w) ==
  /\ wpc[w] = "idle"
  /\ tasks # <<>>
  /\ wfd' = [wfd EXCEPT ![w] = Head(tasks)]
  /\ tasks' = Tail(tasks)
  /\ Goto(w, "loop")
  /\ UNCHANGED <<envVars, tableVars, main, accVars, wconn, wsock, batch, events>>

LoopTest(w) ==
  /\ wpc[w] = "loop"
  /\ \/ running /\ Goto(w, "lookup") /\ UNCHANGED <<wfd, wconn, wsock, batch>>
     \/ ~running /\ Done(w)
  /\ UNCHANGED <<envVars, tableVars, tasks, main, accVars, events>>

\* Mutant: the result of find is not compared with end().
LookupUnchecked(w) ==
  /\ wpc[w] = "lookup"
  /\ mutex = None
  /\ wconn' = [wconn EXCEPT ![w] = connections[wfd[w]]]
  /\ Goto(w, "recv")
  /\ UNCHANGED <<envVars, tableVars, tasks, main, accVars, wfd, wsock, batch, events>>

Lookup(w) ==
  /\ wpc[w] = "lookup"
  /\ mutex = None
  /\ LET it == connections[wfd[w]] IN
       \/ it = None /\ Done(w)
       \/ /\ it # None
          /\ wconn' = [wconn EXCEPT ![w] = it]
          /\ Goto(w, "recv")
          /\ UNCHANGED <<wfd, wsock, batch>>
  /\ UNCHANGED <<envVars, tableVars, tasks, main, accVars, events>>

\* recv_into_buffer up to the system call: the descriptor is resolved once.
RecvCall(w) ==
  /\ wpc[w] = "recv"
  /\ \E o \in Pointee(w) :
       LET s == IF conn[o] = None THEN None ELSE sock[conn[o]] IN
         /\ wsock' = [wsock EXCEPT ![w] = s]
         /\ IF s = None THEN Goto(w, "cleanup") ELSE Goto(w, "blocked")
  /\ UNCHANGED <<envVars, tableVars, tasks, main, accVars, wfd, wconn, batch, events>>

\* recv returns bytes: any part of what has arrived, in order.
RecvData(w) ==
  /\ wpc[w] = "blocked"
  /\ LET c == wsock[w] IN
       \E n \in 1 .. Len(wire[c]) :
         /\ batch' = [batch EXCEPT ![w] = SubSeq(wire[c], 1, n)]
         /\ wire' = [wire EXCEPT ![c] = SubSeq(@, n + 1, Len(@))]
  /\ Goto(w, "ingest")
  /\ UNCHANGED <<net, hungup, sock, others, tableVars, tasks, main, accVars, wfd, wconn, wsock, events>>

\* Mutant: a recv that found nothing to read is taken for the end.
RecvEndIdle(w) ==
  /\ wpc[w] = "blocked"
  /\ wire[wsock[w]] = <<>>
  /\ Goto(w, "cleanup")
  /\ UNCHANGED <<envVars, tableVars, tasks, main, accVars, wfd, wconn, wsock, batch, events>>

\* recv returns 0 or an error: the connection has ended or failed, and nothing
\* is left to read.  (The socket blocks without a timeout and the program has no
\* signal handlers, so that no other error ends a recv.)
RecvEnd(w) ==
  /\ wpc[w] = "blocked"
  /\ wsock[w] \in hungup
  /\ wire[wsock[w]] = <<>>
  /\ Goto(w, "cleanup")
  /\ UNCHANGED <<envVars, tableVars, tasks, main, accVars, wfd, wconn, wsock, batch, events>>

\* ingest looks at conn.fd again before it takes the bytes.
Ingest(w) ==
  /\ wpc[w] = "ingest"
  /\ \E o \in Pointee(w) :
       \/ conn[o] = None /\ Goto(w, "cleanup")
       \/ conn[o] # None /\ Goto(w, "parse")
  /\ UNCHANGED <<envVars, tableVars, tasks, main, accVars, wfd, wconn, wsock, batch, events>>

\* Mutant: handle_client returns once a batch is consumed.
NeedMoreReturns(w) ==
  /\ wpc[w] = "parse"
  /\ batch[w] = <<>>
  /\ Done(w)
  /\ UNCHANGED <<envVars, tableVars, tasks, main, accVars, events>>

\* One turn of the framing loop of ingest.
NeedMore(w) ==
  /\ wpc[w] = "parse"
  /\ batch[w] = <<>>
  /\ Goto(w, "loop")
  /\ UNCHANGED <<envVars, tableVars, tasks, main, accVars, wfd, wconn, wsock, batch, events>>

Parse(w) ==
  /\ wpc[w] = "parse"
  /\ batch[w] # <<>>
  /\ \/ /\ Head(batch[w]) = "part"
        /\ batch' = [batch EXCEPT ![w] = Tail(@)]
        /\ UNCHANGED <<wpc, events>>
     \/ /\ Head(batch[w]) = "frame"
        /\ batch' = [batch EXCEPT ![w] = Tail(@)]
        /\ \E o \in Pointee(w) : events' = events \cup {<<wsock[w], conn[o]>>}
        /\ UNCHANGED wpc
     \/ /\ Head(batch[w]) = "bad"
        /\ Goto(w, "cleanup")
        /\ UNCHANGED <<batch, events>>
  /\ UNCHANGED <<envVars, tableVars, tasks, main, accVars, wfd, wconn, wsock>>

(***************************************************************************)
(* close_connection and erase, in one critical section.  The descriptor is *)
(* free for the kernel to reuse from the close on, in the middle of it.    *)
(***************************************************************************)
CloseObject(o) ==
  IF conn[o] = None
  THEN UNCHANGED <<sock, conn>>
  ELSE /\ sock' = [sock EXCEPT ![conn[o]] = None]
       /\ conn' = [conn EXCEPT ![o] = None]

\* Mutant: the socket is closed before the mutex is taken.
CleanupUnlocked(w) ==
  /\ wpc[w] = "cleanup"
  /\ \E o \in Pointee(w) : CloseObject(o)
  /\ Goto(w, "erase")
  /\ UNCHANGED <<net, wire, hungup, others, running, connections, mutex, tasks, main, accVars,
                 wfd, wconn, wsock, batch, events>>

Cleanup(w) ==
  /\ wpc[w] = "cleanup"
  /\ mutex = None
  /\ mutex' = w
  /\ \E o \in Pointee(w) : CloseObject(o)
  /\ Goto(w, "erase")
  /\ UNCHANGED <<net, wire, hungup, others, running, connections, tasks, main, accVars,
                 wfd, wconn, wsock, batch, events>>

\* Mutant: the closed connection stays in the table.
EraseNothing(w) ==
  /\ wpc[w] = "erase"
  /\ mutex' = None
  /\ Done(w)
  /\ UNCHANGED <<envVars, running, connections, conn, tasks, main, accVars, events>>

\* Mutant: the mutex is not released on the way out.
EraseKeepsLock(w) ==
  /\ wpc[w] = "erase"
  /\ connections' = [connections EXCEPT ![wfd[w]] = None]
  /\ Done(w)
  /\ UNCHANGED <<envVars, running, conn, mutex, tasks, main, accVars, events>>

Erase(w) ==
  /\ wpc[w] = "erase"
  /\ connections' = [connections EXCEPT ![wfd[w]] = None]
  /\ mutex' = None
  /\ Done(w)
  /\ UNCHANGED <<envVars, running, conn, tasks, main, accVars, events>>

-----------------------------------------------------------------------------
(* stop: running_ is cleared, the acceptor is detached, and every entry of *)
(* the table is closed, one after the other, under the mutex.              *)

StopFlag ==
  /\ MayStop
  /\ main \in {"up", "failed"}
  /\ running' = FALSE
  /\ main' = "lock"
  /\ UNCHANGED <<envVars, connections, conn, mutex, tasks, accVars, workerVars>>

StopLock ==
  /\ main = "lock"
  /\ mutex = None
  /\ mutex' = "main"
  /\ main' = "close"
  /\ UNCHANGED <<envVars, running, connections, conn, tasks, accVars, workerVars>>

StopClose(c) ==
  /\ main = "close"
  /\ c \in Registered
  /\ conn[c] # None
  /\ CloseObject(c)
  /\ UNCHANGED <<net, wire, hungup, others, running, connections, mutex, tasks, main, accVars,
                 workerVars>>

\* Mutant: the table is cleared and the sockets are forgotten.
StopClearOnly ==
  /\ main = "close"
  /\ connections' = [f \in Fds |-> None]
  /\ mutex' = None
  /\ main' = "stopped"
  /\ UNCHANGED <<envVars, running, conn, tasks, accVars, workerVars>>

StopClear ==
  /\ main = "close"
  /\ \A c \in Registered : conn[c] = None
  /\ connections' = [f \in Fds |-> None]
  /\ mutex' = None
  /\ main' = "stopped"
  /\ UNCHANGED <<envVars, running, conn, tasks, accVars, workerVars>>

-----------------------------------------------------------------------------
Switch(c) == Connect(c) \/ Send(c) \/ HangUp(c)

Environment ==
  \/ \E c \in Clients : Switch(c)
  \/ \E f \in Fds : Borrow(f) \/ GiveBack(f)

Acceptor ==
  \/ AcceptLoop \/ AcceptEnd \/ AcceptFails \/ Insert \/ Enqueue
  \/ \E c \in Clients, f \in Fds : Accept(c, f)

Worker(w) ==
  \/ TakeTask(w) \/ LoopTest(w) \/ Lookup(w)
  \/ RecvCall(w) \/ RecvData(w) \/ RecvEnd(w)
  \/ Ingest(w) \/ NeedMore(w) \/ Parse(w)
  \/ Cleanup(w) \/ Erase(w)

Stop == StopFlag \/ StopLock \/ StopClear \/ \E c \in Clients : StopClose(c)

Next ==
  \/ Listen
  \/ Environment
  \/ Acceptor
  \/ \E w \in Workers : Worker(w)
  \/ Stop

Spec == Init /\ [][Next]_vars

(***************************************************************************)
(* Threads that can run do run, and the mutex is not withheld for ever.    *)
(* accept may fail again and again, but not for ever while a connection    *)
(* waits and a descriptor is free.  Nothing is assumed about the switches  *)
(* and the rest of the process, nor that stop is ever called.              *)
(***************************************************************************)
Fairness ==
  /\ WF_vars(Listen)
  /\ WF_vars(Acceptor)
  /\ SF_vars(\E c \in Clients, f \in Fds : Accept(c, f))
  /\ \A w \in Workers : WF_vars(Worker(w))
  /\ WF_vars(StopLock) /\ WF_vars(StopClear)
  /\ WF_vars(\E c \in Clients : StopClose(c))

FairSpec == Spec /\ Fairness

-----------------------------------------------------------------------------
Stopping == main \in {"lock", "close", "stopped"}

\* Who will run, or is running, handle_client for the socket behind f.
Owners(f) ==
       {<<"acceptor", a>> : a \in {afd} \cap {f}}
  \cup {<<"job", i>> : i \in {j \in DOMAIN tasks : tasks[j] = f}}
  \cup {<<"worker", w>> : w \in {v \in Workers : wfd[v] = f /\ wpc[v] # "erase"}}

Holding(w) == wpc[w] \in {"recv", "blocked", "ingest", "parse", "cleanup"}

\* Types, and which local variables are set where.
TypeOK ==
  /\ net \in [Clients -> {"new", "backlog", "accepted", "refused"}]
  /\ wire \in [Clients -> Seq(Kinds)]
  /\ hungup \subseteq Clients
  /\ sock \in [Fds -> Clients \cup {None}]
  /\ others \subseteq Shared
  /\ running \in BOOLEAN
  /\ connections \in [Fds -> Clients \cup {None}]
  /\ conn \in [Clients -> Fds \cup {None}]
  /\ mutex \in Workers \cup {"main", None}
  /\ tasks \in Seq(Fds)
  /\ main \in {"start", "up", "failed", "lock", "close", "stopped"}
  /\ acc \in {"none", "loop", "accept", "insert", "enqueue", "end"}
  /\ afd \in Fds \cup {None}
  /\ afd # None <=> acc \in {"insert", "enqueue"}
  /\ main = "start" => acc = "none"
  /\ wpc \in [Workers -> {"idle", "loop", "lookup", "recv", "blocked",
                          "ingest", "parse", "cleanup", "erase"}]
  /\ wfd \in [Workers -> Fds \cup {None}]
  /\ wconn \in [Workers -> Clients \cup {None}]
  /\ wsock \in [Workers -> Clients \cup {None}]
  /\ \A w \in Workers :
       /\ wfd[w] # None <=> wpc[w] # "idle"
       /\ Holding(w) => wconn[w] # None
       /\ wpc[w] \in {"blocked", "ingest", "parse"} => wsock[w] # None
  /\ batch \in [Workers -> Seq(Kinds)]
  /\ events \subseteq Clients \X (Fds \cup {None})

\* Until stop is called, every open socket is in exactly one pair of hands:
\* the acceptor's, one queued job's or one worker's (OpenFlowLib.cpp:75-84,
\* :90-117).  No socket is forgotten and none is read by two workers, although
\* its descriptor is closed before its entry is erased.
OneOwner ==
  ~Stopping => \A f \in Fds :
    IF sock[f] = None THEN Owners(f) = {}
                      ELSE \E o \in Owners(f) : Owners(f) = {o}

\* connections_[client_fd] (:79) never overwrites the entry of another
\* connection, even when accept returned a descriptor whose last user has
\* closed it and not yet erased its entry (:104-106).
FreshKey ==
  acc = "insert" /\ mutex = None => connections[afd] = None

\* Until stop is called, the table and the kernel agree: an entry is about the
\* open socket its key names, unless a worker is just erasing it, and an open
\* socket has an entry, unless the acceptor is just making it.
TableMatchesKernel ==
  ~Stopping => \A f \in Fds :
    /\ connections[f] # None =>
         \/ connections[f] = sock[f] /\ conn[sock[f]] = f
         \/ \E w \in Workers : wpc[w] = "erase" /\ wfd[w] = f /\ mutex = w
    /\ sock[f] # None => connections[f] = sock[f] \/ (acc = "insert" /\ afd = f)

\* A worker that uses the pointer it got from the table (:99-111) points to an
\* entry that is still in the table.
NoDangling ==
  \A w \in Workers : Holding(w) => wconn[w] \in Registered

\* Until stop is called, a handler gets the descriptor of the very socket that
\* its frame was read from (OpenFlowLib.h:315, :335; SBI.hpp:81-91), however
\* often the number was reused meanwhile.
HandlerContext ==
  ~Stopping => \A w \in Workers :
    wpc[w] = "parse" => \A o \in Pointee(w) :
      conn[o] # None /\ sock[conn[o]] = wsock[w]

\* Until stop is called, the server closes a socket only after its switch hung
\* up, or sent something that ingest refuses (OpenFlowLib.h:285-295): nobody is
\* disconnected because of another connection.
CloseHasCause ==
  [][\A f \in Fds :
       LET c == sock[f] IN
       (~Stopping /\ c # None /\ sock'[f] # c) =>
         \/ c \in hungup
         \/ \E w \in Workers : /\ wsock[w] = c /\ wpc[w] = "cleanup"
                               /\ batch[w] # <<>> /\ Head(batch[w]) = "bad"]_vars

\* The worker that is in the framing loop of ingest calls the handlers, with the
\* descriptor of the Connection its pointer refers to.
Under ==
  [f \in Fds |-> {[by |-> w, of |-> wsock[w]] :
                    w \in {v \in Workers : wpc[v] = "parse" /\ conn[wconn[v]] = f}}]

Conns == INSTANCE Connections WITH Peers <- Clients, Runners <- Workers, under <- Under

\* Until stop is called, the server does what its handlers rely on: Connections
\* (OpenFlowLib.cpp:66-118, OpenFlowLib.h:270-310).
ServesConnections == Conns!Init /\ [][~Stopping' => Conns!Next]_<<sock, Under>>

-----------------------------------------------------------------------------
(* What is true of stop, and what is not.                                  *)

\* stop leaves at most one socket open: the one the detached acceptor was
\* about to accept or to enter into the table (:52-63, :74-86).
AtMostOneLeft ==
  main = "stopped" => Cardinality({f \in Fds : sock[f] # None}) <= 1

\* stop gets the mutex and returns, whatever the workers do (:59-63).
StopReturns == (main = "lock") ~> (main = "stopped")

\* "Stops the server and closes all active connections" (OpenFlowLib.h:427):
\* once stop returned and every thread is done, no socket is open.
StopClosesAll ==
  (/\ main = "stopped" /\ acc = "end" /\ tasks = <<>>
   /\ \A w \in Workers : wpc[w] = "idle")
    => \A f \in Fds : sock[f] = None

-----------------------------------------------------------------------------
(* Liveness, as long as stop is not called.                                *)

Gone(c) == net[c] = "accepted" /\ c \notin Established \cup Registered

SwitchesLeave ==
  \A c \in Clients : (c \in Established) ~> (c \in hungup \cup (Clients \ Established))

\* If switches eventually leave and stop is not called, then every switch that
\* connected is accepted, and its descriptor and its entry are released after it
\* left: no connection waits for ever behind others, none is leaked (:75-84,
\* :103-115).
ReapsAll ==
  ([]~Stopping /\ SwitchesLeave) => \A c \in Clients : (net[c] = "backlog") ~> Gone(c)

EnoughWorkers ==
  Cardinality({c \in Clients : net[c] = "accepted" /\ ~Gone(c)}) <= Cardinality(Workers)

\* While there are no more connections than workers and stop is not called, what
\* a connected switch has sent is read: bytes in its receive buffer find a worker
\* that takes some of them, or the connection ends (:93-116).  With one connection more this
\* fails: a worker is bound to its switch until that one leaves (:82).
Served ==
  [](~Stopping /\ EnoughWorkers) =>
    \A c \in Clients :
      (net[c] = "accepted" /\ wire[c] # <<>>)
        ~> (Gone(c) \/ \E w \in Workers : wpc[w] = "ingest" /\ wsock[w] = c)

=============================================================================
