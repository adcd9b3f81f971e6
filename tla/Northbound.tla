----------------------------- MODULE Northbound -----------------------------
(***************************************************************************)
(* The northbound interface: a detached thread runs an httplib::Server     *)
(* whose connections are jobs of its own pool (HttpPool); the routes of    *)
(* NorthBoundInterface.cpp run on the threads of that pool, share the      *)
(* counters of MetricsRegistry and hand the events they accept to a second *)
(* pool, the ThreadEnvironment nbi_thread_env, where each is a job that    *)
(* does nothing yet: only how many were handed over is kept here.          *)
(*                                                                         *)
(* A connection is named by its client, which connects at most once.  What *)
(* of a request decides the answer is its kind and whether it asks to close*)
(* the connection; both are chosen when it is read.  Nobody in the program *)
(* calls httplib::Server::stop, so the listener ends only when accept fails*)
(* in another way than for want of descriptors or by a signal: then it     *)
(* tries again.                                                            *)
(***************************************************************************)
EXTENDS HttpPool

CONSTANTS
  Kinds,         \* the kinds of request that clients send
  KeepAliveMax,  \* keep_alive_max_count_
  MaxSent        \* bound: requests that all clients together send

Conns  == Jobs
NoConn == NoJob

(***************************************************************************)
(* What the routes and process_request answer: the label that              *)
(* sanitizeRouteLabel makes of the path, and the status that is counted.   *)
(* The path is known as soon as the request line is understood, so that    *)
(* only a bad request line has none.  A Range header can change the status *)
(* after the handler has run: "outside" is an event that was accepted and  *)
(* whose answer, of 15 bytes, has nothing at that range.  (On other routes *)
(* a range, an error in the headers or another method gives statuses of    *)
(* their own, and changes nothing else.)                                   *)
(***************************************************************************)
Answer ==
  [health   |-> <<"/health", 200>>,    \* also /config and static files
   metrics  |-> <<"/metrics", 200>>,
   event    |-> <<"/events", 202>>,
   outside  |-> <<"/events", 416>>,    \* range_error, after the handler
   badrange |-> <<"/events", 416>>,    \* the Range header is not understood
   badtype  |-> <<"/events", 400>>,    \* the type is no number in 0..255
   cutoff   |-> <<"/events", 400>>,    \* headers cut off or contradictory
   missing  |-> <<"other", 404>>,      \* no route matches
   garbled  |-> <<"unknown", 400>>]    \* no request line

Labels == {Answer[k] : k \in DOMAIN Answer}

Unrouted == {"garbled", "cutoff", "badrange"}  \* answered before routing
Posted   == {"event", "outside"}               \* their handler enqueues

ASSUME NorthboundAssumption ==
  /\ Kinds \subseteq DOMAIN Answer
  /\ KeepAliveMax \in Nat \ {0} /\ MaxSent \in Nat

VARIABLES
  \* the clients and the kernel
  csock,    \* csock[c]: "new", "backlog", "open", "closed" or "refused"
  inbox,    \* how many requests arrived and were not read
  sent,     \* how many requests were sent
  gone,     \* the clients that closed their end
  \* the listener
  lpc,      \* where it is in listen
  hand,     \* the socket it has accepted and not yet enqueued
  \* the threads that run process_and_close_socket
  hpc,      \* where each of them is
  left,     \* count, the requests it may still take on its connection
  req,      \* the kind of the request in hand
  last,     \* connection_closed
  page,     \* the metrics it has rendered
  total,    \* httpRequestsTotal_ of MetricsRegistry
  events,   \* how many jobs nbi_thread_env was given
  \* history
  answered  \* responses that were written, or failed to be, by label

netVars    == <<csock, inbox, sent, gone>>
listenVars == <<lpc, hand>>
threadVars == <<hpc, left, req, last, page>>
countVars  == <<total, answered>>
vars == <<poolVars, netVars, listenVars, threadVars, events, countVars>>

None == [l \in Labels |-> 0]

Init ==
  /\ PoolInit
  /\ csock = [c \in Conns |-> "new"]
  /\ inbox = [c \in Conns |-> 0]
  /\ sent = 0
  /\ gone = {}
  /\ lpc = "bind"
  /\ hand = NoConn
  /\ hpc = [t \in Threads |-> "none"]
  /\ left = [t \in Threads |-> 0]
  /\ req = [t \in Threads |-> "none"]
  /\ last = [t \in Threads |-> FALSE]
  /\ page = [t \in Threads |-> None]
  /\ total = None
  /\ events = 0
  /\ answered = None

-----------------------------------------------------------------------------
(* The clients.                                                            *)

Connect(c) ==
  /\ csock[c] = "new"
  /\ lpc \in {"accept", "got"}
  /\ csock' = [csock EXCEPT ![c] = "backlog"]
  /\ UNCHANGED <<poolVars, inbox, sent, gone, listenVars, threadVars, events, countVars>>

SendRequest(c) ==
  /\ csock[c] \in {"backlog", "open"}
  /\ c \notin gone
  /\ sent < MaxSent
  /\ sent' = sent + 1
  /\ inbox' = [inbox EXCEPT ![c] = @ + 1]
  /\ UNCHANGED <<poolVars, csock, gone, listenVars, threadVars, events, countVars>>

HangUp(c) ==
  /\ csock[c] \in {"backlog", "open"}
  /\ gone' = gone \cup {c}
  /\ UNCHANGED <<poolVars, csock, inbox, sent, listenVars, threadVars, events, countVars>>

-----------------------------------------------------------------------------
(* The listener: listen, listen_internal and the end of the thread.        *)

Bind ==
  /\ lpc = "bind"
  /\ lpc' \in {"accept", "returned"}
  /\ UNCHANGED <<poolVars, netVars, hand, threadVars, events, countVars>>

Accept(c) ==
  /\ lpc = "accept" /\ owner = "ready"
  /\ csock[c] = "backlog"
  /\ csock' = [csock EXCEPT ![c] = "open"]
  /\ hand' = c
  /\ lpc' = "got"
  /\ UNCHANGED <<poolVars, inbox, sent, gone, threadVars, events, countVars>>

EnqueueConn ==
  /\ lpc = "got"
  /\ Enqueue(hand)
  /\ hand' = NoConn
  /\ lpc' = "accept"
  /\ UNCHANGED <<netVars, threadVars, events, countVars>>

\* accept failed: the listening socket is closed, the loop left.
AcceptFails ==
  /\ lpc = "accept" /\ owner = "ready"
  /\ csock' = [c \in Conns |-> IF csock[c] = "backlog" THEN "refused" ELSE csock[c]]
  /\ lpc' = "failed"
  /\ UNCHANGED <<poolVars, inbox, sent, gone, hand, threadVars, events, countVars>>

Shutdown ==
  /\ lpc = "failed"
  /\ SetShutdown \/ NotifyAll \/ JoinBase \/ JoinDynamic
  /\ UNCHANGED <<netVars, listenVars, threadVars, events, countVars>>

Notify ==
  /\ NotifyOne
  /\ UNCHANGED <<netVars, listenVars, threadVars, events, countVars>>

\* listen returns false; the thread logs that and ends.
ListenReturns ==
  /\ lpc = "failed" /\ owner = "down"
  /\ lpc' = "returned"
  /\ UNCHANGED <<poolVars, netVars, hand, threadVars, events, countVars>>

-----------------------------------------------------------------------------
(* A thread of the pool, between connections and on one.                   *)

Between(t) ==
  /\ Sleep(t) \/ Timeout(t) \/ Retire(t) \/ Leave(t)
  /\ UNCHANGED <<netVars, listenVars, threadVars, events, countVars>>

Goto(t, label) == hpc' = [hpc EXCEPT ![t] = label]

\* process_and_close_socket begins.
Begin(t) ==
  /\ Take(t)
  /\ Goto(t, "alive")
  /\ left' = [left EXCEPT ![t] = KeepAliveMax]
  /\ UNCHANGED <<netVars, listenVars, req, last, page, events, countVars>>

\* Mutant: a client that is silent is waited for without limit.
KeepAliveForever(t) ==
  /\ hpc[t] = "alive"
  /\ LET c == fn[t] IN
       \/ left[t] = 0 /\ Goto(t, "close")
       \/ left[t] > 0 /\ (inbox[c] > 0 \/ c \in gone) /\ Goto(t, "read")
  /\ UNCHANGED <<poolVars, netVars, listenVars, left, req, last, page, events, countVars>>

\* The loop of process_server_socket_core: keep_alive returns true when there
\* is something to read, an end of file too, and false after a timeout.
KeepAlive(t) ==
  /\ hpc[t] = "alive"
  /\ LET c == fn[t]
         readable == inbox[c] > 0 \/ c \in gone
     IN IF left[t] > 0 /\ readable THEN Goto(t, "read") ELSE Goto(t, "close")
  /\ UNCHANGED <<poolVars, netVars, listenVars, left, req, last, page, events, countVars>>

\* process_request reads a request, or getline fails: the client has gone, or
\* is silent in the middle of a line, or its line is too long.
ReadRequest(t) ==
  /\ hpc[t] = "read"
  /\ LET c == fn[t] IN
       \/ /\ Goto(t, "close")
          /\ UNCHANGED <<inbox, req, last>>
       \/ /\ inbox[c] > 0
          /\ inbox' = [inbox EXCEPT ![c] = @ - 1]
          /\ \E k \in Kinds, b \in BOOLEAN :
               /\ k = "badrange" => b
               /\ req' = [req EXCEPT ![t] = k]
               /\ last' = [last EXCEPT ![t] = b]
               /\ Goto(t, IF k \in Unrouted THEN "count" ELSE "route")
  /\ UNCHANGED <<poolVars, csock, sent, gone, listenVars, left, page, events, countVars>>

\* Mutant: the event is accepted and not enqueued.
RouteForgets(t) ==
  /\ hpc[t] = "route"
  /\ Goto(t, "count")
  /\ page' = [page EXCEPT ![t] = IF req[t] = "metrics" THEN total ELSE @]
  /\ UNCHANGED <<poolVars, netVars, listenVars, left, req, last, events, countVars>>

\* routing, and the handler of the route; renderPrometheus holds the mutex.  An
\* event is enqueued before range_error may turn its 202 into a 416.
Route(t) ==
  /\ hpc[t] = "route"
  /\ Goto(t, "count")
  /\ page' = [page EXCEPT ![t] = IF req[t] = "metrics" THEN total ELSE @]
  /\ events' = IF req[t] \in Posted THEN events + 1 ELSE events
  /\ UNCHANGED <<poolVars, netVars, listenVars, left, req, last, countVars>>

\* Mutant: only what succeeds is counted.
CountSuccess(t) ==
  /\ hpc[t] = "count"
  /\ total' = IF Answer[req[t]][2] < 400
              THEN [total EXCEPT ![Answer[req[t]]] = @ + 1] ELSE total
  /\ Goto(t, "write")
  /\ UNCHANGED <<poolVars, netVars, listenVars, left, req, last, page, events, answered>>

\* write_response_core calls the post-routing handler, which calls
\* observeHttpRequest, before it writes.
Count(t) ==
  /\ hpc[t] = "count"
  /\ total' = [total EXCEPT ![Answer[req[t]]] = @ + 1]
  /\ Goto(t, "write")
  /\ UNCHANGED <<poolVars, netVars, listenVars, left, req, last, page, events, answered>>

\* The response is written, or that fails as the client has gone or is slow;
\* process_request returns, and the loop around it goes on or ends.
Write(t) ==
  /\ hpc[t] = "write"
  /\ answered' = [answered EXCEPT ![Answer[req[t]]] = @ + 1]
  /\ \/ ~last[t] /\ Goto(t, "alive") /\ left' = [left EXCEPT ![t] = @ - 1]
     \/ Goto(t, "close") /\ UNCHANGED left
  /\ req' = [req EXCEPT ![t] = "none"]
  /\ last' = [last EXCEPT ![t] = FALSE]
  /\ page' = [page EXCEPT ![t] = None]
  /\ UNCHANGED <<poolVars, netVars, listenVars, events, total>>

\* shutdown_socket, close_socket; then the job returns.
Close(t) ==
  /\ hpc[t] = "close"
  /\ csock' = [csock EXCEPT ![fn[t]] = "closed"]
  /\ Return(t)
  /\ hpc' = [hpc EXCEPT ![t] = "none"]
  /\ left' = [left EXCEPT ![t] = 0]
  /\ UNCHANGED <<inbox, sent, gone, listenVars, req, last, page, events, countVars>>

-----------------------------------------------------------------------------
Client(c) == Connect(c) \/ SendRequest(c) \/ HangUp(c)

Listener ==
  Bind \/ EnqueueConn \/ Notify \/ Shutdown \/ ListenReturns \/ \E c \in Conns : Accept(c)

Handler(t) ==
  KeepAlive(t) \/ ReadRequest(t) \/ Route(t) \/ Count(t) \/ Write(t) \/ Close(t)

Next ==
  \/ \E c \in Conns : Client(c)
  \/ Listener \/ AcceptFails
  \/ \E t \in Threads : Between(t) \/ Begin(t) \/ Handler(t)

Spec == Init /\ [][Next]_vars

(***************************************************************************)
(* Threads that can run do run; a wait for a client ends with something to *)
(* read or with a timeout.  Nobody has to connect or to send, accept need  *)
(* not fail, and no thread may count on a spurious wakeup.                 *)
(***************************************************************************)
Fairness ==
  /\ WF_vars(Listener)
  /\ \A t \in Threads :
       /\ WF_vars(Begin(t) \/ ((Sleep(t) \/ Retire(t) \/ Leave(t)) /\ Between(t)))
       /\ WF_vars(Handler(t))

FairSpec == Spec /\ Fairness

-----------------------------------------------------------------------------
ThreadsAt(labels) == {t \in Threads : hpc[t] \in labels}

\* Types; a thread is on a connection exactly while it runs its job, and
\* idle_thread_count_ counts the threads in wait (httplib.h:10195-10216).
TypeOK ==
  /\ jobs \in Seq(Conns)
  /\ shutdown \in BOOLEAN
  /\ idle = Cardinality(Counted)
  /\ tpc \in [Threads -> {"none", "loop", "wait", "awake", "expired", "run", "finished", "exit"}]
  /\ fn \in [Threads -> Conns \cup {NoConn}]
  /\ owner \in {"ready", "notify", "wake", "join", "collect", "down"}
  /\ finished \subseteq Conns
  /\ csock \in [Conns -> {"new", "backlog", "open", "closed", "refused"}]
  /\ inbox \in [Conns -> 0 .. MaxSent]
  /\ sent \in 0 .. MaxSent
  /\ gone \subseteq Conns
  /\ lpc \in {"bind", "accept", "got", "failed", "returned"}
  /\ hand \in Conns \cup {NoConn}
  /\ hpc \in [Threads -> {"none", "alive", "read", "route", "count", "write", "close"}]
  /\ left \in [Threads -> 0 .. KeepAliveMax]
  /\ req \in [Threads -> Kinds \cup {"none"}]
  /\ last \in [Threads -> BOOLEAN]
  /\ page \in [Threads -> [Labels -> Nat]]
  /\ total \in [Labels -> Nat]
  /\ events \in Nat
  /\ \A t \in Threads :
       /\ hpc[t] # "none" <=> tpc[t] = "run"
       /\ tpc[t] = "run" <=> fn[t] # NoConn
       /\ tpc[t] = "none" => t \in Dynamic

\* The pool that grows and shrinks keeps the promise of TaskPool: connections
\* are served once and in the order of accept, and a thread that times out,
\* or leaves because of shutdown, takes none of them with it.
Pool == INSTANCE TaskPool WITH
  Workers <- Threads, queue <- jobs, current <- fn, done <- finished,
  closed <- shutdown, retired <- {t \in Threads : tpc[t] = "exit"}

HttpPoolSpec == Pool!Spec

\* An accepted socket is in exactly one pair of hands, the listener's, a
\* queued job's or one thread's, until it is closed; when listen returns none
\* is left (httplib.h:11812-11848, :12435-12436).
OneOwner ==
  /\ \A c \in Conns :
       LET owners ==      {<<"listener", 0>> : x \in {hand} \cap {c}}
                     \cup {<<"job", i>> : i \in {j \in DOMAIN jobs : jobs[j] = c}}
                     \cup {<<"thread", t>> : t \in {u \in Threads : fn[u] = c}}
       IN Cardinality(owners) = IF csock[c] = "open" THEN 1 ELSE 0
  /\ lpc = "returned" => \A c \in Conns : csock[c] # "open"

\* Responses counted under l, and those that are about to be.
WillCount(l) == total[l] + Cardinality({t \in ThreadsAt({"count"}) : Answer[req[t]] = l})

\* Every response is counted once under its route and status, whatever the
\* threads do beside each other and whether or not it reaches its client; and
\* the counters bracket the events: whatever was, or will be, counted as 202 is
\* an event in the pool, and every event in the pool was, or will be, counted
\* as 202 or as the 416 that range_error makes of it (NorthBoundInterface.cpp
\* :10-12, :56-62; httplib.h:12384-12389).
ResponsesAccounted ==
  /\ \A l \in Labels :
       total[l] = answered[l]
                + Cardinality({t \in ThreadsAt({"write"}) : Answer[req[t]] = l})
  /\ WillCount(Answer["event"]) <= events
  /\ events <= WillCount(Answer["event"]) + WillCount(Answer["outside"])

\* Whoever has seen a response finds it in every scrape that is rendered
\* later, although the requests are counted by other threads than those that
\* render (httplib.h:11343, Observability.cpp:120-127).
ScrapeCoversAnswers ==
  [][\A t \in Threads :
       (hpc[t] = "route" /\ req[t] = "metrics" /\ hpc'[t] = "count") =>
          \A l \in Labels : page'[t][l] >= answered[l]]_vars

\* There is a connection under way, or listen has failed and not returned.
Unsettled ==
  \/ \E c \in Conns : csock[c] \in {"backlog", "open"}
  \/ lpc = "failed"

\* Every connection comes to an end, also when accept fails meanwhile: it is
\* accepted, it waits in the queue only for connections that end too, a
\* silent client is given up, a busy one is served its share; and after an
\* accept that failed listen returns.  (A client connects once at most, so that
\* each is done with when all are.)
NothingHangs == Unsettled ~> ~Unsettled

=============================================================================
