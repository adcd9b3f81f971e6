# NetOrc in TLA+

NetOrc is an OpenFlow 1.0 controller in C++: switches connect over TCP to a southbound
server, their messages are framed, validated and handled on a pool of worker threads,
handlers update a flow table, a database and a topology, and a northbound HTTP interface
offers health, metrics and event ingest.  This directory holds TLA+ models of its parts,
TLC configurations that check them on small instances, and proofs checked by TLAPS.
Paths below are relative to `src/src/`; PROJECT.json maps every definition to its lines.

## 1. Inventory

### How the parts interact

    main -> App -> SouthBoundInterface::init -> oflib::Server::listen -> acceptor thread
                                                  | one job per switch
                                                  v
                              ThreadEnvironment (4 workers) runs handle_client
                                                  | recv, ingest
                                                  v
            Framer -> validator -> lifecycle -> handler -> FlowManager -> DatabaseService
                                       |           \-> LLDPParser, TopologyManager
                                       v
                                  TaskQueue (event_queue_), read by nobody
         -> NorthBoundInterface::init -> a thread that runs httplib::Server::listen
                                                  | one job per client
                                                  v
                              httplib::ThreadPool runs the routes
                                                  |-> MetricsRegistry (counters, scrapes)
                                                  \-> POST /events: nbi_thread_env, a second
                                                      ThreadEnvironment

Parts share memory only: the table of connections and its mutex, the queues of the pools,
the services behind references.  Threads are the main thread, the acceptor and the workers
of the southbound server, the listener and the pool of the HTTP server, and the workers of
`nbi_thread_env`.

### Modelled

**Worker pool**: `ThreadEnvironment` (core/Classes/ThreadEnvironment.hpp).
State: a queue of callables, a mutex, a condition variable, a stop flag, the threads.
Operations: the constructor starts the workers; `enqueue` pushes under the mutex and
notifies one waiter after releasing it; each worker waits, takes the oldest callable and
calls it outside the mutex; the destructor sets the flag, notifies all and joins.
Hard: wakeups sent outside the lock, stop racing with the queue, callables that throw.
Correct when no wakeup is lost, every callable queued before the destructor began is run
once and in order, and the destructor returns.

**Southbound server**: `oflib::Server` (api/SouthBoundInterface/OpenFlowLib.cpp, .h).
State: `running_`, the table `connections_` from descriptor to `Connection` under
`connections_mutex_`, a pool of its own, an event queue.  Operations: `listen`, the
acceptor thread, one `handle_client` job per connection, `stop`.
Hard: descriptors are names the kernel reuses as soon as they are closed; a worker uses a
pointer into the table without the mutex; `stop` races with the acceptor and the workers;
a worker is bound to a switch until it leaves.  Correct when each open socket has exactly
one owner, the table agrees with the kernel, handlers get the right descriptor, and
nothing is leaked or closed without cause.

**Session**: `Framer`, `OpenFlowEndpoint::ingest`, `advance_lifecycle`, the validators
that `SouthBoundInterface::init` registers (OpenFlowLib.h, SouthBoundInterface.cpp,
BodyValidator.hpp).  State: `inbuf` and `state` of a `Connection`.  Operations: append
what `recv` returned, carve frames, validate, advance, dispatch.
Hard: TCP cuts the stream anywhere; 16-bit lengths at their boundaries; the order of
validation, lifecycle and dispatch.  Correct when the frames dispatched are the stream's,
none lost, torn or kept waiting, the buffer is bounded, the loop ends, and the state
follows the handshake.

**Handlers and stores**: `getPacketHandlers`, `setupProtocolEvents`, `FlowManager`,
`DatabaseService`, `TopologyManager`.  State: flow tables and links keyed by descriptor,
each under its mutex, and the rows of an SQLite table.  Operations: `addFlow` (memory
under the mutex, then an INSERT without it), `hasMatch`, `updateLink`.
Hard: handlers of several connections at once; a failed INSERT; the end of the process
between memory and disk; keys that are reused.  Correct when memory holds what this run
entered, the database what was inserted, each in order and once, and links are the latest.

**LLDPParser** (Utils/LLDPParser.hpp).  Pure: `isLLDP`, and the loop of `parse` over items
with a head of 16 bits.  Hard: lengths that go past the end, an item of length 0, whose
`length - 1` makes the constructor of a string throw, nine-bit lengths; offsets that count
from the beginning of the PACKET_IN body, where BodyValidator.hpp:35 has ten bytes before
the frame.  Correct when no byte outside the body is read, the loop ends, and the result is
what the items say.

**Northbound interface** (NorthBoundInterface.cpp, Observability.cpp) **on httplib**
(httplib.h: ThreadPool, listen_internal, process_and_close_socket).  State: the pool's
queue, the count of idle threads and its lists of threads, the sockets, the counters of
`MetricsRegistry`, the jobs given to `nbi_thread_env`.  Operations: accept and enqueue,
keep-alive, routing, `observeHttpRequest` after routing, `renderPrometheus`, closing,
shutdown after an accept that failed.
Hard: threads that are added under load and time out at the moment when work arrives; the
count of idle threads that decides on it; counters changed by some threads and rendered by
others; clients that keep a thread.  Correct when each accepted socket has one owner until
it is closed, no connection is lost with a thread, all come to their end, and the counters
agree with what was answered and accepted.

**Lifetime** (index.cpp, App.cpp, SBI.hpp, Server's destructor): main's objects are made on
its stack in one order and destroyed in the other, `App::run` starts the threads that use
them and catches what they throw.  Hard: threads that outlive what they refer to when one
step of the start fails.  Correct when everything a worker uses exists.

### Not modelled

- **TaskQueue** (core/Classes/TaskQueue.hpp), which "is now defunct" by its own comment
  (:15).  `Server::dispatch` pushes to it, and nothing in the program calls
  `wait_for_event`, which would pop: a consumer would be a part of another program.  What
  is pushed is `events` of Server and Session.
- **send_frame** (OpenFlowLib.h:230-268): its only caller, `send_packet`, is called by
  nobody; the controller never sends, and no two senders meet on a socket.
- **The metrics of events**: `incrementEventsQueued`, `incrementEventsProcessed`,
  `incrementEventsInvalid` and `setEventQueueDepth` are called by nobody, so the scrape
  shows 0 for them although its text says "Total number of events queued for processing."
  (Observability.cpp:129).
- **Configuration and ServiceContainer**: parsing of settings; a map filled before any
  thread exists.
- **HeaderValidator** (called by one test only; the framer makes these checks on the live
  path), **Logger** (output), **MLClient** (called by nobody), envparser.cpp and
  HandleData.cpp (not built, and empty).
- **The rest of httplib.h**: parsing of requests and headers, files, TLS, web sockets,
  compression, the client; of ranges only that they may change the status of an event is
  modelled.  It is vendored and by far the longest file here (20412 of the
  22503 lines of code), of which the program uses a small part; the models cover that
  part's control and not its text, so the share of all lines they cover stays small.
- **SQLite and the kernel**, as far as they are not part of Server, Northbound and
  PacketHandlers.

## 2. Modules

| module | models | uses |
|---|---|---|
| TaskPool | what a pool promises (abstract) | |
| Connections | what the server promises to its handlers (abstract) | |
| ThreadEnvironment | the pool | implements TaskPool (`PoolSpec`) |
| Server | acceptor, table, workers, stop, the kernel's descriptors | implements Connections until `stop` (`ServesConnections`); pool as in TaskPool: a queue whose head an idle worker takes |
| Session | bytes of one connection, framer, validators, lifecycle | relies on `OneOwner` of Server: one worker per session |
| LLDPParser | `isLLDP`, `parse`, and what the format says | |
| PacketHandlers | handlers, flow tables, database, topology, restart | EXTENDS LLDPParser; relies on Connections: a connection's handlers run one after another, on its descriptor |
| HttpPool | the pool of httplib | |
| Northbound | listener, connections, routes, metrics, events | EXTENDS HttpPool, which in it implements TaskPool (`HttpPoolSpec`) |
| Lifetime | main's objects against the threads | |
| MC* | the instances for TLC | EXTENDS the module |
| *_proofs | the theorems | EXTENDS the module and TLAPS; PacketHandlers_proofs EXTENDS LLDPParser_proofs |
| Promises_proofs | theorems about TaskPool and Connections | EXTENDS the one, INSTANCE of the other |

Definitions marked "Mutant" in their comment are wrong variants of the definition they
stand before.  No specification uses them; they document which error each property
notices.

### Correspondence to the code

*ThreadEnvironment.*  Each critical section of `mtx` is one action, because it touches
shared state once and waiting releases the mutex in the same step: `Enqueue` (:64-65),
`Sleep`, `Leave` and `Take` (:28-38), `SetStop` (:49-50).  What lies outside the lock is an
action of its own: `NotifyOne` (:68), `Return` and `Throw` (:41), `NotifyAll` (:52),
`Join` (:54-56).  `call[j]`, `wpc[w]` and `dpc` are the program counters of callers,
workers and the destructor.  A notification without a waiter is lost, a waiter may wake by
itself, and a job that throws ends the process.  `enqueue` does not look at `stop`.
`early` is history: what was queued before `stop` was set.

*Server.*  `net`, `wire`, `hungup` and `sock` are the switches and the kernel: a
descriptor is any free one, a socket lives while a descriptor names it or a `recv` is
under way on it, and `HangUp` is the end of a connection, by a close or a failure, which may
lose what was not read: only then `recv` returns 0 or an error (`RecvEnd`), for the sockets
block, have no timeout, and the program installs no signal handler.  The descriptors in
`others` are those that the rest of the process has at the moment, the northbound interface
and the database among them: `Borrow` and `GiveBack` take one out of `Shared` and return it,
or never do.  `AcceptFails` is an error of `accept` of any kind, at any time, after which the
loop goes on.  The acceptor is `AcceptLoop`,
`Accept`, `AcceptFails`, `Insert`, `Enqueue`, `AcceptEnd`; a worker is `TakeTask`,
`LoopTest`, `Lookup` (under the mutex), then without it `RecvCall`, `RecvData` or
`RecvEnd`, `Ingest`, `NeedMore` or `Parse`, and at the end `Cleanup`, which takes the mutex
and closes, and `Erase`, which erases the entry, releases the mutex and ends the job.
`stop` is `StopFlag`, `StopLock`, one `StopClose` per entry, `StopClear`.  A connection is
named by the switch that made it; the same name stands for the `Connection` node that
`connections_[fd]` holds, whose field `fd` is `conn[c]`, so a stale pointer and a reused
number stay apart.  An access through a pointer to an erased node is undefined: `Pointee`
lets it find any object.  Bytes are items: "part" completes no frame, "frame" one that is
valid, "bad" makes `ingest` return false.

*Connections.*  `Open` is the return of `accept`, `Close` the `close` of `handle_client`,
`Enter` and `Leave` the call of a handler and its return; `under[f]` is the handler under
way on descriptor f, with its thread and the connection it works for.  In Server that is
the worker in the framing loop of `ingest`, with the object its pointer refers to
(`Under`); in PacketHandlers the connection whose handler is in `addFlow`.

*Session.*  The stream is a sequence of numbers below `Base` (256 in the code).  `Recv` is
`recv` and the append; each turn of the loop of `ingest` is `Wait` (NEED_MORE), `Reject`
(INVALID), `Refuse` (validator), or `Handle` (advance, then dispatch).  `events` is what
dispatch was called with, and where in the stream the frame began.

*LLDPParser.*  Bodies are sequences of bytes.  `Turn` is one turn of the loop of `parse`,
`parse` its iteration as a recursive function; what is thrown is an end of its own.  Beside
it `Items` says where items are without a loop, and `ParseAgrees` that the two agree.

*PacketHandlers.*  `Hello` is the handler up to the end of the critical section of
`addFlow`; `SaveFlow` the INSERT that goes through or fails.  A PACKET_IN is a body of
`Packets`, of which the parser decides: `PacketIn` is one that is LLDP and reaches
`updateLink`, `PacketInRouted` one that is looked up in the flow table, `PacketInThrows`
one on which `parse` throws; nobody catches that, and the process ends.  `Close` waits until
the handler is done, as `handle_client` does; no store is told of it.  `Restart` ends the
process at any point and starts it with the database alone: nothing reads the flows back.
`calls` is history: every call of `addFlow` and what became of its INSERT.  The handler of
FLOW_MOD is in the table of `getPacketHandlers` and `setupProtocolEvents` registers only
those of HELLO, PACKET_IN and FLOW_REMOVED, so a FLOW_MOD changes nothing.

*HttpPool.*  As in ThreadEnvironment a critical section is an action: `Enqueue` (with the
thread it may add, and the joins of those that finished), `Sleep`, `Retire`, `Leave`,
`Take`, `SetShutdown`, `JoinDynamic`; outside the lock are `NotifyOne`, `Timeout`, `Return`,
`NotifyAll`, `JoinBase`.  `tpc` says in which list a thread of `Dynamic` is; "expired" is a
thread whose `wait_for` timed out and that has not yet looked at the queue again, so that
work may arrive between the two.

*Northbound.*  `lpc` is the listener: `Bind`, `Accept`, `EnqueueConn`, `AcceptFails`,
`Shutdown`, `ListenReturns`.  `hpc[t]` is a thread in `process_and_close_socket`: `Begin`,
`KeepAlive`, `ReadRequest`, `Route`, `Count` (the post-routing handler), `Write`, `Close`.
A request is its kind, which decides label and status (`Answer`), and whether it asks to
close.  The path is known once the request line is understood, so only a bad line is
counted as "unknown".  What is refused before routing (`Unrouted`: a bad line, headers that
are cut off, a Range header that cannot be read) goes to `Count` without a handler.  Of the
requests whose handler enqueues an event (`Posted`) those of kind "outside" have a range
that lies outside of the answer, which `range_error` sees after the handler has run: they
are in the pool and are counted as 416 (httplib.h:12384-12389).  `total` is
httpRequestsTotal_, `page` what a scrape rendered, `events` the number of jobs that
`nbi_thread_env` was given; the jobs do nothing.  `answered` is history.

*Lifetime.*  `alive` counts the objects of main, in the order of index.cpp; `mpc` follows
main and `run`; `in[w]` is the service whose method a worker is in.  Every start of a
thread may fail.

## 3. Runs

| run | instance | question |
|---|---|---|
| pool | 4 jobs, one throws, 2 workers, the destructor | can a wakeup be lost, a job left behind, doubled or reordered; does the destructor return? |
| server_safety | 3 connections, 2 descriptors, 2 workers, good frames and bad | does reuse of a number confuse table, workers or handlers; does the server implement Connections? |
| server_lives | 2 connections, 2 descriptors, one of which others may take, 1 worker, incomplete frames and bad ones, `stop` or not | is everybody served and released, also when descriptors run out; what does `stop` leave, and does it return? |
| session_frames | all streams of up to 3 messages, `recv` of 1, 2, 7 or 16 bytes | is framing right for every cut? |
| handlers | 2 switches, 2 descriptors, 3 calls, 4 packets, a restart | do memory, disk and topology agree with the calls and the packets? |
| northbound | 2 clients, 1 thread and room for 1, 2 requests, keep-alive 2 | is every connection served and closed once; do the counters agree with responses and events? |
| server_stop_leaves, server_stop_dangles, session_traffic, handlers_keys, handlers_lldp, lifetime | as above | the six disagreements of section 6 |

Bounds, and why they are enough.

- *Pool.*  A lost wakeup needs a worker that sleeps while another one runs and jobs beyond
  these: two workers and four jobs have both, and one of the jobs ends the process.  For
  any number of workers the safety properties are proved.
- *Server.*  With three connections on two descriptors a number is used twice while the
  other is in use.  Two workers give the two sides of every race (the one that closes, the
  one that takes the reused number).  `MaxPending = 1`: a socket buffer holds one item at a
  time, and a switch may send without end; the items of one connection affect no other.
  Frames, which reach handlers, are in the run that asks about handlers; pieces of frames,
  after which a worker goes back to `recv`, in the one that asks whether it gets there.
  In `server_lives` a second connection must wait for the only worker; and when one
  connection is open and the rest of the process has the other descriptor (`Shared` is one
  of the two), none is free and the second waits in the backlog until the first is closed.
  In `server_safety` there are more connections than descriptors, and the two
  counterexamples need no shortage: their `Shared` is empty.  The liveness runs use no
  symmetry.
- *Session.*  `Base = 16`: a length field has its two bytes and its boundaries (0, 7, 8,
  255 for 65535), and frames of the largest length fit in a run.  The pieces include one
  byte, sizes that do not divide the header, and more than a frame.  The streams contain
  each good message followed by any two, good or malformed, and HELLO followed by a long
  one and any other.
- *Handlers.*  Three calls on two descriptors leave two on one descriptor and one beside
  them, and a restart gives a run without a past and one without a future.  The packets are
  a neighbor, the same with its items in another order and twice, one that makes the parser
  throw, and one that is not LLDP.  The parser itself is compared with its reference
  (`ParserAgrees`, evaluated when the run starts) on every body with up to five bytes out
  of the heads of the items that it tells apart, and on items of 255, 256, 511 and one byte
  less than their length.
- *Northbound.*  One thread for good and room for one: the second connection finds no idle
  thread and adds one, which times out, finishes, and is joined and added again.  Two
  requests are two on a connection or one on each, with scrape and count beside each other.
  Their kinds are a scrape, an event, an event that is answered 416 after it was enqueued, and
  a request that is refused with the same label and status before routing; the other kinds
  differ from these in their label only.
- *Lifetime.*  One worker is enough for the counterexample.
- *Deadlock* is checked for the pool and the handlers.  A server without work, a closed
  session, an interface that is down and a main that has returned really stop; those
  configurations say so.

Every property of a passing run is broken by the variant of the code that PROJECT.json
lists for it, under the same configuration.

### Fairness

`ThreadEnvironment`: weak fairness of each worker, of a pending notification, of
`NotifyAll` and `Join`.  These are threads that can run; critical sections are short.
Not assumed: that anyone calls `enqueue` or the destructor, or a spurious wakeup.  Jobs
return, which is the environment's part.  `Server`: weak fairness of the acceptor, of each
worker and of the steps of `stop` once it was called, and strong fairness of `Accept`:
`accept` may fail again and again, but not for ever while a connection waits and, time and
again, a descriptor is free.  `stop` gets the mutex under weak
fairness although others take it too, because after `running_` is false they soon stop
taking it.  Nothing is assumed of switches and of the rest of the process,
which may keep what it borrowed; `ReapsAll` holds if switches eventually leave,
and says so in its premise; `Served` has the premise that there are no more connections
than workers, without which it fails: a job keeps its worker until its switch leaves.
`Session`: weak fairness of `Ingest`, a loop that does not block.  `Northbound`: weak
fairness of the listener and of each thread; the wait of keep-alive ends with something to
read or with its timeout (httplib.h:5657), which is why a silent client does not hold its
thread.  Nobody has to connect or to send, accept need not fail, threads need not time out
and may not count on a spurious wakeup.  A response is written in the end or its writing
fails, for writes have a timeout as well.

## 4. What is proved

All theorems hold for every value of the constants under the named assumptions of the
modules (finite sets of jobs and threads, disjoint where they are names of different
things, `None` is no element of the others, `Shared` among the descriptors, `Base` above
the largest message type, bytes below `Base`, packets are sequences of bytes).  Each
invariance is proved from an inductive invariant.

**ThreadEnvironment_proofs.**  `TypeCorrect`; `StopWakesAll`; `NoLostWakeup`, by counting:
an action that shortens the supply of wakeups shortens the queue as much, or leaves no
sleeper; `Drained` and `DestructorDrains` from `PoolInv`, which adds that the callables
queued or run were all submitted, that nothing early is lost, and that workers leave only
after stop; `PoolRefinement`: every step is a step of TaskPool or a stutter of it.
`AfterStopFiniteWork` and `JoinNeverStuck` are the two halves of termination that need no
fairness: once the destructor has notified all, each step of any thread lowers `Work` (the
submitters that have not called yet, the queue, the workers that have not left, ...), and a
worker that is waited for is in a call or about to take a job or to leave.

**Server_proofs.**  `TableInv` is the invariant: until `stop` has the mutex, jobs, workers
and acceptor name disjoint descriptors (`JobsOK`, `WorkersOK`, `AcceptorOK`), every open
socket has such an owner, or is in the table when its worker left because `running_` is
false (`SocketsOwned`), entries are about the sockets their keys name, except while a worker
holds the mutex between close and erase (`EntriesOK`), and no connection is named twice
(`NamesUnique`).  `OneOwner` alone is not inductive: whether a job's lookup finds the right
object depends on the table, and whether an insert overwrites one depends on who is between
close and erase.  From it: `OwnedOnce`, `TableAgrees`, `RightContext`, `PointersLive`,
`KeysFresh`.  `ClosedWithCause` adds `CauseInv`: a worker on its way to close has seen the
end of its own socket or holds the item that `ingest` refused.  `OneStaysOpen` adds
`LeftInv`, which takes over where `TableInv` ends: when `stop` gets the mutex every open
socket is in the table or with the acceptor that waits to enter it (`WhileClosing`, from
`SocketsOwned` and `EntriesOK`), so that after `StopClear` only that one can be open, and
with `running_` false the acceptor does not begin another turn (`AfterStop`).
`ClosingIsExclusive` holds at all times, `stop` or not: the mutex is held exactly by the
one thread that is between a close and the end of its critical section (`LockInv`); it is
the safe half of `StopReturns`.  `ServerImplements` is the refinement: until `stop` each step
is a step of Connections or a stutter of it.  It rests on `TableInv` where a handler is
entered (the object a pointer refers to is the one its descriptor names) and where a socket
is closed (no other worker has it, so none of its handlers is under way).

**Session_proofs.**  `TileInv` is TypeOK, FramesTile and CaughtUp together: the next frame
continues the tiling because the buffer is the received rest of the stream.  From it:
`Tiling`, `NothingWaits`, `Bounded`, `LoopTerminates`.  `LifecycleCorrect` states the three
facts of the past (a HELLO, a FEATURES after it, a frame after that) and proves how each
changes when one frame is appended.  `CutsDoNotMatter` relates two executions: `Reads` says
that a list of frames is what the bytes received so far hold, frame by frame in the state
that the frames before left, until nothing complete is left.  `OneReading` proves that
there is one such list at most (at the first difference both would have taken the same
frame in the same state), and `ReadInv` that what a session has dispatched is one; so
`recv` may cut a stream in any way and the handlers see the same.  The invariant needs
`MoreBehind`: bytes that arrive behind a complete frame leave it what it is.  `NoWayBack`
is what holds of the comment that *session_traffic* refutes.

**PacketHandlers_proofs.**  `TypeInv` adds that a worker in `addFlow` is there for the
last entry of its table (`InAddFlow`), `RunsGrow` that calls are ordered by run; with
`TableIsThisRun` they form `StoreInv`.  From it: `TablesAreThisRun`, `DatabaseCorrect`,
`PendingIsInFlight`, `GreetedKeepHit`; `TopologyIsLatest` needs the types alone.
`ReportsAreRead` is `ParserReadsItems` for packets of any length: what a handler reports
was parsed from some packet, and the rest is `ParserIsRight`.  `HandlersAreServed` and
`HandlersAdmit` are the other side of Connections: between two starts of the process the
connections of this model are those of Connections, and it lets one be opened or closed
whenever Connections does.  With `ServerImplements`, what the stores assume of connections
is what the server provides, and is no assumption about the code any more.  Three theorems
bound the findings of section 6.  `OnlyReuseMixes`: under the hypothesis `SameSwitchAgain`,
that a descriptor on which a switch greeted is never given to another switch in the same
run, no table mixes switches, and of the rows under a key those that one run added are of
one switch (`CallsOfOneSwitch`, `RowsOfARun`).  Rows outlive the run, and a later run may add
rows of another switch under the same key.  `BridgeLLDPNeverLinks` and
`TopologyStaysEmpty`: for packets of any bytes, an LLDP frame to the address that bridges
use never gives a link, since where `isLLDP` looks it has the middle of that address.

**Promises_proofs.**  What the two abstract specifications come to.  For TaskPool, from
`PoolInv`: `EachJobOnce`, `NoJobLost`, `FirstInFirstOut`; both pools implement TaskPool, so
these are promises of theirs.  For Connections, from `ConnsInv`: `OneHandlerEach`,
`ContextKept`.

**Lifetime_proofs.**  `OnlyAfterNbiThrows` bounds the finding *lifetime* of section 6: a
worker uses what is destroyed only while main destroys its objects with the port open, and
the port is opened by the last step of `SouthBoundInterface::init`, so that only a throwing
`nbi.init` leads there.  `LifeInv` says which objects there are at each step of main and
that workers are busy only when there is an acceptor.

**LLDPParser_proofs.**  `TurnStaysInside`: on a body of any bytes, a turn of the loop makes
its texts of bytes of the body and leaves the offset in it, whatever lengths are claimed;
`TurnConsumes`: a turn after which the loop goes on has consumed two bytes at least, so
that a body of n bytes has fewer than n turns.  `ParserIsRight`: on every sequence of bytes
that `isLLDP` accepts, `parse` ends and agrees with `Items`, the reading without a loop
(`ParseAgrees`).  This is an induction over the length of the body.  The induction rules of
the library take an operator as parameter, which the provers cannot instantiate; so
`LeastNumber` is derived from the library's well-foundedness of the numbers, a statement
about sets, and `AllNumbers` and `EachNumber` follow from it.  With them it is proved that
the recursive functions of the module exist and obey their rules (`AfterRule`,
`ItemsRule`), that items do not overlap (`ItemsApart`), and that each turn keeps `LoopInv`:
what the neighbor holds is what the items before the offset say.

**Northbound_proofs.**  `TypeInv` has the types and that `idle_thread_count_` is the number
of threads in wait (`IdleCounted`), through timeouts and shutdown; `OwnInv` that queue,
listener and threads hold open sockets, no two the same, that no open one is without a
holder, and that when the pool is down it is empty (`Owning`, `Ending`).  From them:
`TypeCorrect`, `OwnedOnce`, `Accounted` (a response is counted before it is written; an
event is handed over before its request is counted, as 202 or as 416, so that the two
counters bracket the events; a 416 may be a request that never reached the handler),
`ScrapeCovers` (from the same counting: what is answered was counted), `PoolRefinement`
(each step is a step of TaskPool or a stutter of it; a thread that retires on a timeout has
no job and is not "retired" in the sense of TaskPool, for its place may be taken again).
The rest is what can be proved of `NothingHangs`.  `ServesFiniteShare`: each step of a
thread on a connection lowers `Todo`, which counts the requests that
`keep_alive_max_count_` still allows.  `ShutdownWakesAll`, `ShutdownNeverStuck` and
`ShutdownFiniteWork`: after the notify_all of `shutdown` nobody sleeps, whoever is waited
for can go on, and what the pool does lowers `PoolWork`, dynamic threads included.

**Only model-checked.**  Liveness under fairness is outside the prover:
`EveryEarlyJobRuns`, `DestructorTerminates`, `ReapsAll`, `Served`, `StopReturns`,
`IngestReturns`, `NothingHangs`.  Of `DestructorTerminates`, `IngestReturns` and
`NothingHangs` the measure that falls and, for the two pools, that nobody waits for a
sleeper is proved (`AfterStopFiniteWork`, `JoinNeverStuck`, `LoopTerminates`,
`ServesFiniteShare`, `ShutdownFiniteWork`, `ShutdownNeverStuck`); what TLC alone shows is
that fair threads therefore get to the end.  And the refuted statements of section 6.

## 5. What the models leave out

- Contents of messages beyond type, length and what a validator reads; logging.
- Memory of the C++ program other than the pointer into `connections_`; exceptions of
  allocation.
- In Server: several `listen` calls on one object; the destruction of the object, which is
  in Lifetime; the order and the number of entries in `event_queue_`.
- In PacketHandlers: rows are never lost by SQLite after an INSERT returned; the table
  `flows` exists (the failure of `sqlite3_open` leaves every INSERT failing, a case of
  `SaveFlow`).
- In Northbound: what a request contains beyond its kind; threads that cannot be started;
  `Server::stop` of httplib, which nobody calls; the jobs of `nbi_thread_env`, which are
  those of ThreadEnvironment and do nothing.
- In Lifetime: how connections are handled, which is in Server.
- `Server`, `Session` and `PacketHandlers` are checked apart.  Between Server and
  PacketHandlers stands Connections; between Server and Session the property `OneOwner`,
  and the frame and the descriptor that `HandlerContext` is about.  Connections ends with
  `stop`: after it a worker may use a pointer that dangles (*server_stop_dangles*), and
  nothing is promised to its handlers.

## 6. Disagreements between the code and what it says of itself

- *server_stop_leaves.*  "Stops the server and closes all active connections."
  (OpenFlowLib.h:427).  `stop` detaches the acceptor and closes what is in the table at
  that moment; a connection accepted or entered later stays open.  At most one is left
  (`AtMostOneLeft`).
- *server_stop_dangles.*  The class is called "thread-safe" (OpenFlowLib.h:406); `stop`
  clears the table under workers that use their pointers into it.
- *session_traffic.*  "Switches start at CONNECTED and must exchange HELLO and FEATURES
  before becoming ACTIVE for general traffic." (OpenFlowLib.h:91-92).  Every valid frame is
  dispatched in every state.  The other direction holds: after the handshake every frame is
  dispatched in ACTIVE (`NoWayBack`).
- *handlers_keys.*  "Key: Datapath ID (Switch ID) -> Value: List of FlowEntries"
  (FlowManager.hpp:43).  The key is the descriptor, and tables outlive connections.  Nothing
  else mixes switches in a table (`OnlyReuseMixes`).
- *handlers_lldp.*  "Total mandatory body: 10 bytes + RAW_DATA" (BodyValidator.hpp:35), and
  "Sent OpenFlow PACKET_IN containing LLDP frame" (tests/send_msg.ps1:60).  `isLLDP` looks
  for the EtherType at byte 12 of the body and not of the frame (LLDPParser.hpp:39): that
  packet is looked up in the flow table and its neighbor is not seen.  That is so for every
  such frame (`BridgeLLDPUnseen`), so that bridges alone never give a link.
- *lifetime.*  "these will be long-lived since the main scope is the entire application
  lifetime" (index.cpp:69-71).  The services are made last and destroyed first; when the
  northbound thread cannot be started (App.cpp:29), `run` catches, main returns, and a
  worker of the open southbound port is in a service that is gone.

## 7. Plan

Done: both pools, the server, sessions, handlers with their stores and the parser, the
northbound interface, the lifetime of main's objects, the composition of server and
handlers through Connections, and the theorems above.

What could follow.

1. *Session below Connections*: the framing loop as an implementation of one call of a
   handler per frame, so that Server, Session and PacketHandlers form one chain.
2. *TaskQueue* and *send_frame*, when the program gets a consumer or a sender.
