------------------------------ MODULE Lifetime ------------------------------
(***************************************************************************)
(* The lifetime of the objects of main (src/index.cpp), which lie on its   *)
(* stack, against that of the threads App::run starts: the workers of the  *)
(* southbound server, which call the services through references, and its  *)
(* acceptor.                                                               *)
(*                                                                         *)
(* App::run catches every exception and returns; main then returns too and *)
(* destroys its objects, the last one first.  What can throw is the start  *)
(* of a thread, when the system has none left: in the constructor of the   *)
(* server, in its listen and in NorthBoundInterface::init, whose thread    *)
(* there is only if run never returns.  Thrown by the pools of main it is  *)
(* caught by nobody, and the process ends.                                 *)
(***************************************************************************)
EXTENDS Naturals, Sequences

CONSTANTS
  Workers,  \* the threads of the server's pool
  None      \* a worker that is in no service

\* The objects of main that the threads use, in the order they are made.
Objects == <<"nbi", "sbi", "sbi_thread_env", "nbi_thread_env",
             "flowManager", "dbService", "topoManager">>

VARIABLES
  mpc,       \* where the main thread is
  alive,     \* how many of Objects there are: the first ones
  server,    \* SouthBoundInterface::server_: "none", "made", "listening",
             \*   "stopped", or "joining" its pool with its own members gone
  acceptor,  \* the acceptor runs
  wpc,       \* wpc[w]: the worker is not there yet, "none", has no job, "idle",
             \*   serves a switch, "serving", or is in a handler
  in         \* in[w]: the service whose method the worker is in

vars == <<mpc, alive, server, acceptor, wpc, in>>

Init ==
  /\ mpc = "construct"
  /\ alive = 0
  /\ server = "none"
  /\ acceptor = FALSE
  /\ wpc = [w \in Workers |-> "none"]
  /\ in = [w \in Workers |-> None]

Lives(o) == \E i \in 1 .. alive : Objects[i] = o

-----------------------------------------------------------------------------
(* main and App::run.                                                      *)

Construct ==
  /\ mpc = "construct"
  /\ IF alive < Len(Objects)
     THEN alive' = alive + 1 /\ mpc' = mpc
     ELSE alive' = alive /\ mpc' = "sbi.init"
  /\ UNCHANGED <<server, acceptor, wpc, in>>

\* sbi.init makes the server with its pool; what is thrown for a thread after the
\* first one ends the process, as the threads before it are never joined ...
MakeServer ==
  /\ mpc = "sbi.init" /\ server = "none"
  /\ \/ /\ server' = "made"
        /\ wpc' = [w \in Workers |-> "idle"]
        /\ mpc' = mpc
     \/ mpc' = "catch" /\ UNCHANGED <<server, wpc>>
  /\ UNCHANGED <<alive, acceptor, in>>

\* ... and calls listen, which fails when the port is taken: that is printed.
Listen ==
  /\ mpc = "sbi.init" /\ server = "made"
  /\ \/ server' = "listening" /\ acceptor' = TRUE /\ mpc' = "nbi.init"
     \/ mpc' = "nbi.init" /\ UNCHANGED <<server, acceptor>>
     \/ mpc' = "catch" /\ UNCHANGED <<server, acceptor>>
  /\ UNCHANGED <<alive, wpc, in>>

\* nbi.init starts its thread and returns; run then sleeps for ever.
NbiInit ==
  /\ mpc = "nbi.init"
  /\ mpc' \in {"sleep", "catch"}
  /\ UNCHANGED <<alive, server, acceptor, wpc, in>>

\* The exception is logged, run and main return.
Catch ==
  /\ mpc = "catch"
  /\ mpc' = "destroy"
  /\ UNCHANGED <<alive, server, acceptor, wpc, in>>

\* The object made last is destroyed; the two pools of main have no job by then,
\* for nobody gives them one before nbi.init, and are joined at once.
Destroy ==
  /\ mpc = "destroy" /\ alive > 0
  /\ Objects[alive] = "sbi" => server = "none"
  /\ alive' = alive - 1
  /\ UNCHANGED <<mpc, server, acceptor, wpc, in>>

\* ~Server: stop, which detaches the acceptor; then its members, among them the
\* table and the event queue, before the pool; then the pool, which is joined.
StopServer ==
  /\ mpc = "destroy" /\ alive > 0 /\ Objects[alive] = "sbi"
  /\ server' = CASE server \in {"made", "listening"} -> "stopped"
                 [] server = "stopped" -> "joining"
                 [] OTHER -> server
  /\ server' # server
  /\ UNCHANGED <<mpc, alive, acceptor, wpc, in>>

JoinPool ==
  /\ server = "joining"
  /\ \A w \in Workers : wpc[w] = "idle"
  /\ server' = "none"
  /\ wpc' = [w \in Workers |-> "none"]
  /\ UNCHANGED <<mpc, alive, acceptor, in>>

Main == Construct \/ MakeServer \/ Listen \/ NbiInit \/ Catch \/ Destroy \/ StopServer \/ JoinPool

-----------------------------------------------------------------------------
(* The workers of the server.                                              *)

\* The acceptor hands a switch to a worker, which serves it while running_.
Serve(w) ==
  /\ acceptor /\ server = "listening"
  /\ wpc[w] = "idle"
  /\ wpc' = [wpc EXCEPT ![w] = "serving"]
  /\ UNCHANGED <<mpc, alive, server, acceptor, in>>

\* A HELLO or a PACKET_IN was read.
Handle(w) ==
  /\ wpc[w] = "serving"
  /\ wpc' = [wpc EXCEPT ![w] = "hello"] \/ wpc' = [wpc EXCEPT ![w] = "packet_in"]
  /\ UNCHANGED <<mpc, alive, server, acceptor, in>>

\* The services whose methods run in a handler, those that others call among them.
Called(h) == IF h = "hello" THEN {"flowManager", "dbService"} ELSE {"flowManager", "topoManager"}

Call(w) ==
  /\ wpc[w] \in {"hello", "packet_in"} /\ in[w] = None
  /\ \E o \in Called(wpc[w]) : in' = [in EXCEPT ![w] = o]
  /\ UNCHANGED <<mpc, alive, server, acceptor, wpc>>

Return(w) ==
  /\ in[w] # None
  /\ in' = [in EXCEPT ![w] = None]
  /\ wpc' = [wpc EXCEPT ![w] = "serving"]
  /\ UNCHANGED <<mpc, alive, server, acceptor>>

\* The switch is gone, or the loop finds running_ false.
Leave(w) ==
  /\ wpc[w] = "serving"
  /\ wpc' = [wpc EXCEPT ![w] = "idle"]
  /\ UNCHANGED <<mpc, alive, server, acceptor, in>>

Worker(w) == Serve(w) \/ Handle(w) \/ Call(w) \/ Return(w) \/ Leave(w)

Next == Main \/ \E w \in Workers : Worker(w)

Spec == Init /\ [][Next]_vars

-----------------------------------------------------------------------------
\* "these will be long-lived since the main scope is the entire application
\* lifetime" (index.cpp:69-71): what a worker uses exists, the service whose method
\* it is in and, while it serves a switch, the server's own members.
UsesWhatLives ==
  \A w \in Workers :
    /\ in[w] # None => Lives(in[w])
    /\ wpc[w] = "serving" => server \in {"listening", "stopped"}

=============================================================================
