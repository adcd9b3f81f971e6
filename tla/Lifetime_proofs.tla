--------------------------- MODULE Lifetime_proofs ---------------------------
(***************************************************************************)
(* When what the threads use exists, for any number of workers.  The run   *)
(* lifetime has a handler use a destroyed service; here is proved that it  *)
(* takes an exception thrown by nbi.init while the port is open.           *)
(***************************************************************************)
EXTENDS Lifetime, TLAPS

Services == {"flowManager", "dbService", "topoManager"}

\* A worker that has taken a switch and not left it.
Busy(w) == wpc[w] \in {"serving", "hello", "packet_in"}

\* There is no busy worker without the acceptor, and no acceptor before listen;
\* until main destroys its objects they are all there, once made, and the server
\* of a busy worker listens.
LifeInv ==
  /\ mpc \in {"construct", "sbi.init", "nbi.init", "sleep", "catch", "destroy"}
  /\ alive \in 0 .. 7
  /\ acceptor \in BOOLEAN
  /\ wpc \in [Workers -> {"none", "idle", "serving", "hello", "packet_in"}]
  /\ in \in [Workers -> Services \cup {None}]
  /\ \A w \in Workers : in[w] # None => wpc[w] \in {"hello", "packet_in"}
  /\ \A w \in Workers : Busy(w) => acceptor
  /\ mpc \in {"construct", "sbi.init"} => ~acceptor
  /\ mpc \notin {"construct", "destroy"} => alive = 7
  /\ acceptor /\ mpc # "destroy" => server = "listening"

\* The services are among the objects of main.
LEMMA AllLive ==
  ASSUME alive = 7, NEW o \in Services
  PROVE  Lives(o)
<1>1. Objects[5] = "flowManager" /\ Objects[6] = "dbService" /\ Objects[7] = "topoManager"
  BY DEF Objects
<1> QED  BY <1>1 DEF Lives, Services

LEMMA LifeInit == Init => LifeInv
<1> SUFFICES ASSUME Init PROVE LifeInv
  OBVIOUS
<1>1. acceptor \in BOOLEAN /\ ~acceptor
  BY DEF Init
<1>2. \A w \in Workers : ~Busy(w) /\ in[w] = None
  BY DEF Init, Busy
<1>3. /\ mpc = "construct" /\ alive \in 0 .. 7
      /\ wpc \in [Workers -> {"none", "idle", "serving", "hello", "packet_in"}]
      /\ in \in [Workers -> Services \cup {None}]
  BY DEF Init
<1> QED  BY <1>1, <1>2, <1>3 DEF LifeInv

\* The steps of the main thread.
LEMMA MainStep == LifeInv /\ Main => LifeInv'
<1> SUFFICES ASSUME LifeInv, Main PROVE LifeInv'
  OBVIOUS
<1> USE DEF LifeInv, Busy
<1>1. CASE Construct
  <2>1. Len(Objects) = 7
    BY DEF Objects
  <2> QED  BY <1>1, <2>1 DEF Construct
<1>2. CASE MakeServer
  BY <1>2 DEF MakeServer
<1>3. CASE Listen
  <2>1. \/ server' = "listening" /\ acceptor' = TRUE /\ mpc' = "nbi.init"
        \/ mpc' \in {"nbi.init", "catch"} /\ acceptor' = acceptor
    BY <1>3 DEF Listen
  <2>2. /\ mpc = "sbi.init" /\ ~acceptor /\ alive = 7
        /\ alive' = alive /\ wpc' = wpc /\ in' = in
    BY <1>3 DEF Listen
  <2>3. CASE server' = "listening" /\ acceptor' = TRUE /\ mpc' = "nbi.init"
    <3>1. acceptor' /\ acceptor' \in BOOLEAN
      BY <2>3
    <3> QED  BY <2>2, <2>3, <3>1
  <2>4. CASE mpc' \in {"nbi.init", "catch"} /\ acceptor' = acceptor
    BY <2>2, <2>4
  <2> QED  BY <2>1, <2>3, <2>4
<1>4. CASE NbiInit \/ Catch
  BY <1>4 DEF NbiInit, Catch
<1>5. CASE Destroy
  BY <1>5 DEF Destroy
<1>6. CASE StopServer
  BY <1>6 DEF StopServer
<1>7. CASE JoinPool
  BY <1>7 DEF JoinPool
<1> QED  BY <1>1, <1>2, <1>3, <1>4, <1>5, <1>6, <1>7 DEF Main

\* The steps of a worker.
LEMMA WorkerStep ==
  ASSUME None \notin Services, LifeInv, NEW w \in Workers, Worker(w)
  PROVE  LifeInv'
<1> USE DEF LifeInv, Busy
<1>1. CASE Serve(w)
  BY <1>1 DEF Serve
<1>2. CASE Handle(w)
  BY <1>2 DEF Handle
<1>3. CASE Call(w)
  <2>1. PICK o \in Services : in' = [in EXCEPT ![w] = o]
    BY <1>3 DEF Call, Called, Services
  <2> QED  BY <1>3, <2>1 DEF Call
<1>4. CASE Return(w)
  BY <1>4 DEF Return
<1>5. CASE Leave(w)
  BY <1>5 DEF Leave
<1> QED  BY <1>1, <1>2, <1>3, <1>4, <1>5 DEF Worker

\* A worker uses something destroyed only while main destroys its objects with
\* the port open: listen has succeeded, so what was thrown came from nbi.init.  An
\* exception before that, from the server's constructor or from listen, does no
\* harm, and neither does anything that happens as long as run has not returned.
THEOREM OnlyAfterNbiThrows ==
  ASSUME None \notin Services
  PROVE  Spec => [](~UsesWhatLives => mpc = "destroy" /\ acceptor)
<1>1. LifeInv /\ [Next]_vars => LifeInv'
  <2>1. LifeInv /\ UNCHANGED vars => LifeInv'
    BY DEF LifeInv, vars, Busy
  <2> QED  BY <2>1, MainStep, WorkerStep DEF Next
<1>2. LifeInv => (~UsesWhatLives => mpc = "destroy" /\ acceptor)
  <2> SUFFICES ASSUME LifeInv, NEW w \in Workers, mpc # "destroy" \/ ~acceptor
               PROVE  /\ in[w] # None => Lives(in[w])
                      /\ wpc[w] = "serving" => server \in {"listening", "stopped"}
    BY DEF UsesWhatLives
  <2>1. Busy(w) => server = "listening" /\ alive = 7
    BY DEF LifeInv
  <2>2. in[w] # None => Busy(w) /\ in[w] \in Services
    BY DEF LifeInv, Busy
  <2> QED  BY <2>1, <2>2, AllLive DEF Busy
<1> QED  BY <1>1, <1>2, LifeInit, PTL DEF Spec

=============================================================================
