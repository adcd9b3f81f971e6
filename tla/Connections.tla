----------------------------- MODULE Connections -----------------------------
(***************************************************************************)
(* What oflib::Server promises to the code that handles the frames of its  *)
(* connections, with no table, no pool and no mutex in sight:              *)
(*                                                                         *)
(*   - a descriptor names one connection at a time, and another one only   *)
(*     after it was closed;                                                *)
(*   - the handlers of a connection are called by one thread, one after    *)
(*     another, with the descriptor that names the connection;             *)
(*   - a descriptor is not closed while a handler of it is under way.      *)
(*                                                                         *)
(* Server implements this module until stop is called.  PacketHandlers     *)
(* implements it between two starts of the process, and lets connections   *)
(* be opened and closed whenever it does.                                  *)
(***************************************************************************)
CONSTANTS
  Peers,    \* the connections
  Fds,      \* the descriptors
  Runners,  \* the threads that call handlers
  None      \* no connection

VARIABLES
  sock,   \* sock[f]: the connection that descriptor f names
  under   \* under[f]: the handlers under way on f, each with the thread that
          \*   runs it and the connection that it works for

vars == <<sock, under>>

Init ==
  /\ sock = [f \in Fds |-> None]
  /\ under = [f \in Fds |-> {}]

Open(c, f) ==
  /\ sock[f] = None
  /\ sock' = [sock EXCEPT ![f] = c]
  /\ UNCHANGED under

Enter(w, f) ==
  /\ sock[f] # None
  /\ under[f] = {}
  /\ \A g \in Fds : \A h \in under[g] : h.by # w
  /\ under' = [under EXCEPT ![f] = {[by |-> w, of |-> sock[f]]}]
  /\ UNCHANGED sock

Leave(f) ==
  /\ under[f] # {}
  /\ under' = [under EXCEPT ![f] = {}]
  /\ UNCHANGED sock

Close(f) ==
  /\ sock[f] # None
  /\ under[f] = {}
  /\ sock' = [sock EXCEPT ![f] = None]
  /\ UNCHANGED under

Next ==
  \E f \in Fds :
    \/ \E c \in Peers : Open(c, f)
    \/ \E w \in Runners : Enter(w, f)
    \/ Leave(f)
    \/ Close(f)

=============================================================================
