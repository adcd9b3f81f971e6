---------------------------- MODULE PacketHandlers ----------------------------
(***************************************************************************)
(* The handlers of src/api/SouthBoundInterface/Classes/PacketHandlers.hpp  *)
(* that setupProtocolEvents registers (SBI.hpp:77-94), and the services    *)
(* they call: FlowManager, DatabaseService and TopologyManager.            *)
(*                                                                         *)
(* The handlers of different connections run on different workers at the   *)
(* same time; one connection has one worker (OneOwner of Server) and hands *)
(* its frames to the handlers one after another.  A handler's critical     *)
(* sections (the mutexes of FlowManager and TopologyManager, one INSERT)   *)
(* are its steps.  The process may end between any two of them, and starts *)
(* again with the database it left.  Handlers that change nothing, that of *)
(* FLOW_REMOVED and those of messages nobody registered one for (FLOW_MOD  *)
(* among them), are stuttering steps.                                      *)
(***************************************************************************)
EXTENDS LLDPParser

CONSTANTS
  Switches,     \* the switches
  Fds,          \* the descriptors of accepted sockets: the keys of all tables
  Packets,      \* the bodies of the PACKET_IN messages they send
  MaxCalls,     \* bound: calls of addFlow in a behaviour
  MaxRestarts,  \* bound: times the process ends and is started again
  None          \* no switch, no neighbor

Readable   == {p \in Packets : isLLDP(p) /\ parse(p).end = "returned"}
Unreadable == {p \in Packets : isLLDP(p) /\ parse(p).end = "thrown"}
NoLLDP     == {p \in Packets : ~isLLDP(p)}

\* Mutant: the two identifiers, both strings, are handed over the wrong way round.
ReportsSwapped ==
  {[read |-> [chassis |-> parse(p).port_id, port |-> parse(p).chassis_id],
    said |-> [chassis |-> LastValue(p, CHASSIS_ID, 1), port |-> LastValue(p, PORT_ID, 1)]] :
     p \in Readable}

\* Of each readable packet the neighbor that is handed to updateLink and the one
\* that the format has in it.
Reports ==
  {[read |-> [chassis |-> parse(p).chassis_id, port |-> parse(p).port_id],
    said |-> [chassis |-> LastValue(p, CHASSIS_ID, 1), port |-> LastValue(p, PORT_ID, 1)]] :
     p \in Readable}

Neighbors == {r.read : r \in Reports}

ASSUME HandlersAssumption ==
  /\ None \notin Switches /\ None \notin Reports
  /\ Packets \subseteq Seq(Byte)
  /\ MaxCalls \in Nat
  /\ MaxRestarts \in Nat

VARIABLES
  sock,      \* sock[f]: the switch behind descriptor f
  pc,        \* pc[f]: the worker of f is in "recv", or in addFlow before its
             \*   call of saveFlow, "save"
  tables,    \* FlowManager::tables
  links,     \* TopologyManager::links
  db,        \* the rows of the table flows, in the order of their ids
  run,       \* how often the process was started again
  calls,     \* history: the calls of addFlow, in the order of their push_back:
             \*   descriptor, switch, run, and what became of the INSERT
  greeted,   \* history: descriptors whose present connection had its HELLO
             \*   entered in the flow table
  reported,  \* history: the last report from a descriptor in this run
  routed     \* history: the packets that were looked up in a flow table

storeVars   == <<tables, db, calls>>
topoVars    == <<links, reported, routed>>
sessionVars == <<sock, pc, greeted>>
vars == <<sessionVars, storeVars, topoVars, run>>

\* The flow of the HELLO handler.
HelloFlow == [in_port |-> 1, action_output_port |-> 2]

\* An entry of a flow table; which call of addFlow made it is history.
Entry(n) == [flow |-> HelloFlow, call |-> n]

Init ==
  /\ sock = [f \in Fds |-> None]
  /\ pc = [f \in Fds |-> "recv"]
  /\ tables = [f \in Fds |-> <<>>]
  /\ links = <<>>
  /\ db = <<>>
  /\ run = 0
  /\ calls = <<>>
  /\ greeted = {}
  /\ reported = [f \in Fds |-> None]
  /\ routed = {}

-----------------------------------------------------------------------------
(* The connections, as Server hands them to the handlers.                  *)

Connect(s, f) ==
  /\ sock[f] = None
  /\ sock' = [sock EXCEPT ![f] = s]
  /\ UNCHANGED <<pc, greeted, storeVars, topoVars, run>>

\* Mutant: the connection is closed in the middle of a handler, which ends.
CloseEarly(f) ==
  /\ sock[f] # None
  /\ sock' = [sock EXCEPT ![f] = None]
  /\ pc' = [pc EXCEPT ![f] = "recv"]
  /\ greeted' = greeted \ {f}
  /\ UNCHANGED <<storeVars, topoVars, run>>

\* Mutant: the descriptor is closed, and the handler goes on.
CloseUnderHandler(f) ==
  /\ sock[f] # None
  /\ sock' = [sock EXCEPT ![f] = None]
  /\ greeted' = greeted \ {f}
  /\ UNCHANGED <<pc, storeVars, topoVars, run>>

\* The worker closes the descriptor; no service is told.
Close(f) ==
  /\ sock[f] # None
  /\ pc[f] = "recv"
  /\ sock' = [sock EXCEPT ![f] = None]
  /\ greeted' = greeted \ {f}
  /\ UNCHANGED <<pc, storeVars, topoVars, run>>

-----------------------------------------------------------------------------
(* FlowManager and DatabaseService.                                        *)

\* Mutant: the new entry is put before the others.
HelloFront(f) ==
  /\ sock[f] # None /\ pc[f] = "recv"
  /\ Len(calls) < MaxCalls
  /\ calls' = Append(calls, [fd |-> f, by |-> sock[f], run |-> run, insert |-> "pending"])
  /\ tables' = [tables EXCEPT ![f] = <<Entry(Len(calls) + 1)>> \o @]
  /\ pc' = [pc EXCEPT ![f] = "save"]
  /\ greeted' = greeted \cup {f}
  /\ UNCHANGED <<sock, db, topoVars, run>>

\* The HELLO handler calls addFlow, which enters the flow under the mutex ...
Hello(f) ==
  /\ sock[f] # None /\ pc[f] = "recv"
  /\ Len(calls) < MaxCalls
  /\ calls' = Append(calls, [fd |-> f, by |-> sock[f], run |-> run, insert |-> "pending"])
  /\ tables' = [tables EXCEPT ![f] = Append(@, Entry(Len(calls) + 1))]
  /\ pc' = [pc EXCEPT ![f] = "save"]
  /\ greeted' = greeted \cup {f}
  /\ UNCHANGED <<sock, db, topoVars, run>>

\* The call of addFlow that the worker of f is in.
Current(f) == tables[f][Len(tables[f])].call

\* Mutant: after the INSERT the worker calls saveFlow once more.
SaveFlowAgain(f) ==
  /\ pc[f] = "save"
  /\ db' = Append(db, [dpid |-> f, flow |-> HelloFlow, call |-> Current(f)])
  /\ calls' = [calls EXCEPT ![Current(f)].insert = "done"]
  /\ pc' = pc
  /\ UNCHANGED <<sock, greeted, tables, topoVars, run>>

\* ... and then, without it, saveFlow inserts the row or logs an error.
SaveFlow(f) ==
  /\ pc[f] = "save"
  /\ \/ /\ db' = Append(db, [dpid |-> f, flow |-> HelloFlow, call |-> Current(f)])
        /\ calls' = [calls EXCEPT ![Current(f)].insert = "done"]
     \/ /\ calls' = [calls EXCEPT ![Current(f)].insert = "failed"]
        /\ UNCHANGED db
  /\ pc' = [pc EXCEPT ![f] = "recv"]
  /\ UNCHANGED <<sock, greeted, tables, topoVars, run>>

\* Mutant: the other port of the flow is compared.
HasMatchOut(f, port) ==
  \E i \in DOMAIN tables[f] : tables[f][i].flow.action_output_port = port

\* hasMatch, which decides between the two branches for a PACKET_IN.
hasMatch(f, port) ==
  \E i \in DOMAIN tables[f] : tables[f][i].flow.in_port = port

-----------------------------------------------------------------------------
(* TopologyManager.                                                        *)

\* Mutant: links are told apart by their port alone.
SameLinkByPort(link, f, port) == link.src_port = port

SameLink(link, f, port) == link.src_fd = f /\ link.src_port = port

\* updateLink: the first link from this port is changed, or one is added.
updateLink(f, port, n) ==
  LET known == {i \in DOMAIN links : SameLink(links[i], f, port)} IN
    \/ \E i \in known :
         /\ \A j \in known : i <= j
         /\ links' = [links EXCEPT ![i].dst = n]
    \/ /\ known = {}
       /\ links' = Append(links, [src_fd |-> f, src_port |-> port, dst |-> n])

\* The PACKET_IN handler, when the packet is taken for LLDP and can be read.
PacketIn(f) ==
  /\ sock[f] # None /\ pc[f] = "recv"
  /\ \E r \in Reports :
       /\ updateLink(f, "1", r.read)
       /\ reported' = [reported EXCEPT ![f] = r]
  /\ UNCHANGED <<sessionVars, storeVars, routed, run>>

\* Any other packet is looked up in the flow table; hit or miss is only printed.
PacketInRouted(f) ==
  /\ sock[f] # None /\ pc[f] = "recv"
  /\ \E p \in NoLLDP : routed' = routed \cup {p}
  /\ UNCHANGED <<sessionVars, storeVars, links, reported, run>>

-----------------------------------------------------------------------------
\* The process ends, whatever the workers are doing, and is started again.
Restart ==
  /\ run < MaxRestarts
  /\ run' = run + 1
  /\ sock' = [f \in Fds |-> None]
  /\ pc' = [f \in Fds |-> "recv"]
  /\ greeted' = {}
  /\ tables' = [f \in Fds |-> <<>>]
  /\ links' = <<>>
  /\ reported' = [f \in Fds |-> None]
  /\ UNCHANGED <<db, calls, routed>>

\* What parse throws nobody catches up to the pool's worker: the process ends.
PacketInThrows(f) ==
  /\ sock[f] # None /\ pc[f] = "recv"
  /\ Unreadable # {}
  /\ Restart

Next ==
  \/ \E s \in Switches, f \in Fds : Connect(s, f)
  \/ \E f \in Fds :
       \/ Close(f) \/ Hello(f) \/ SaveFlow(f)
       \/ PacketIn(f) \/ PacketInRouted(f) \/ PacketInThrows(f)
  \/ Restart

Spec == Init /\ [][Next]_vars

-----------------------------------------------------------------------------
Call == [fd : Fds, by : Switches, run : Nat, insert : {"pending", "done", "failed"}]

\* Types; an entry or a row names a call, and a worker is in a handler only
\* for a connection it has.
TypeOK ==
  /\ sock \in [Fds -> Switches \cup {None}]
  /\ pc \in [Fds -> {"recv", "save"}]
  /\ \A f \in Fds : pc[f] = "save" => sock[f] # None
  /\ calls \in Seq(Call)
  /\ tables \in [Fds -> Seq([flow : {HelloFlow}, call : 1 .. Len(calls)])]
  /\ db \in Seq([dpid : Fds, flow : {HelloFlow}, call : 1 .. Len(calls)])
  /\ links \in Seq([src_fd : Fds, src_port : {"1"}, dst : Neighbors])
  /\ reported \in [Fds -> Reports \cup {None}]
  /\ routed \subseteq Packets
  /\ greeted \subseteq {f \in Fds : sock[f] # None}
  /\ run \in Nat

\* A flow table holds what this run of the process entered on its descriptor,
\* in the order of the calls and each call once, whichever handlers run beside
\* it (FlowManager.hpp:51-55).
TableIsThisRun ==
  \A f \in Fds :
    /\ \A i, j \in DOMAIN tables[f] : i < j => tables[f][i].call < tables[f][j].call
    /\ \A n \in DOMAIN calls :
         (\E i \in DOMAIN tables[f] : tables[f][i].call = n)
           <=> (calls[n].fd = f /\ calls[n].run = run)

\* The database holds a row for exactly the calls whose INSERT went through,
\* one row each, with their descriptor, and for each descriptor in the order in
\* which the flow table had them, across restarts (FlowManager.hpp:58).
DatabaseIsHistory ==
  /\ \A i, j \in DOMAIN db : i < j /\ db[i].dpid = db[j].dpid => db[i].call < db[j].call
  /\ \A i \in DOMAIN db : db[i].dpid = calls[db[i].call].fd
  /\ \A n \in DOMAIN calls :
       calls[n].insert = "done" <=> \E i \in DOMAIN db : db[i].call = n

\* In a run memory and database differ by what failed and what is under way:
\* an INSERT that is pending has its worker in addFlow, on the last entry of
\* its table (FlowManager.hpp:52-58).  A crash loses no other INSERT.
OnlyInFlightPending ==
  \A n \in DOMAIN calls :
    (calls[n].insert = "pending" /\ calls[n].run = run)
      => LET f == calls[n].fd IN pc[f] = "save" /\ Current(f) = n

\* After its HELLO was entered, a connection's packets hit (PacketHandlers.hpp:49),
\* while flows are entered and switches come and go on other descriptors.
GreetedHits == \A f \in greeted : hasMatch(f, 1)

\* There is one link for each descriptor that reported a neighbor in this run,
\* and it names the last one reported (TopologyManager.hpp:30-45).
LinksAreLatest ==
  /\ \A f \in Fds : reported[f] # None =>
       \E i \in DOMAIN links : links[i].src_fd = f
  /\ \A i \in DOMAIN links :
       /\ reported[links[i].src_fd] # None
       /\ links[i].dst = reported[links[i].src_fd].read
  /\ \A i, j \in DOMAIN links : links[i].src_fd = links[j].src_fd => i = j

\* The topology is told what the packet says: of the items up to the end mark or
\* the first that is cut off, the last chassis and the last port, wherever they
\* stand and however long the items before them are (LLDPParser.hpp:50-76).
ParserReadsItems == \A f \in Fds : reported[f] # None => reported[f].read = reported[f].said

\* "Total mandatory body: 10 bytes + RAW_DATA" (BodyValidator.hpp:35): a packet
\* whose data are an LLDP frame is not looked up in a flow table.
FramesRecognised == \A p \in routed : ~(Len(p) >= 24 /\ Word(p, 22) = EtherType)

\* "Key: Datapath ID (Switch ID) -> Value: List of FlowEntries"
\* (FlowManager.hpp:43): the entries under one key are of one switch.
KeyIsSwitch ==
  \A f \in Fds : \A i, j \in DOMAIN tables[f] :
    calls[tables[f][i].call].by = calls[tables[f][j].call].by

=============================================================================
