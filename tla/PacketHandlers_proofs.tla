------------------------ MODULE PacketHandlers_proofs ------------------------
(***************************************************************************)
(* The services behind the handlers, for any number of switches,           *)
(* descriptors, calls and restarts: the tables are of this run, the rows   *)
(* of calls that returned, the links of packets that were read.            *)
(***************************************************************************)
EXTENDS PacketHandlers, LLDPParser_proofs, SequenceTheorems, TLAPS

-----------------------------------------------------------------------------
(* Types.                                                                  *)

\* The types, apart from what ties them together.
Entries(n) == [flow : {HelloFlow}, call : 1 .. n]
Rows(n)    == [dpid : Fds, flow : {HelloFlow}, call : 1 .. n]

\* More calls leave entries and rows what they are.
LEMMA MoreCalls ==
  ASSUME NEW n \in Nat, NEW s
  PROVE  /\ s \in Seq(Entries(n)) => s \in Seq(Entries(n + 1))
         /\ s \in Seq(Rows(n)) => s \in Seq(Rows(n + 1))
<1>1. Entries(n) \subseteq Entries(n + 1) /\ Rows(n) \subseteq Rows(n + 1)
  BY DEF Entries, Rows
<1> QED  BY <1>1

\* A worker in addFlow has an entry for the call it is in.
InAddFlow ==
  \A f \in Fds : pc[f] = "save" =>
    /\ tables[f] # <<>>
    /\ calls[Current(f)].insert = "pending" /\ calls[Current(f)].fd = f

\* What Current is.
LEMMA CurrentIsCall ==
  ASSUME TypeOK, InAddFlow, NEW f \in Fds, pc[f] = "save"
  PROVE  /\ Current(f) \in 1 .. Len(calls)
         /\ Len(tables[f]) \in DOMAIN tables[f]
         /\ tables[f][Len(tables[f])].call = Current(f)
<1>1. tables[f] \in Seq([flow : {HelloFlow}, call : 1 .. Len(calls)]) /\ tables[f] # <<>>
  BY DEF TypeOK, InAddFlow
<1>2. Len(tables[f]) \in 1 .. Len(tables[f]) /\ DOMAIN tables[f] = 1 .. Len(tables[f])
  BY <1>1
<1>3. tables[f][Len(tables[f])] \in [flow : {HelloFlow}, call : 1 .. Len(calls)]
  BY <1>1, <1>2, ElementOfSeq
<1> QED  BY <1>2, <1>3 DEF Current

\* updateLink keeps the list of links a list of links.
LEMMA LinksType ==
  ASSUME TypeOK, NEW f \in Fds, NEW n \in Neighbors, updateLink(f, "1", n)
  PROVE  links' \in Seq([src_fd : Fds, src_port : {"1"}, dst : Neighbors])
<1> DEFINE known == {i \in DOMAIN links : SameLink(links[i], f, "1")}
<1>1. links \in Seq([src_fd : Fds, src_port : {"1"}, dst : Neighbors])
  BY DEF TypeOK
<1>2. ASSUME NEW i \in known, links' = [links EXCEPT ![i].dst = n]
      PROVE  links' \in Seq([src_fd : Fds, src_port : {"1"}, dst : Neighbors])
  <2>1. i \in 1 .. Len(links) /\ links[i] \in [src_fd : Fds, src_port : {"1"}, dst : Neighbors]
    <3>1. i \in DOMAIN links /\ DOMAIN links = 1 .. Len(links)
      BY <1>1
    <3> QED  BY <1>1, <3>1, ElementOfSeq
  <2>2. [links[i] EXCEPT !.dst = n] \in [src_fd : Fds, src_port : {"1"}, dst : Neighbors]
    BY <2>1
  <2> QED  BY <1>1, <1>2, <2>1, <2>2
<1>3. ASSUME links' = Append(links, [src_fd |-> f, src_port |-> "1", dst |-> n])
      PROVE  links' \in Seq([src_fd : Fds, src_port : {"1"}, dst : Neighbors])
  BY <1>1, <1>3
<1> QED  BY <1>2, <1>3 DEF updateLink

TypeInv == TypeOK /\ InAddFlow

\* Types are kept, and with them that a worker in addFlow has its entry.
LEMMA TypeStep == TypeInv /\ [Next]_vars => TypeInv'
<1> SUFFICES ASSUME TypeOK, InAddFlow, [Next]_vars PROVE TypeOK' /\ InAddFlow'
  BY DEF TypeInv
<1>1. ASSUME NEW s \in Switches, NEW f \in Fds, Connect(s, f) PROVE TypeOK' /\ InAddFlow'
  BY <1>1 DEF TypeOK, InAddFlow, Connect, storeVars, topoVars, Current
<1>2. ASSUME NEW f \in Fds, Close(f) PROVE TypeOK' /\ InAddFlow'
  BY <1>2 DEF TypeOK, InAddFlow, Close, storeVars, topoVars, Current
<1>3. ASSUME NEW f \in Fds, Hello(f) PROVE TypeOK' /\ InAddFlow'
  <2> DEFINE c == [fd |-> f, by |-> sock[f], run |-> run, insert |-> "pending"]
             m == Len(calls) + 1
  <2>1. calls \in Seq(Call) /\ c \in Call /\ m \in Nat /\ Len(calls) \in Nat
    BY <1>3 DEF TypeOK, Hello, Call
  <2>2. /\ calls' \in Seq(Call) /\ Len(calls') = m
        /\ \A i \in 1 .. Len(calls) : calls'[i] = calls[i]
        /\ calls'[m] = c
    BY <1>3, <2>1 DEF Hello
  <2>3. tables \in [Fds -> Seq(Entries(m))] /\ db \in Seq(Rows(m))
    BY <2>1, MoreCalls DEF TypeOK, Entries, Rows
  <2>4. Entry(m) \in Entries(m)
    BY <2>1 DEF Entry, Entries
  <2>5. tables' = [tables EXCEPT ![f] = Append(tables[f], Entry(m))]
    BY <1>3 DEF Hello
  <2>6. tables' \in [Fds -> Seq(Entries(m))]
    BY <2>3, <2>4, <2>5
  <2>7. TypeOK'
    BY <1>3, <2>1, <2>2, <2>3, <2>6 DEF TypeOK, Hello, Entries, Rows, topoVars
  <2>8. ASSUME NEW g \in Fds, pc'[g] = "save"
        PROVE  /\ tables'[g] # <<>>
               /\ calls'[Current(g)'].insert = "pending" /\ calls'[Current(g)'].fd = g
    <3>1. CASE g = f
      <4>1. tables'[g] = Append(tables[f], Entry(m)) /\ tables[f] \in Seq(Entries(m))
        BY <2>3, <2>5, <3>1
      <4>2. tables'[g] # <<>> /\ tables'[g][Len(tables'[g])] = Entry(m)
        BY <4>1
      <4>3. Current(g)' = m
        BY <4>2 DEF Current, Entry
      <4> QED  BY <2>2, <3>1, <4>2, <4>3
    <3>2. CASE g # f
      <4>1. pc[g] = "save" /\ tables'[g] = tables[g]
        BY <1>3, <2>5, <2>8, <3>2 DEF Hello, TypeOK
      <4>2. Current(g)' = Current(g)
        BY <4>1 DEF Current
      <4> QED  BY <2>2, <4>1, <4>2, CurrentIsCall DEF InAddFlow
    <3> QED  BY <3>1, <3>2
  <2> QED  BY <2>7, <2>8 DEF InAddFlow
<1>4. ASSUME NEW f \in Fds, SaveFlow(f) PROVE TypeOK' /\ InAddFlow'
  <2> DEFINE m == Current(f)
  <2>0. pc[f] = "save" /\ m \in 1 .. Len(calls) /\ calls \in Seq(Call) /\ db \in Seq(Rows(Len(calls)))
    BY <1>4, CurrentIsCall DEF SaveFlow, TypeOK, Rows
  <2>1. PICK r \in {"done", "failed"} : calls' = [calls EXCEPT ![m].insert = r]
    BY <1>4 DEF SaveFlow
  <2>2. calls[m] \in Call
    BY <2>0
  <2>3. [calls[m] EXCEPT !.insert = r] \in Call
    BY <2>2 DEF Call
  <2>4. calls' = [calls EXCEPT ![m] = [calls[m] EXCEPT !.insert = r]]
    BY <2>0, <2>1
  <2>5. /\ calls' \in Seq(Call) /\ Len(calls') = Len(calls)
        /\ \A i \in 1 .. Len(calls) : i # m => calls'[i] = calls[i]
    BY <2>0, <2>3, <2>4
  <2>6. db' \in Seq(Rows(Len(calls)))
    <3>1. [dpid |-> f, flow |-> HelloFlow, call |-> m] \in Rows(Len(calls))
      BY <2>0 DEF Rows
    <3>2. db' = db \/ db' = Append(db, [dpid |-> f, flow |-> HelloFlow, call |-> m])
      BY <1>4 DEF SaveFlow
    <3>3. db \in Seq(Rows(Len(calls)))
      BY <2>0
    <3> HIDE DEF m
    <3> QED  BY <3>1, <3>2, <3>3
  <2>7. TypeOK'
    BY <1>4, <2>5, <2>6 DEF TypeOK, SaveFlow, Rows, topoVars
  <2>8. ASSUME NEW g \in Fds, pc'[g] = "save"
        PROVE  /\ tables'[g] # <<>>
               /\ calls'[Current(g)'].insert = "pending" /\ calls'[Current(g)'].fd = g
    <3>1. g # f /\ pc[g] = "save" /\ tables' = tables
      BY <1>4, <2>8 DEF SaveFlow, TypeOK
    <3>2. Current(g)' = Current(g) /\ Current(g) \in 1 .. Len(calls)
      BY <3>1, CurrentIsCall DEF Current
    <3>3. calls[Current(g)].fd = g /\ calls[m].fd = f
      BY <2>0, <3>1 DEF InAddFlow
    <3> QED  BY <2>5, <3>1, <3>2, <3>3 DEF InAddFlow
  <2> QED  BY <2>7, <2>8 DEF InAddFlow
<1>5. ASSUME NEW f \in Fds, PacketIn(f) PROVE TypeOK' /\ InAddFlow'
  <2>1. PICK r \in Reports : updateLink(f, "1", r.read) /\ reported' = [reported EXCEPT ![f] = r]
    BY <1>5 DEF PacketIn
  <2>2. r.read \in Neighbors
    BY DEF Neighbors
  <2>3. links' \in Seq([src_fd : Fds, src_port : {"1"}, dst : Neighbors])
    BY <2>1, <2>2, LinksType
  <2> QED  BY <1>5, <2>1, <2>3 DEF TypeOK, InAddFlow, PacketIn, sessionVars, storeVars, Current
<1>6. CASE Restart
  BY <1>6 DEF TypeOK, InAddFlow, Restart
<1>7. CASE UNCHANGED vars
  BY <1>7 DEF TypeOK, InAddFlow, vars, sessionVars, storeVars, topoVars, Current
<1>8. ASSUME NEW f \in Fds, PacketInRouted(f) PROVE TypeOK' /\ InAddFlow'
  BY <1>8 DEF TypeOK, InAddFlow, PacketInRouted, NoLLDP, sessionVars, storeVars, Current
<1> QED  BY <1>1, <1>2, <1>3, <1>4, <1>5, <1>6, <1>7, <1>8 DEF Next, PacketInThrows


\* The types hold at the start.
LEMMA TypeInit == Init => TypeInv
BY DEF Init, TypeInv, TypeOK, InAddFlow, HandlersAssumption

\* Memory, database and topology keep their types.
THEOREM TypeCorrect == Spec => []TypeOK
<1>1. Spec => []TypeInv
  BY TypeInit, TypeStep, PTL DEF Spec
<1> QED  BY <1>1, PTL DEF TypeInv


-----------------------------------------------------------------------------
(* Memory.                                                                 *)

\* Time goes forward: the calls of a run come after those of the runs before.
RunsGrow ==
  /\ \A n \in DOMAIN calls : calls[n].run <= run
  /\ \A n, m \in DOMAIN calls : n <= m => calls[n].run <= calls[m].run

\* The steps that change no call's descriptor and run, nor any flow table.
SameCalls ==
  /\ DOMAIN calls' = DOMAIN calls
  /\ \A n \in DOMAIN calls :
       calls'[n].fd = calls[n].fd /\ calls'[n].run = calls[n].run

\* Saving a flow changes one call's outcome.
LEMMA SaveEffect ==
  ASSUME TypeInv, NEW f \in Fds, SaveFlow(f)
  PROVE  /\ SameCalls /\ UNCHANGED <<tables, run>>
         /\ pc[f] = "save" /\ pc' = [pc EXCEPT ![f] = "recv"]
         /\ Current(f) \in DOMAIN calls /\ calls[Current(f)].fd = f
         /\ calls[Current(f)].insert = "pending"
         /\ \A n \in DOMAIN calls : n # Current(f) => calls'[n] = calls[n]
         /\ \/ /\ calls'[Current(f)].insert = "done"
               /\ db' = Append(db, [dpid |-> f, flow |-> HelloFlow, call |-> Current(f)])
            \/ calls'[Current(f)].insert = "failed" /\ db' = db
<1> DEFINE m == Current(f)
<1>1. TypeOK /\ InAddFlow /\ pc[f] = "save" /\ calls \in Seq(Call)
  BY DEF TypeInv, SaveFlow, TypeOK
<1>2. m \in DOMAIN calls /\ m \in 1 .. Len(calls)
  BY <1>1, CurrentIsCall
<1>3. calls[m] \in Call
  BY <1>1, <1>2, ElementOfSeq
<1>4. ASSUME NEW r, calls' = [calls EXCEPT ![m].insert = r]
      PROVE  SameCalls /\ calls'[m].insert = r
             /\ \A n \in DOMAIN calls : n # m => calls'[n] = calls[n]
  <2>1. calls' = [calls EXCEPT ![m] = [calls[m] EXCEPT !.insert = r]]
    BY <1>4
  <2>2. calls'[m] = [calls[m] EXCEPT !.insert = r]
    BY <1>2, <2>1
  <2>3. calls'[m].insert = r /\ calls'[m].fd = calls[m].fd /\ calls'[m].run = calls[m].run
    BY <1>3, <2>2 DEF Call
  <2> QED  BY <2>1, <2>3 DEF SameCalls
<1> QED  BY <1>1, <1>2, <1>4 DEF SaveFlow, InAddFlow, topoVars

\* A HELLO appends a call to the history, and an entry for it to one table.
LEMMA HelloEffect ==
  ASSUME TypeInv, NEW f \in Fds, Hello(f)
  PROVE  /\ DOMAIN calls = 1 .. Len(calls) /\ Len(calls) \in Nat
         /\ DOMAIN calls' = 1 .. Len(calls) + 1
         /\ \A n \in DOMAIN calls : calls'[n] = calls[n]
         /\ calls'[Len(calls) + 1].fd = f /\ calls'[Len(calls) + 1].run = run
         /\ calls'[Len(calls) + 1].insert = "pending"
         /\ DOMAIN tables[f] = 1 .. Len(tables[f]) /\ Len(tables[f]) \in Nat
         /\ DOMAIN tables'[f] = 1 .. Len(tables[f]) + 1
         /\ \A i \in DOMAIN tables[f] : tables'[f][i] = tables[f][i]
                                         /\ tables[f][i].call \in 1 .. Len(calls)
         /\ tables'[f][Len(tables[f]) + 1].call = Len(calls) + 1
         /\ tables'[f][Len(tables[f]) + 1].flow = HelloFlow
         /\ \A g \in Fds : g # f => tables'[g] = tables[g]
         /\ UNCHANGED run
<1> DEFINE c == [fd |-> f, by |-> sock[f], run |-> run, insert |-> "pending"]
           m == Len(calls) + 1
<1>1. calls \in Seq(Call) /\ calls' = Append(calls, c)
  BY DEF TypeInv, TypeOK, Hello
<1>2. c \in Call
  BY DEF TypeInv, TypeOK, Hello, Call
<1>3. tables[f] \in Seq(Entries(Len(calls)))
  BY DEF TypeInv, TypeOK, Entries
<1>4. /\ tables'[f] = Append(tables[f], Entry(m))
      /\ \A g \in Fds : g # f => tables'[g] = tables[g]
  BY DEF TypeInv, TypeOK, Hello
<1>5. /\ DOMAIN tables[f] = 1 .. Len(tables[f]) /\ Len(tables[f]) \in Nat
      /\ DOMAIN tables'[f] = 1 .. Len(tables[f]) + 1
      /\ \A i \in DOMAIN tables[f] : tables'[f][i] = tables[f][i]
      /\ tables'[f][Len(tables[f]) + 1] = Entry(m)
  BY <1>3, <1>4
<1>6. \A i \in DOMAIN tables[f] : tables[f][i].call \in 1 .. Len(calls)
  <2>1. \A i \in DOMAIN tables[f] : tables[f][i] \in Entries(Len(calls))
    BY <1>3, <1>5, ElementOfSeq
  <2> QED  BY <2>1 DEF Entries
<1>7. /\ DOMAIN calls = 1 .. Len(calls) /\ Len(calls) \in Nat
      /\ DOMAIN calls' = 1 .. m
      /\ \A n \in DOMAIN calls : calls'[n] = calls[n]
      /\ calls'[m] = c
  BY <1>1, <1>2
<1>8. UNCHANGED run
  BY DEF Hello
<1>9. c.fd = f /\ c.run = run /\ c.insert = "pending"
  OBVIOUS
<1>10. Entry(m).call = m /\ Entry(m).flow = HelloFlow
  BY DEF Entry
<1> QED  BY <1>4, <1>5, <1>6, <1>7, <1>8, <1>9, <1>10

\* The order of runs is kept.
LEMMA RunsStep == TypeInv /\ RunsGrow /\ [Next]_vars => RunsGrow'
<1> SUFFICES ASSUME TypeInv, RunsGrow, [Next]_vars PROVE RunsGrow'
  OBVIOUS
<1>1. run \in Nat /\ \A n \in DOMAIN calls : calls[n].run \in Nat
  <2>1. calls \in Seq(Call) /\ run \in Nat
    BY DEF TypeInv, TypeOK
  <2>2. \A n \in DOMAIN calls : calls[n] \in Call
    BY <2>1, ElementOfSeq
  <2> QED  BY <2>1, <2>2 DEF Call
<1>2. ASSUME NEW f \in Fds, Hello(f) PROVE RunsGrow'
  <2> PICK m : m = Len(calls) + 1
    OBVIOUS
  <2>1. /\ DOMAIN calls' = 1 .. m /\ DOMAIN calls = 1 .. Len(calls) /\ Len(calls) \in Nat
        /\ \A n \in DOMAIN calls : calls'[n] = calls[n]
        /\ calls'[m].run = run /\ run' = run
    BY <1>2, HelloEffect
  <2>2. \A n \in 1 .. m : n \in DOMAIN calls \/ n = m
    BY <2>1
  <2>3. \A n \in 1 .. m : calls'[n].run <= run
    BY <1>1, <2>1, <2>2 DEF RunsGrow
  <2>4. \A n \in DOMAIN calls : ~(m <= n)
    BY <2>1
  <2> QED  BY <1>1, <2>1, <2>2, <2>3, <2>4 DEF RunsGrow
<1>3. ASSUME NEW f \in Fds, SaveFlow(f) PROVE RunsGrow'
  <2>1. SameCalls /\ UNCHANGED run
    BY <1>3, SaveEffect
  <2> QED  BY <2>1 DEF RunsGrow, SameCalls
<1>4. CASE Restart
  BY <1>1, <1>4 DEF RunsGrow, Restart
<1>5. CASE UNCHANGED <<calls, run>>
  BY <1>5 DEF RunsGrow
<1> QED  BY <1>2, <1>3, <1>4, <1>5
         DEF Next, Connect, Close, PacketIn, PacketInRouted, PacketInThrows, vars, storeVars

\* Flow tables hold the calls of this run.
LEMMA TableStep == TypeInv /\ RunsGrow /\ TableIsThisRun /\ [Next]_vars => TableIsThisRun'
<1> SUFFICES ASSUME TypeInv, RunsGrow, TableIsThisRun, [Next]_vars PROVE TableIsThisRun'
  OBVIOUS
<1>1. ASSUME NEW f \in Fds, Hello(f) PROVE TableIsThisRun'
  <2> PICK m : m = Len(calls) + 1
    OBVIOUS
  <2> PICK k : k = Len(tables[f]) + 1
    OBVIOUS
  <2>1. /\ DOMAIN calls = 1 .. Len(calls) /\ Len(calls) \in Nat /\ DOMAIN calls' = 1 .. m
        /\ \A n \in DOMAIN calls : calls'[n] = calls[n]
        /\ calls'[m].fd = f /\ calls'[m].run = run /\ run' = run
    BY <1>1, HelloEffect
  <2>2. /\ DOMAIN tables[f] = 1 .. Len(tables[f]) /\ Len(tables[f]) \in Nat
        /\ DOMAIN tables'[f] = 1 .. k
        /\ \A i \in DOMAIN tables[f] : tables'[f][i] = tables[f][i]
                                        /\ tables[f][i].call \in 1 .. Len(calls)
        /\ tables'[f][k].call = m
        /\ \A g \in Fds : g # f => tables'[g] = tables[g]
    BY <1>1, HelloEffect
  <2>3. ASSUME NEW n \in DOMAIN calls'
        PROVE  (n \in DOMAIN calls /\ n # m /\ calls'[n] = calls[n]) \/ (n = m /\ n \notin DOMAIN calls)
    BY <2>1
  <2>4. ASSUME NEW i \in DOMAIN tables'[f]
        PROVE  (i \in DOMAIN tables[f] /\ i # k) \/ (i = k /\ i \notin DOMAIN tables[f])
    BY <2>2
  <2>5. ASSUME NEW g \in Fds, g # f,
               NEW n \in DOMAIN calls'
        PROVE  (\E i \in DOMAIN tables'[g] : tables'[g][i].call = n)
                 <=> (calls'[n].fd = g /\ calls'[n].run = run')
    <3>1. tables'[g] = tables[g]
      BY <2>2, <2>5
    <3>2. CASE n \in DOMAIN calls
      BY <2>1, <3>1, <3>2 DEF TableIsThisRun
    <3>3. CASE n = m /\ n \notin DOMAIN calls
      <4>1. \A i \in DOMAIN tables[g] : tables[g][i].call \in DOMAIN calls
        <5>1. tables[g] \in Seq(Entries(Len(calls)))
          BY DEF TypeInv, TypeOK, Entries
        <5>2. \A i \in DOMAIN tables[g] : tables[g][i] \in Entries(Len(calls))
          BY <5>1, ElementOfSeq
        <5> QED  BY <2>1, <5>2 DEF Entries
      <4> QED  BY <2>1, <2>5, <3>1, <3>3, <4>1
    <3> QED  BY <2>3, <3>2, <3>3
  <2>6. ASSUME NEW n \in DOMAIN calls'
        PROVE  (\E i \in DOMAIN tables'[f] : tables'[f][i].call = n)
                 <=> (calls'[n].fd = f /\ calls'[n].run = run')
    <3>1. k \in DOMAIN tables'[f] /\ DOMAIN tables[f] \subseteq DOMAIN tables'[f]
      BY <2>2
    <3>2. CASE n = m
      BY <2>1, <2>2, <3>1, <3>2
    <3>3. CASE n \in DOMAIN calls /\ n # m /\ calls'[n] = calls[n]
      <4>1. (\E i \in DOMAIN tables'[f] : tables'[f][i].call = n)
              <=> (\E i \in DOMAIN tables[f] : tables[f][i].call = n)
        BY <2>2, <2>4, <3>1, <3>3
      <4> QED  BY <2>1, <3>3, <4>1 DEF TableIsThisRun
    <3> QED  BY <2>3, <3>2, <3>3
  <2>7. ASSUME NEW i \in DOMAIN tables'[f], NEW j \in DOMAIN tables'[f], i < j
        PROVE  tables'[f][i].call < tables'[f][j].call
    <3>1. i \in DOMAIN tables[f]
      BY <2>2, <2>7
    <3>2. CASE j \in DOMAIN tables[f]
      BY <2>2, <2>7, <3>1, <3>2 DEF TableIsThisRun
    <3>3. CASE j = k
      BY <2>1, <2>2, <3>1, <3>3
    <3> QED  BY <2>4, <3>2, <3>3
  <2>8. ASSUME NEW g \in Fds, g # f,
               NEW i \in DOMAIN tables'[g], NEW j \in DOMAIN tables'[g], i < j
        PROVE  tables'[g][i].call < tables'[g][j].call
    BY <2>2, <2>8 DEF TableIsThisRun
  <2> QED  BY <2>5, <2>6, <2>7, <2>8 DEF TableIsThisRun
<1>2. ASSUME NEW f \in Fds, SaveFlow(f) PROVE TableIsThisRun'
  <2>1. SameCalls /\ UNCHANGED <<tables, run>>
    BY <1>2, SaveEffect
  <2> QED  BY <2>1 DEF TableIsThisRun, SameCalls
<1>3. CASE Restart
  <2>1. \A n \in DOMAIN calls : calls[n].run # run + 1
    <3>1. \A n \in DOMAIN calls : calls[n].run <= run /\ calls[n] \in Call
      BY ElementOfSeq DEF TypeInv, TypeOK, RunsGrow
    <3> QED  BY <3>1 DEF Call, TypeInv, TypeOK
  <2> QED  BY <1>3, <2>1 DEF Restart, TableIsThisRun
<1>4. CASE UNCHANGED <<tables, calls, run>>
  BY <1>4 DEF TableIsThisRun
<1> QED  BY <1>1, <1>2, <1>3, <1>4
         DEF Next, Connect, Close, PacketIn, PacketInRouted, PacketInThrows, vars, storeVars

\* A flow table holds, in order, what this run entered on its descriptor.
THEOREM TablesAreThisRun == Spec => []TableIsThisRun
<1>1. Init => RunsGrow /\ TableIsThisRun
  BY DEF Init, RunsGrow, TableIsThisRun
<1> QED  BY <1>1, TypeInit, TypeStep, RunsStep, TableStep, PTL DEF Spec


-----------------------------------------------------------------------------
(* The database.                                                           *)

StoreInv == TypeInv /\ RunsGrow /\ TableIsThisRun

\* Domains, and what rows refer to.
LEMMA RowsReferToCalls ==
  ASSUME TypeInv
  PROVE  /\ DOMAIN calls = 1 .. Len(calls) /\ Len(calls) \in Nat
         /\ DOMAIN db = 1 .. Len(db) /\ Len(db) \in Nat
         /\ \A i \in DOMAIN db : db[i].call \in DOMAIN calls
<1>1. calls \in Seq(Call) /\ db \in Seq(Rows(Len(calls)))
  BY DEF TypeInv, TypeOK, Rows
<1>2. \A i \in DOMAIN db : db[i] \in Rows(Len(calls))
  BY <1>1, ElementOfSeq
<1>3. \A i \in DOMAIN db : db[i].call \in 1 .. Len(calls)
  BY <1>2 DEF Rows
<1> QED  BY <1>1, <1>3

\* The call that a worker is saving is later than every call of its descriptor.
LEMMA CurrentIsLatest ==
  ASSUME StoreInv, NEW f \in Fds, pc[f] = "save",
         NEW c \in DOMAIN calls, calls[c].fd = f
  PROVE  c <= Current(f)
<1> DEFINE m == Current(f)
           k == Len(tables[f])
<1>1. /\ m \in DOMAIN calls /\ k \in DOMAIN tables[f] /\ tables[f][k].call = m
      /\ DOMAIN calls = 1 .. Len(calls) /\ run \in Nat
  BY CurrentIsCall, RowsReferToCalls DEF StoreInv, TypeInv, TypeOK
<1>2. calls[m].run = run
  BY <1>1 DEF StoreInv, TableIsThisRun
<1>3. SUFFICES ASSUME m < c PROVE FALSE
  BY <1>1
<1>4. calls[c].run \in Nat
  <2>1. calls[c] \in Call
    BY ElementOfSeq DEF StoreInv, TypeInv, TypeOK
  <2> QED  BY <2>1 DEF Call
<1>5. calls[c].run = run
  <2>1. m <= c
    BY <1>1, <1>3
  <2>2. run <= calls[c].run /\ calls[c].run <= run
    BY <1>1, <1>2, <2>1 DEF StoreInv, RunsGrow
  <2> QED  BY <1>1, <1>4, <2>2
<1>6. PICK p \in DOMAIN tables[f] : tables[f][p].call = c
  BY <1>5 DEF StoreInv, TableIsThisRun
<1>7. DOMAIN tables[f] = 1 .. k /\ k \in Nat
  BY DEF StoreInv, TypeInv, TypeOK
<1>8. CASE p = k
  BY <1>1, <1>3, <1>6, <1>8
<1>9. CASE p < k
  <2>1. c < m
    BY <1>1, <1>6, <1>9 DEF StoreInv, TableIsThisRun
  <2> QED  BY <1>1, <1>3, <2>1
<1> QED  BY <1>6, <1>7, <1>8, <1>9

\* The database stays a record of the calls.
LEMMA DatabaseStep == StoreInv /\ DatabaseIsHistory /\ [Next]_vars => DatabaseIsHistory'
<1> SUFFICES ASSUME StoreInv, DatabaseIsHistory, [Next]_vars PROVE DatabaseIsHistory'
  OBVIOUS
<1> USE DEF StoreInv
<1>1. ASSUME NEW f \in Fds, Hello(f) PROVE DatabaseIsHistory'
  <2> PICK m : m = Len(calls) + 1
    OBVIOUS
  <2>1. /\ DOMAIN calls' = 1 .. m /\ calls'[m].insert = "pending"
        /\ \A n \in DOMAIN calls : calls'[n] = calls[n]
    BY <1>1, HelloEffect
  <2>2. db' = db
    BY <1>1 DEF Hello
  <2>3. /\ \A n \in 1 .. m : n \in DOMAIN calls \/ n = m
        /\ \A i \in DOMAIN db : db[i].call \in DOMAIN calls /\ db[i].call # m
    BY RowsReferToCalls
  <2>4. \A i \in DOMAIN db : db[i].dpid = calls'[db[i].call].fd
    BY <2>1, <2>3 DEF DatabaseIsHistory
  <2>5. ASSUME NEW n \in 1 .. m
        PROVE  calls'[n].insert = "done" <=> \E i \in DOMAIN db : db[i].call = n
    BY <2>1, <2>3 DEF DatabaseIsHistory
  <2> QED  BY <2>1, <2>2, <2>4, <2>5 DEF DatabaseIsHistory
<1>2. ASSUME NEW f \in Fds, SaveFlow(f) PROVE DatabaseIsHistory'
  <2> DEFINE m == Current(f)
             r == [dpid |-> f, flow |-> HelloFlow, call |-> m]
  <2>1. /\ DOMAIN calls' = DOMAIN calls
        /\ \A n \in DOMAIN calls : calls'[n].fd = calls[n].fd
        /\ m \in DOMAIN calls /\ calls[m].fd = f /\ calls[m].insert = "pending"
        /\ pc[f] = "save"
        /\ \A n \in DOMAIN calls : n # m => calls'[n] = calls[n]
    BY <1>2, SaveEffect DEF SameCalls
  <2>2. \A i \in DOMAIN db : db[i].call \in DOMAIN calls /\ db[i].call # m
    BY <2>1, RowsReferToCalls DEF DatabaseIsHistory
  <2>3. CASE calls'[m].insert = "failed" /\ db' = db
    <3>1. \A n \in DOMAIN calls :
            calls'[n].insert = "done" <=> \E i \in DOMAIN db : db[i].call = n
      BY <2>1, <2>2, <2>3 DEF DatabaseIsHistory
    <3> QED  BY <2>1, <2>2, <2>3, <3>1 DEF DatabaseIsHistory
  <2>4. CASE calls'[m].insert = "done" /\ db' = Append(db, r)
    <3> PICK k : k = Len(db) + 1
      OBVIOUS
    <3>0. db \in Seq(Rows(Len(calls))) /\ r \in Rows(Len(calls))
      BY <2>1, RowsReferToCalls DEF TypeInv, TypeOK, Rows
    <3>1. /\ DOMAIN db = 1 .. Len(db) /\ Len(db) \in Nat /\ DOMAIN db' = 1 .. k
          /\ \A i \in DOMAIN db : db'[i] = db[i]
          /\ db'[k] = r
      BY <2>4, <3>0
    <3>2. \A i \in 1 .. k : i \in DOMAIN db \/ i = k
      BY <3>1
    <3>3. k \in 1 .. k /\ DOMAIN db \subseteq 1 .. k /\ r.dpid = f /\ r.call = m
      BY <3>1
    <3>4. \A i \in 1 .. k : db'[i].dpid = calls'[db'[i].call].fd
      BY <2>1, <2>2, <3>1, <3>2, <3>3 DEF DatabaseIsHistory
    <3>5. ASSUME NEW n \in DOMAIN calls
          PROVE  calls'[n].insert = "done" <=> \E i \in 1 .. k : db'[i].call = n
      <4>1. CASE n = m
        BY <2>4, <3>1, <3>3, <4>1
      <4>2. CASE n # m
        <5>1. (\E i \in 1 .. k : db'[i].call = n) <=> (\E i \in DOMAIN db : db[i].call = n)
          BY <3>1, <3>2, <3>3, <4>2
        <5> QED  BY <2>1, <4>2, <5>1 DEF DatabaseIsHistory
      <4> QED  BY <4>1, <4>2
    <3>6. ASSUME NEW i \in 1 .. k, NEW j \in 1 .. k, i < j, db'[i].dpid = db'[j].dpid
          PROVE  db'[i].call < db'[j].call
      <4>1. i \in DOMAIN db
        BY <3>1, <3>6
      <4>2. CASE j \in DOMAIN db
        BY <3>1, <3>6, <4>1, <4>2 DEF DatabaseIsHistory
      <4>3. CASE j = k
        <5>1. db[i].dpid = f /\ db'[j].call = m
          BY <3>1, <3>3, <3>6, <4>1, <4>3
        <5>2. db[i].call \in DOMAIN calls /\ calls[db[i].call].fd = f /\ db[i].call # m
          BY <2>2, <4>1, <5>1 DEF DatabaseIsHistory
        <5>3. db[i].call <= m
          BY <2>1, <5>2, CurrentIsLatest
        <5>4. db[i].call \in Int /\ m \in Int
          BY <2>1, <5>2, RowsReferToCalls
        <5> QED  BY <3>1, <4>1, <5>1, <5>2, <5>3, <5>4
      <4> QED  BY <3>2, <4>2, <4>3
    <3>7. DOMAIN db' = 1 .. k /\ DOMAIN calls' = DOMAIN calls
      BY <2>1, <3>1
    <3> HIDE DEF m, r
    <3> QED  BY <3>4, <3>5, <3>6, <3>7 DEF DatabaseIsHistory
  <2> QED  BY <1>2, <2>3, <2>4, SaveEffect
<1>3. CASE UNCHANGED <<calls, db>>
  BY <1>3 DEF DatabaseIsHistory
<1> QED  BY <1>1, <1>2, <1>3
         DEF Next, Connect, Close, PacketIn, PacketInRouted, PacketInThrows, Restart, vars, storeVars

\* The database is the history of the calls whose INSERT went through.
THEOREM DatabaseCorrect == Spec => []DatabaseIsHistory
<1>1. Init => RunsGrow /\ TableIsThisRun /\ DatabaseIsHistory
  BY DEF Init, RunsGrow, TableIsThisRun, DatabaseIsHistory
<1> QED  BY <1>1, TypeInit, TypeStep, RunsStep, TableStep, DatabaseStep, PTL
         DEF Spec, StoreInv

\* What is pending in this run is being saved by the worker it belongs to.
THEOREM PendingIsInFlight == Spec => []OnlyInFlightPending
<1>1. Init => RunsGrow /\ TableIsThisRun /\ OnlyInFlightPending
  BY DEF Init, RunsGrow, TableIsThisRun, OnlyInFlightPending
<1>2. StoreInv /\ OnlyInFlightPending /\ [Next]_vars => OnlyInFlightPending'
  <2> SUFFICES ASSUME StoreInv, OnlyInFlightPending, [Next]_vars,
                      NEW n \in DOMAIN calls', calls'[n].insert = "pending",
                      calls'[n].run = run'
               PROVE  pc'[calls'[n].fd] = "save" /\ Current(calls[n].fd)' = n
    BY DEF OnlyInFlightPending
  <2> USE DEF StoreInv
  <2>0. pc \in [Fds -> {"recv", "save"}] /\ sock \in [Fds -> Switches \cup {None}]
    BY DEF TypeInv, TypeOK
  <2>1. ASSUME NEW f \in Fds, Hello(f)
        PROVE  pc'[calls'[n].fd] = "save" /\ Current(calls[n].fd)' = n
    <3> PICK m : m = Len(calls) + 1
      OBVIOUS
    <3>1. /\ DOMAIN calls' = 1 .. m /\ DOMAIN calls = 1 .. Len(calls) /\ Len(calls) \in Nat
          /\ calls'[m].fd = f /\ run' = run
          /\ \A i \in DOMAIN calls : calls'[i] = calls[i]
          /\ \A g \in Fds : g # f => tables'[g] = tables[g]
          /\ tables'[f][Len(tables[f]) + 1].call = m
          /\ Len(tables[f]) \in Nat /\ DOMAIN tables'[f] = 1 .. Len(tables[f]) + 1
      BY <2>1, HelloEffect
    <3>2. pc[f] = "recv" /\ pc' = [pc EXCEPT ![f] = "save"]
      BY <2>1 DEF Hello
    <3>3. CASE n = m
      <4>1. Len(tables'[f]) = Len(tables[f]) + 1
        BY <2>1 DEF Hello, TypeInv, TypeOK
      <4>2. Current(calls[n].fd)' = tables'[f][Len(tables'[f])].call
        BY <3>1, <3>3 DEF Current
      <4> QED  BY <2>0, <3>1, <3>2, <3>3, <4>1, <4>2
    <3>4. CASE n # m
      <4>1. n \in DOMAIN calls /\ calls'[n] = calls[n]
        BY <3>1, <3>4
      <4>2. pc[calls[n].fd] = "save" /\ Current(calls[n].fd) = n
        BY <3>1, <4>1 DEF OnlyInFlightPending
      <4>3. calls[n].fd # f /\ calls[n].fd \in Fds
        <5>1. calls[n] \in Call
          BY <4>1, ElementOfSeq DEF TypeInv, TypeOK
        <5> QED  BY <3>2, <4>2, <5>1 DEF Call
      <4>4. tables'[calls[n].fd] = tables[calls[n].fd]
        BY <3>1, <4>3
      <4>5. Current(calls[n].fd)' = Current(calls[n].fd)
        BY <4>1, <4>4 DEF Current
      <4> QED  BY <2>0, <3>2, <4>1, <4>2, <4>3, <4>5
    <3> QED  BY <3>3, <3>4
  <2>2. ASSUME NEW f \in Fds, SaveFlow(f)
        PROVE  pc'[calls'[n].fd] = "save" /\ Current(calls[n].fd)' = n
    <3>1. /\ SameCalls /\ UNCHANGED <<tables, run>> /\ pc' = [pc EXCEPT ![f] = "recv"]
          /\ calls'[Current(f)].insert # "pending"
          /\ \A i \in DOMAIN calls : i # Current(f) => calls'[i] = calls[i]
      BY <2>2, SaveEffect
    <3>2. n \in DOMAIN calls /\ n # Current(f) /\ calls'[n] = calls[n]
      BY <3>1 DEF SameCalls
    <3>3. pc[calls[n].fd] = "save" /\ Current(calls[n].fd) = n
      BY <3>1, <3>2 DEF OnlyInFlightPending
    <3>4. calls[n].fd # f
      BY <3>2, <3>3
    <3>5. Current(calls[n].fd)' = Current(calls[n].fd)
      BY <3>1, <3>2 DEF Current
    <3>6. calls[n].fd \in Fds
      <4>1. calls[n] \in Call
        BY <3>2, ElementOfSeq DEF TypeInv, TypeOK
      <4> QED  BY <4>1 DEF Call
    <3> QED  BY <2>0, <3>1, <3>2, <3>3, <3>4, <3>5, <3>6
  <2>3. CASE Restart
    <3>1. calls[n] \in Call /\ n \in DOMAIN calls /\ calls[n].run = run + 1
      BY <2>3, ElementOfSeq DEF Restart, TypeInv, TypeOK
    <3>2. calls[n].run <= run /\ run \in Nat
      BY <3>1 DEF RunsGrow, TypeInv, TypeOK
    <3> QED  BY <3>1, <3>2 DEF Call
  <2>4. ASSUME UNCHANGED <<calls, tables, run>>,
               \A g \in Fds : pc[g] = "save" => pc'[g] = "save"
        PROVE  pc'[calls'[n].fd] = "save" /\ Current(calls[n].fd)' = n
    <3>1. n \in DOMAIN calls /\ pc[calls[n].fd] = "save" /\ Current(calls[n].fd) = n
      BY <2>4 DEF OnlyInFlightPending
    <3>2. calls[n].fd \in Fds
      <4>1. calls[n] \in Call
        BY <3>1, ElementOfSeq DEF TypeInv, TypeOK
      <4> QED  BY <4>1 DEF Call
    <3> QED  BY <2>4, <3>1, <3>2 DEF Current
  <2> QED  BY <2>1, <2>2, <2>3, <2>4
           DEF Next, Connect, Close, PacketIn, PacketInRouted, PacketInThrows, vars, storeVars, sessionVars
<1> QED  BY <1>1, <1>2, TypeInit, TypeStep, RunsStep, TableStep, PTL DEF Spec, StoreInv


-----------------------------------------------------------------------------
(* What the PACKET_IN handler relies on.                                   *)

\* Flows are never taken away: who was greeted keeps its hit.
THEOREM GreetedKeepHit == Spec => []GreetedHits
<1>1. Init => GreetedHits
  BY DEF Init, GreetedHits
<1>2. TypeInv /\ GreetedHits /\ [Next]_vars => GreetedHits'
  <2> SUFFICES ASSUME TypeInv, GreetedHits, [Next]_vars, NEW g \in greeted'
               PROVE  hasMatch(g, 1)'
    BY DEF GreetedHits
  <2>1. ASSUME NEW f \in Fds, Hello(f) PROVE hasMatch(g, 1)'
    <3>1. /\ DOMAIN tables[f] = 1 .. Len(tables[f]) /\ Len(tables[f]) \in Nat
          /\ DOMAIN tables'[f] = 1 .. Len(tables[f]) + 1
          /\ \A h \in Fds : h # f => tables'[h] = tables[h]
          /\ tables'[f][Len(tables[f]) + 1].flow = HelloFlow
      BY <2>1, HelloEffect
    <3>2. HelloFlow.in_port = 1
      BY DEF HelloFlow
    <3>3. CASE g = f
      <4>1. Len(tables[f]) + 1 \in DOMAIN tables'[g]
        BY <3>1, <3>3
      <4> QED  BY <3>1, <3>2, <3>3, <4>1 DEF hasMatch
    <3>4. CASE g # f
      <4>1. g \in greeted /\ g \in Fds
        BY <2>1, <3>4 DEF Hello, TypeInv, TypeOK
      <4> QED  BY <3>1, <3>4, <4>1 DEF GreetedHits, hasMatch
    <3> QED  BY <3>3, <3>4
  <2>2. CASE Restart
    BY <2>2 DEF Restart
  <2>3. CASE UNCHANGED tables /\ greeted' \subseteq greeted
    BY <2>3 DEF GreetedHits, hasMatch
  <2> QED  BY <2>1, <2>2, <2>3
           DEF Next, Connect, Close, SaveFlow, PacketIn, PacketInRouted, PacketInThrows, vars, storeVars, sessionVars
<1> QED  BY <1>1, <1>2, TypeInit, TypeStep, PTL DEF Spec

\* What updateLink does to the list.
LEMMA LinkEffect ==
  ASSUME TypeOK, NEW f \in Fds, NEW n \in Neighbors, updateLink(f, "1", n)
  PROVE  /\ DOMAIN links = 1 .. Len(links) /\ Len(links) \in Nat
         /\ \/ \E i \in DOMAIN links :
                 /\ links[i].src_fd = f
                 /\ DOMAIN links' = DOMAIN links
                 /\ \A j \in DOMAIN links : links'[j].src_fd = links[j].src_fd
                 /\ links'[i].dst = n
                 /\ \A j \in DOMAIN links : j # i => links'[j] = links[j]
            \/ /\ \A i \in DOMAIN links : links[i].src_fd # f
               /\ DOMAIN links' = 1 .. Len(links) + 1
               /\ \A j \in DOMAIN links : links'[j] = links[j]
               /\ links'[Len(links) + 1].src_fd = f
               /\ links'[Len(links) + 1].dst = n
<1> DEFINE Link == [src_fd : Fds, src_port : {"1"}, dst : Neighbors]
           new == [src_fd |-> f, src_port |-> "1", dst |-> n]
<1>1. links \in Seq(Link) /\ DOMAIN links = 1 .. Len(links) /\ Len(links) \in Nat
  BY DEF TypeOK
<1>2. \A i \in DOMAIN links : links[i] \in Link
  BY <1>1, ElementOfSeq
<1>3. \A i \in DOMAIN links : SameLink(links[i], f, "1") <=> links[i].src_fd = f
  BY <1>2 DEF SameLink
<1>4. ASSUME NEW i \in DOMAIN links, SameLink(links[i], f, "1"),
             links' = [links EXCEPT ![i].dst = n]
      PROVE  /\ links[i].src_fd = f
             /\ DOMAIN links' = DOMAIN links
             /\ \A j \in DOMAIN links : links'[j].src_fd = links[j].src_fd
             /\ links'[i].dst = n
             /\ \A j \in DOMAIN links : j # i => links'[j] = links[j]
  <2>1. links' = [links EXCEPT ![i] = [links[i] EXCEPT !.dst = n]]
    BY <1>4
  <2>2. links'[i] = [links[i] EXCEPT !.dst = n]
    BY <2>1
  <2>3. links'[i].dst = n /\ links'[i].src_fd = links[i].src_fd
    BY <1>2, <2>2
  <2> QED  BY <1>3, <1>4, <2>1, <2>3
<1>5. ASSUME \A i \in DOMAIN links : ~SameLink(links[i], f, "1"),
             links' = Append(links, new)
      PROVE  /\ \A i \in DOMAIN links : links[i].src_fd # f
             /\ DOMAIN links' = 1 .. Len(links) + 1
             /\ \A j \in DOMAIN links : links'[j] = links[j]
             /\ links'[Len(links) + 1].src_fd = f
             /\ links'[Len(links) + 1].dst = n
  <2>1. new \in Link /\ new.src_fd = f /\ new.dst = n
    OBVIOUS
  <2> QED  BY <1>1, <1>3, <1>5, <2>1
<1> QED  BY <1>1, <1>4, <1>5 DEF updateLink

\* One link for each descriptor that reported, with the last report.
THEOREM TopologyIsLatest == Spec => []LinksAreLatest
<1>1. Init => LinksAreLatest
  BY DEF Init, LinksAreLatest
<1>2. TypeInv /\ LinksAreLatest /\ [Next]_vars => LinksAreLatest'
  <2> SUFFICES ASSUME TypeInv, LinksAreLatest, [Next]_vars PROVE LinksAreLatest'
    OBVIOUS
  <2>0. TypeOK /\ reported \in [Fds -> Reports \cup {None}] /\ None \notin Reports
    BY HandlersAssumption DEF TypeInv, TypeOK
  <2>1. ASSUME NEW f \in Fds, PacketIn(f) PROVE LinksAreLatest'
    <3>1. PICK r \in Reports : updateLink(f, "1", r.read) /\ reported' = [reported EXCEPT ![f] = r]
      BY <2>1 DEF PacketIn
    <3> DEFINE n == r.read
    <3>n. n \in Neighbors /\ r # None
      BY <2>0 DEF Neighbors
    <3> HIDE DEF n
    <3>2. reported'[f] = r /\ r.read = n /\ \A g \in Fds : g # f => reported'[g] = reported[g]
      BY <2>0, <3>1 DEF n
    <3>3. \A i \in DOMAIN links : links[i].src_fd \in Fds
      <4>1. /\ links \in Seq([src_fd : Fds, src_port : {"1"}, dst : Neighbors])
            /\ DOMAIN links = 1 .. Len(links)
        BY <2>0 DEF TypeOK
      <4>2. \A i \in DOMAIN links : links[i] \in [src_fd : Fds, src_port : {"1"}, dst : Neighbors]
        BY <4>1, ElementOfSeq
      <4> QED  BY <4>2
    <3>4. ASSUME NEW i \in DOMAIN links,
                 links[i].src_fd = f,
                 DOMAIN links' = DOMAIN links,
                 \A j \in DOMAIN links : links'[j].src_fd = links[j].src_fd,
                 links'[i].dst = n,
                 \A j \in DOMAIN links : j # i => links'[j] = links[j]
          PROVE  LinksAreLatest'
      <4>1. \A g \in Fds : reported'[g] # None => \E j \in DOMAIN links' : links'[j].src_fd = g
        BY <3>2, <3>4 DEF LinksAreLatest
      <4>2. \A j, k \in DOMAIN links' : links'[j].src_fd = links'[k].src_fd => j = k
        BY <3>4 DEF LinksAreLatest
      <4>3. \A j \in DOMAIN links' : /\ reported'[links'[j].src_fd] # None
                                     /\ links'[j].dst = reported'[links'[j].src_fd].read
        <5> SUFFICES ASSUME NEW j \in DOMAIN links
                     PROVE  /\ reported'[links'[j].src_fd] # None
                            /\ links'[j].dst = reported'[links'[j].src_fd].read
          BY <3>4
        <5>1. CASE j = i
          BY <3>n, <3>2, <3>4, <5>1
        <5>2. CASE j # i
          <6>1. links[j].src_fd # f
            BY <3>4, <5>2 DEF LinksAreLatest
          <6> QED  BY <3>2, <3>3, <3>4, <5>2, <6>1 DEF LinksAreLatest
        <5> QED  BY <5>1, <5>2
      <4> QED  BY <4>1, <4>2, <4>3 DEF LinksAreLatest
    <3>5. ASSUME \A i \in DOMAIN links : links[i].src_fd # f,
                 DOMAIN links = 1 .. Len(links), Len(links) \in Nat,
                 DOMAIN links' = 1 .. Len(links) + 1,
                 \A j \in DOMAIN links : links'[j] = links[j],
                 links'[Len(links) + 1].src_fd = f,
                 links'[Len(links) + 1].dst = n
          PROVE  LinksAreLatest'
      <4> PICK k : k = Len(links) + 1
        OBVIOUS
      <4>1. /\ \A j \in DOMAIN links' : j \in DOMAIN links \/ j = k
            /\ k \in DOMAIN links' /\ DOMAIN links \subseteq DOMAIN links'
            /\ links'[k].src_fd = f /\ links'[k].dst = n
        BY <3>5
      <4>2. \A g \in Fds : reported'[g] # None => \E j \in DOMAIN links' : links'[j].src_fd = g
        BY <3>2, <3>5, <4>1 DEF LinksAreLatest
      <4>3. \A i, j \in DOMAIN links' : links'[i].src_fd = links'[j].src_fd => i = j
        BY <3>5, <4>1 DEF LinksAreLatest
      <4>4. \A j \in DOMAIN links' : /\ reported'[links'[j].src_fd] # None
                                     /\ links'[j].dst = reported'[links'[j].src_fd].read
        <5> SUFFICES ASSUME NEW j \in DOMAIN links'
                     PROVE  /\ reported'[links'[j].src_fd] # None
                            /\ links'[j].dst = reported'[links'[j].src_fd].read
          OBVIOUS
        <5>1. CASE j = k
          BY <3>n, <3>2, <4>1, <5>1
        <5>2. CASE j \in DOMAIN links
          BY <3>2, <3>3, <3>5, <5>2 DEF LinksAreLatest
        <5> QED  BY <4>1, <5>1, <5>2
      <4> QED  BY <4>2, <4>3, <4>4 DEF LinksAreLatest
    <3>6. updateLink(f, "1", n)
      BY <3>1 DEF n
    <3> QED  BY <2>0, <3>n, <3>6, <3>4, <3>5, LinkEffect
  <2>2. CASE Restart
    BY <2>2 DEF Restart, LinksAreLatest
  <2>3. CASE UNCHANGED <<links, reported>>
    BY <2>3 DEF LinksAreLatest
  <2> QED  BY <2>1, <2>2, <2>3
           DEF Next, Connect, Close, Hello, SaveFlow, PacketInRouted, PacketInThrows, vars, topoVars
<1> QED  BY <1>1, <1>2, TypeInit, TypeStep, PTL DEF Spec

-----------------------------------------------------------------------------
\* The topology is told what the packets say, for packets of any length and
\* content: what is reported was parsed from a packet that isLLDP accepts, and of
\* such a one the parser returns the last chassis and the last port.
THEOREM ReportsAreRead == Spec => []ParserReadsItems
<1>1. \A r \in Reports : r.read = r.said
  <2>1. \A p \in Readable : /\ parse(p).chassis_id = LastValue(p, CHASSIS_ID, 1)
                            /\ parse(p).port_id = LastValue(p, PORT_ID, 1)
    BY HandlersAssumption, ParserIsRight DEF Readable, ParseAgrees
  <2> SUFFICES ASSUME NEW p \in Readable,
                      NEW r, r = [read |-> [chassis |-> parse(p).chassis_id, port |-> parse(p).port_id],
                                  said |-> [chassis |-> LastValue(p, CHASSIS_ID, 1),
                                            port |-> LastValue(p, PORT_ID, 1)]]
               PROVE  r.read = r.said
    BY DEF Reports
  <2> QED  BY <2>1
<1>2. TypeInv => ParserReadsItems
  BY <1>1 DEF TypeInv, TypeOK, ParserReadsItems
<1> QED  BY <1>2, TypeInit, TypeStep, PTL DEF Spec

-----------------------------------------------------------------------------
(* The connections as the handlers see them are those that Server provides:   *)
(* both are Connections (Server_proofs, ServerImplements).                    *)

\* A handler that has left a critical section behind and has another before it;
\* the worker is named by its descriptor.
Under == [f \in Fds |-> IF pc[f] = "save" THEN {[by |-> f, of |-> sock[f]]} ELSE {}]

Conns == INSTANCE Connections WITH Peers <- Switches, Runners <- Fds, under <- Under

\* Between two starts of the process.
ServedByConnections == Conns!Init /\ [][run' = run => Conns!Next]_<<sock, Under>>

LEMMA ServedStep ==
  ASSUME TypeOK, [Next]_vars, run' = run
  PROVE  Conns!Next \/ UNCHANGED <<sock, Under>>
<1> USE DEF vars, sessionVars, storeVars, topoVars
<1>0. /\ pc \in [Fds -> {"recv", "save"}] /\ sock \in [Fds -> Switches \cup {None}]
      /\ run \in Nat
      /\ \A f \in Fds : pc[f] = "save" => sock[f] # None
  BY DEF TypeOK
<1>1. \A f \in Fds : Under[f] = {} <=> pc[f] = "recv"
  BY <1>0 DEF Under
<1>2. ASSUME NEW f \in Fds, NEW s, pc[f] = "recv", sock' = [sock EXCEPT ![f] = s], pc' = pc
      PROVE  Under' = Under
  <2>1. \A g \in Fds : pc[g] = "save" => sock'[g] = sock[g]
    BY <1>0, <1>2
  <2> QED  BY <1>2, <2>1 DEF Under
<1>3. ASSUME NEW s \in Switches, NEW f \in Fds, Connect(s, f) PROVE Conns!Next
  <2>1. sock[f] = None /\ sock' = [sock EXCEPT ![f] = s] /\ pc' = pc
    BY <1>3 DEF Connect
  <2>2. pc[f] = "recv"
    BY <1>0, <2>1
  <2>3. Under' = Under
    BY <1>2, <2>1, <2>2
  <2> QED  BY <2>1, <2>3 DEF Conns!Next, Conns!Open
<1>4. ASSUME NEW f \in Fds, Close(f) PROVE Conns!Next
  <2>1. pc[f] = "recv" /\ sock[f] # None /\ sock' = [sock EXCEPT ![f] = None] /\ pc' = pc
    BY <1>4 DEF Close
  <2>2. Under' = Under
    BY <1>2, <2>1
  <2> QED  BY <1>1, <2>1, <2>2 DEF Conns!Next, Conns!Close
<1>5. ASSUME NEW f \in Fds, Hello(f) PROVE Conns!Next
  <2>1. pc[f] = "recv" /\ sock[f] # None /\ pc' = [pc EXCEPT ![f] = "save"] /\ sock' = sock
    BY <1>5 DEF Hello
  <2>2. Under' = [Under EXCEPT ![f] = {[by |-> f, of |-> sock[f]]}]
    BY <1>0, <2>1 DEF Under
  <2>3. \A g \in Fds : \A h \in Under[g] : h.by # f
    BY <1>0, <2>1 DEF Under
  <2>4. Conns!Enter(f, f)
    BY <1>1, <2>1, <2>2, <2>3 DEF Conns!Enter
  <2> QED  BY <2>4 DEF Conns!Next
<1>6. ASSUME NEW f \in Fds, SaveFlow(f) PROVE Conns!Next
  <2>1. pc[f] = "save" /\ pc' = [pc EXCEPT ![f] = "recv"] /\ sock' = sock
    BY <1>6 DEF SaveFlow
  <2>2. Under' = [Under EXCEPT ![f] = {}]
    BY <1>0, <2>1 DEF Under
  <2>3. Under[f] # {}
    BY <1>1, <2>1
  <2> QED  BY <2>1, <2>2, <2>3 DEF Conns!Next, Conns!Leave
<1>7. ASSUME NEW f \in Fds, PacketIn(f) \/ PacketInRouted(f) PROVE UNCHANGED <<sock, Under>>
  BY <1>7 DEF PacketIn, PacketInRouted, Under
<1>8. CASE UNCHANGED vars
  BY <1>8 DEF Under
<1>9. ~Restart /\ \A f \in Fds : ~PacketInThrows(f)
  BY <1>0 DEF Restart, PacketInThrows
<1> QED  BY <1>3, <1>4, <1>5, <1>6, <1>7, <1>8, <1>9 DEF Next

\* Between two starts of the process the handlers' connections behave as
\* Connections says: what the handlers' model takes for granted of its
\* connections is what the server provides.
THEOREM HandlersAreServed == Spec => ServedByConnections
<1>1. Init => Conns!Init
  BY DEF Init, Conns!Init, Under
<1>2. TypeInv /\ [Next]_vars => [run' = run => Conns!Next]_<<sock, Under>>
  BY ServedStep DEF TypeInv
<1> QED  BY <1>1, <1>2, TypeInit, TypeStep, PTL DEF Spec, ServedByConnections

\* And it leaves none of their steps out: whenever Connections lets a connection
\* be opened or closed, so does the handlers' model, whatever its services hold.
THEOREM HandlersAdmit ==
  \A f \in Fds :
    /\ \A s \in Switches :
         Conns!Open(s, f) /\ UNCHANGED <<pc, greeted, storeVars, topoVars, run>> => Connect(s, f)
    /\ (pc \in [Fds -> {"recv", "save"}] /\ Conns!Close(f) /\ greeted' = greeted \ {f}
        /\ UNCHANGED <<pc, storeVars, topoVars, run>>) => Close(f)
<1> SUFFICES ASSUME NEW f \in Fds
             PROVE  /\ \A s \in Switches :
                         Conns!Open(s, f) /\ UNCHANGED <<pc, greeted, storeVars, topoVars, run>>
                           => Connect(s, f)
                    /\ (pc \in [Fds -> {"recv", "save"}] /\ Conns!Close(f) /\ greeted' = greeted \ {f}
                        /\ UNCHANGED <<pc, storeVars, topoVars, run>>) => Close(f)
  OBVIOUS
<1>1. Under[f] = {} => pc[f] # "save"
  BY DEF Under
<1>2. pc \in [Fds -> {"recv", "save"}] => pc[f] \in {"recv", "save"}
  OBVIOUS
<1> QED  BY <1>1, <1>2 DEF Conns!Open, Conns!Close, Connect, Close


-----------------------------------------------------------------------------
(* Whose entries are under a key.                                          *)

\* A step that connects a switch gives it a descriptor nobody greeted on in this
\* run, or the one it greeted on before.
SameSwitchAgain ==
  \A s \in Switches, f \in Fds :
    Connect(s, f) => \A n \in DOMAIN calls : calls[n].fd = f /\ calls[n].run = run
                                               => calls[n].by = s

\* The calls of a run on one descriptor are of one switch, in the present run of
\* the one that has it.
CallsOfOneSwitch ==
  \A n \in DOMAIN calls :
    /\ calls[n].run = run => sock[calls[n].fd] \in {None, calls[n].by}
    /\ \A m \in DOMAIN calls :
         calls[m].run = calls[n].run /\ calls[m].fd = calls[n].fd => calls[m].by = calls[n].by

\* The rows that one run of the process added for a descriptor are of one switch.
\* (Rows of different runs need not be: a row outlives the run and its sockets.)
RowsOfARun ==
  \A i, j \in DOMAIN db :
    LET n == db[i].call
        m == db[j].call
    IN db[i].dpid = db[j].dpid /\ calls[n].run = calls[m].run => calls[n].by = calls[m].by

LEMMA OneSwitchStep ==
  TypeInv /\ RunsGrow /\ CallsOfOneSwitch /\ [Next /\ SameSwitchAgain]_vars => CallsOfOneSwitch'
<1> SUFFICES ASSUME TypeInv, RunsGrow, CallsOfOneSwitch, [Next /\ SameSwitchAgain]_vars
             PROVE  CallsOfOneSwitch'
  OBVIOUS
<1>0. sock \in [Fds -> Switches \cup {None}] /\ None \notin Switches /\ run \in Nat
  BY HandlersAssumption DEF TypeInv, TypeOK
<1>a. \A n \in DOMAIN calls : calls[n].fd \in Fds
  <2>1. calls \in Seq(Call)
    BY DEF TypeInv, TypeOK
  <2>2. \A n \in DOMAIN calls : calls[n] \in Call
    BY <2>1, ElementOfSeq
  <2> QED  BY <2>2 DEF Call
<1>1. ASSUME NEW s \in Switches, NEW f \in Fds, Connect(s, f), SameSwitchAgain
      PROVE  CallsOfOneSwitch'
  <2>1. UNCHANGED <<calls, run>> /\ sock' = [sock EXCEPT ![f] = s]
    BY <1>1 DEF Connect, storeVars
  <2>2. \A n \in DOMAIN calls : calls[n].fd = f /\ calls[n].run = run => calls[n].by = s
    BY <1>1 DEF SameSwitchAgain
  <2> QED  BY <1>0, <1>a, <2>1, <2>2 DEF CallsOfOneSwitch
<1>2. ASSUME NEW f \in Fds, Close(f) PROVE CallsOfOneSwitch'
  <2>1. UNCHANGED <<calls, run>> /\ sock' = [sock EXCEPT ![f] = None]
    BY <1>2 DEF Close, storeVars
  <2> QED  BY <1>0, <1>a, <2>1 DEF CallsOfOneSwitch
<1>3. ASSUME NEW f \in Fds, Hello(f) PROVE CallsOfOneSwitch'
  <2> PICK k \in Nat : k = Len(calls)
    BY <1>3, HelloEffect
  <2>1. /\ DOMAIN calls = 1 .. k /\ DOMAIN calls' = 1 .. k + 1 /\ UNCHANGED <<run, sock>>
        /\ \A n \in 1 .. k : calls'[n] = calls[n]
        /\ calls'[k + 1].fd = f
    BY <1>3, HelloEffect DEF Hello
  <2>2. calls'[k + 1].by = sock[f] /\ sock[f] # None
    <3>1. calls \in Seq(Call)
      BY DEF TypeInv, TypeOK
    <3>2. calls' = Append(calls, [fd |-> f, by |-> sock[f], run |-> run, insert |-> "pending"])
      BY <1>3 DEF Hello
    <3> QED  BY <1>3, <3>1, <3>2 DEF Hello
  <2>3. \A n \in 1 .. k + 1 : n \in 1 .. k \/ n = k + 1
    OBVIOUS
  <2>a. calls'[k + 1].run = run
    <3>1. calls \in Seq(Call)
      BY DEF TypeInv, TypeOK
    <3>2. calls' = Append(calls, [fd |-> f, by |-> sock[f], run |-> run, insert |-> "pending"])
      BY <1>3 DEF Hello
    <3> QED  BY <3>1, <3>2
  <2>4. ASSUME NEW n \in 1 .. k
        PROVE  /\ calls[n].run = run => /\ sock[calls[n].fd] \in {None, calls[n].by}
                                        /\ calls[n].fd = f => calls[n].by = sock[f]
               /\ \A m \in 1 .. k : calls[m].run = calls[n].run /\ calls[m].fd = calls[n].fd
                                      => calls[m].by = calls[n].by
    BY <2>1, <2>2, <2>4 DEF CallsOfOneSwitch
  <2>5. ASSUME NEW n \in 1 .. k + 1
        PROVE  calls'[n].run = run => sock[calls'[n].fd] \in {None, calls'[n].by}
    BY <2>1, <2>2, <2>3, <2>4
  <2>6. ASSUME NEW n \in 1 .. k + 1, NEW m \in 1 .. k + 1,
               calls'[m].run = calls'[n].run, calls'[m].fd = calls'[n].fd
        PROVE  calls'[m].by = calls'[n].by
    <3>1. CASE n \in 1 .. k /\ m \in 1 .. k
      BY <2>1, <2>4, <2>6, <3>1
    <3>2. CASE n = k + 1 \/ m = k + 1
      BY <2>1, <2>2, <2>a, <2>3, <2>4, <2>6, <3>2
    <3> QED  BY <2>3, <3>1, <3>2
  <2> QED  BY <2>1, <2>5, <2>6 DEF CallsOfOneSwitch
<1>4. ASSUME NEW f \in Fds, SaveFlow(f) PROVE CallsOfOneSwitch'
  <2>1. SameCalls /\ UNCHANGED <<sock, run>>
    BY <1>4, SaveEffect DEF SaveFlow
  <2>2. \A n \in DOMAIN calls : calls'[n].by = calls[n].by
    <3>1. /\ Current(f) \in DOMAIN calls
          /\ \A n \in DOMAIN calls : n # Current(f) => calls'[n] = calls[n]
      BY <1>4, SaveEffect
    <3>2. PICK r : calls' = [calls EXCEPT ![Current(f)].insert = r]
      BY <1>4 DEF SaveFlow
    <3>3. calls[Current(f)] \in Call
      BY <3>1, ElementOfSeq DEF TypeInv, TypeOK
    <3>4. calls'[Current(f)] = [calls[Current(f)] EXCEPT !.insert = r]
      BY <3>1, <3>2
    <3>5. calls'[Current(f)].by = calls[Current(f)].by
      BY <3>3, <3>4 DEF Call
    <3> QED  BY <3>1, <3>5
  <2> QED  BY <2>1, <2>2 DEF CallsOfOneSwitch, SameCalls
<1>5. ASSUME NEW f \in Fds, PacketIn(f) \/ PacketInRouted(f) PROVE CallsOfOneSwitch'
  <2>1. UNCHANGED <<calls, run, sock>>
    BY <1>5 DEF PacketIn, PacketInRouted, storeVars, sessionVars
  <2> QED  BY <2>1 DEF CallsOfOneSwitch
<1>6. CASE Restart
  <2>1. UNCHANGED calls /\ run' = run + 1
    BY <1>6 DEF Restart
  <2>2. \A n \in DOMAIN calls : calls[n].run # run'
    <3>1. calls \in Seq(Call)
      BY DEF TypeInv, TypeOK
    <3>2. \A n \in DOMAIN calls : calls[n].run \in Nat
      <4>1. \A n \in DOMAIN calls : calls[n] \in Call
        BY <3>1, ElementOfSeq
      <4> QED  BY <4>1 DEF Call
    <3> QED  BY <1>0, <2>1, <3>2 DEF RunsGrow
  <2> QED  BY <2>1, <2>2 DEF CallsOfOneSwitch
<1>7. CASE UNCHANGED vars
  BY <1>7 DEF CallsOfOneSwitch, vars, sessionVars, storeVars
<1> QED  BY <1>1, <1>2, <1>3, <1>4, <1>5, <1>6, <1>7 DEF Next, PacketInThrows

\* A flow table mixes the entries of two switches only by way of its key: as long
\* as no descriptor passes from a switch that greeted on it to another switch in
\* the same run, the entries under a key are of one switch, as its comment says
\* (FlowManager.hpp:43), through reconnections, other connections' handlers and
\* restarts; and of the rows of the database, which stay, those that one run
\* added under a key are.
THEOREM OnlyReuseMixes == Spec /\ [][SameSwitchAgain]_vars => [](KeyIsSwitch /\ RowsOfARun)
<1>1. Init => RunsGrow /\ TableIsThisRun /\ CallsOfOneSwitch
  BY DEF Init, RunsGrow, TableIsThisRun, CallsOfOneSwitch
<1>2. TypeInv /\ TableIsThisRun /\ CallsOfOneSwitch => KeyIsSwitch
  <2> SUFFICES ASSUME TypeInv, TableIsThisRun, CallsOfOneSwitch,
                      NEW f \in Fds, NEW i \in DOMAIN tables[f], NEW j \in DOMAIN tables[f]
               PROVE  calls[tables[f][i].call].by = calls[tables[f][j].call].by
    BY DEF KeyIsSwitch
  <2>1. tables[f] \in Seq(Entries(Len(calls))) /\ DOMAIN calls = 1 .. Len(calls)
    BY RowsReferToCalls DEF TypeInv, TypeOK, Entries
  <2>2. tables[f][i] \in Entries(Len(calls)) /\ tables[f][j] \in Entries(Len(calls))
    BY <2>1, ElementOfSeq
  <2>3. tables[f][i].call \in DOMAIN calls /\ tables[f][j].call \in DOMAIN calls
    BY <2>1, <2>2 DEF Entries
  <2>4. /\ calls[tables[f][i].call].fd = f /\ calls[tables[f][i].call].run = run
        /\ calls[tables[f][j].call].fd = f /\ calls[tables[f][j].call].run = run
    BY <2>3 DEF TableIsThisRun
  <2> QED  BY <2>3, <2>4 DEF CallsOfOneSwitch
<1>3. [Next]_vars /\ [SameSwitchAgain]_vars => [Next /\ SameSwitchAgain]_vars
  OBVIOUS
<1>4. TypeInv /\ DatabaseIsHistory /\ CallsOfOneSwitch => RowsOfARun
  <2> SUFFICES ASSUME TypeInv, DatabaseIsHistory, CallsOfOneSwitch,
                      NEW i \in DOMAIN db, NEW j \in DOMAIN db, db[i].dpid = db[j].dpid,
                      calls[db[i].call].run = calls[db[j].call].run
               PROVE  calls[db[i].call].by = calls[db[j].call].by
    BY DEF RowsOfARun
  <2>1. db[i].call \in DOMAIN calls /\ db[j].call \in DOMAIN calls
    BY RowsReferToCalls
  <2>2. calls[db[i].call].fd = calls[db[j].call].fd
    BY DEF DatabaseIsHistory
  <2> QED  BY <2>1, <2>2 DEF CallsOfOneSwitch
<1> QED  BY <1>1, <1>2, <1>3, <1>4, TypeInit, TypeStep, RunsStep, TableStep, OneSwitchStep,
            DatabaseCorrect, PTL DEF Spec


-----------------------------------------------------------------------------
(* The frames that never become links.                                     *)

\* The data of a PACKET_IN, from byte 10 of its body on, are an LLDP frame as a
\* bridge sends it: to a group address 01-80-C2-00-00-xx, with LLDP's type.
IsBridgeLLDP(p) ==
  /\ Len(p) >= 24
  /\ p[11] = 1 /\ p[12] = 128 /\ p[13] = 194 /\ p[14] = 0 /\ p[15] = 0
  /\ Word(p, 22) = EtherType

\* isLLDP (LLDPParser.hpp:34-41) looks for the type at bytes 12 and 13 of the
\* body, where such a frame has C2-00, the middle of its address: whatever else
\* is in the packet, it is not taken for LLDP.
THEOREM BridgeLLDPUnseen == \A p \in Packets : IsBridgeLLDP(p) => ~isLLDP(p)
<1> SUFFICES ASSUME NEW p \in Packets, IsBridgeLLDP(p) PROVE Word(p, 12) # EtherType
  BY DEF isLLDP
<1>1. p[12 + 1] = 194 /\ p[12 + 2] = 0
  BY DEF IsBridgeLLDP
<1> QED  BY <1>1 DEF Word, EtherType

\* The neighbor of a link was read from a packet that is no such frame.
NoBridgeLinks ==
  \A i \in DOMAIN links :
    \E p \in Packets :
      /\ ~IsBridgeLLDP(p)
      /\ links[i].dst = [chassis |-> parse(p).chassis_id, port |-> parse(p).port_id]

\* No neighbor that a bridge announces with LLDP gets into the topology.
THEOREM BridgeLLDPNeverLinks == Spec => []NoBridgeLinks
<1>1. ASSUME NEW n \in Neighbors
      PROVE  \E p \in Packets : /\ ~IsBridgeLLDP(p)
                                /\ n = [chassis |-> parse(p).chassis_id, port |-> parse(p).port_id]
  <2>1. PICK p \in Readable : n = [chassis |-> parse(p).chassis_id, port |-> parse(p).port_id]
    BY DEF Neighbors, Reports
  <2> QED  BY <2>1, BridgeLLDPUnseen DEF Readable
<1>2. TypeInv => NoBridgeLinks
  <2> SUFFICES ASSUME TypeOK, NEW i \in DOMAIN links PROVE links[i].dst \in Neighbors
    BY <1>1 DEF TypeInv, NoBridgeLinks
  <2>1. links \in Seq([src_fd : Fds, src_port : {"1"}, dst : Neighbors])
    BY DEF TypeOK
  <2>2. i \in 1 .. Len(links)
    BY <2>1
  <2>3. links[i] \in [src_fd : Fds, src_port : {"1"}, dst : Neighbors]
    BY <2>1, <2>2, ElementOfSeq
  <2> QED  BY <2>3
<1> QED  BY <1>2, TypeInit, TypeStep, PTL DEF Spec

\* So a network of bridges that announce themselves with nothing else has no
\* topology: the list of links stays empty, whatever they send and how often.
THEOREM TopologyStaysEmpty ==
  (\A p \in Packets : IsBridgeLLDP(p)) => (Spec => [](links = <<>>))
<1> SUFFICES ASSUME \A p \in Packets : IsBridgeLLDP(p) PROVE Spec => [](links = <<>>)
  OBVIOUS
<1>1. TypeInv /\ NoBridgeLinks => links = <<>>
  <2> SUFFICES ASSUME TypeOK, NoBridgeLinks PROVE links = <<>>
    BY DEF TypeInv
  <2>1. DOMAIN links = {}
    BY DEF NoBridgeLinks
  <2>2. links \in Seq([src_fd : Fds, src_port : {"1"}, dst : Neighbors])
    BY DEF TypeOK
  <2> QED  BY <2>1, <2>2
<1>2. Spec => []TypeInv
  BY TypeInit, TypeStep, PTL DEF Spec
<1> QED  BY <1>1, <1>2, BridgeLLDPNeverLinks, PTL

=============================================================================
