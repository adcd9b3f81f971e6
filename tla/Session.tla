------------------------------- MODULE Session -------------------------------
(***************************************************************************)
(* One switch's session (src/api/SouthBoundInterface/OpenFlowLib.h): the   *)
(* bytes that recv returns are appended to conn.inbuf, Framer::next_frame  *)
(* carves frames out of it, each frame goes through its validator, through *)
(* advance_lifecycle and to dispatch, and when no complete frame is left   *)
(* the worker calls recv again.                                            *)
(*                                                                         *)
(* The bytes are numbers below Base, 256 in the code, so that the length   *)
(* field, two bytes in network order, has its width and its boundaries.    *)
(* A single worker runs a session (OneOwner of Server), so each turn of    *)
(* the loop of ingest is one action.                                       *)
(***************************************************************************)
EXTENDS Naturals, Sequences

CONSTANTS
  Base,      \* the values of a byte: 256
  Streams,   \* what a switch may send in the life of its connection
  Chunks     \* how many bytes one recv may return: 1 .. 8192

kOFVersion10   == 1
kOFHeaderLen   == 8
kOFMaxFrameLen == Base * Base - 1

HELLO            == 0
ERROR            == 1
FEATURES_REQUEST == 5
FEATURES_REPLY   == 6
PACKET_IN        == 10
FLOW_MOD         == 14

Byte == 0 .. Base - 1

ASSUME BaseAssumption == Base \in Nat /\ Base > FLOW_MOD
ASSUME StreamsAssumption == \A s \in Streams : s \in Seq(Byte)
ASSUME ChunksAssumption == Chunks \subseteq Nat \ {0}

VARIABLES
  stream,    \* the bytes of this connection, from the first to the last
  received,  \* how many of them recv has returned
  inbuf,     \* conn.inbuf
  state,     \* conn.state
  pc,        \* "recv", "frame" (the loop of ingest) or "closed"
  events,    \* what dispatch was called with, in order: the frame, the state
             \*   of the session, and the offset at in the stream where the
             \*   frame began
  next       \* history: the offset in the stream of the head of inbuf

vars == <<stream, received, inbuf, state, pc, events, next>>

-----------------------------------------------------------------------------
(* Framer.                                                                 *)

\* ntohs of the two bytes at offset i.
Ntohs(bytes, i) == Base * bytes[i + 1] + bytes[i + 2]

parse_header(bytes) ==
  [version |-> bytes[1], type |-> bytes[2], length |-> Ntohs(bytes, 2)]

\* Mutant: a length shorter than the header is let through.
InvalidVersionOnly(buf) ==
  /\ Len(buf) >= kOFHeaderLen
  /\ parse_header(buf).version # kOFVersion10

\* The outcomes of next_frame: INVALID, NEED_MORE, and otherwise OK.
Invalid(buf) ==
  /\ Len(buf) >= kOFHeaderLen
  /\ LET hdr == parse_header(buf) IN
       \/ hdr.version # kOFVersion10
       \/ hdr.length < kOFHeaderLen
       \/ hdr.length > kOFMaxFrameLen

\* Mutant: a frame is taken out only when more bytes have followed it.
CompleteLate(buf) ==
  /\ Len(buf) >= kOFHeaderLen
  /\ ~Invalid(buf)
  /\ Len(buf) > parse_header(buf).length

Complete(buf) ==
  /\ Len(buf) >= kOFHeaderLen
  /\ ~Invalid(buf)
  /\ Len(buf) >= parse_header(buf).length

NeedMore(buf) == ~Invalid(buf) /\ ~Complete(buf)

Body(buf) == SubSeq(buf, kOFHeaderLen + 1, parse_header(buf).length)

\* Mutant: the header is left in the buffer.
RestKeepsHeader(buf) == SubSeq(buf, parse_header(buf).length - kOFHeaderLen + 1, Len(buf))

\* What inbuf.erase leaves.
Rest(buf) == SubSeq(buf, parse_header(buf).length + 1, Len(buf))

-----------------------------------------------------------------------------
(* The validators registered in SouthBoundInterface::init.                 *)

validatePacketIn(body) == Len(body) >= 10 /\ Ntohs(body, 4) <= Len(body) - 10

validateError(body) == Len(body) >= 4

validateFlowMod(body) == Len(body) >= 72 /\ Ntohs(body, 48) <= 4

run_validator(type, body) ==
  /\ type = PACKET_IN => validatePacketIn(body)
  /\ type = ERROR => validateError(body)
  /\ type = FLOW_MOD => validateFlowMod(body)

-----------------------------------------------------------------------------
(* The lifecycle.                                                          *)

\* Mutant: FEATURES counts before HELLO was seen.
AdvanceEarly(s, type) ==
  CASE s = "CONNECTED" /\ type = HELLO -> "HELLO_DONE"
    [] s \in {"CONNECTED", "HELLO_DONE"} /\ type \in {FEATURES_REPLY, FEATURES_REQUEST}
         -> "FEATURES_DONE"
    [] s = "FEATURES_DONE" -> "ACTIVE"
    [] OTHER -> s

advance_lifecycle(s, type) ==
  CASE s = "CONNECTED" /\ type = HELLO -> "HELLO_DONE"
    [] s = "HELLO_DONE" /\ type \in {FEATURES_REPLY, FEATURES_REQUEST} -> "FEATURES_DONE"
    [] s = "FEATURES_DONE" -> "ACTIVE"
    [] OTHER -> s

-----------------------------------------------------------------------------
Init ==
  /\ stream \in Streams
  /\ received = 0
  /\ inbuf = <<>>
  /\ state = "CONNECTED"
  /\ pc = "recv"
  /\ events = <<>>
  /\ next = 0

\* recv returns some of what comes next, and ingest appends it.
Recv(n) ==
  /\ pc = "recv"
  /\ received + n <= Len(stream)
  /\ received' = received + n
  /\ inbuf' = inbuf \o SubSeq(stream, received + 1, received + n)
  /\ pc' = "frame"
  /\ UNCHANGED <<stream, state, events, next>>

\* Mutant: the descriptor is closed and the state is left.
RecvEndKeepsState ==
  /\ pc = "recv"
  /\ pc' = "closed"
  /\ UNCHANGED <<stream, received, inbuf, state, events, next>>

\* recv returns 0 or an error; bytes may be lost when the switch resets.
RecvEnd ==
  /\ pc = "recv"
  /\ pc' = "closed"
  /\ state' = "CLOSING"
  /\ UNCHANGED <<stream, received, inbuf, events, next>>

\* Mutant: ingest waits for a header, and then for nothing more.
WaitForHeader ==
  /\ pc = "frame"
  /\ Len(inbuf) < kOFHeaderLen
  /\ pc' = "recv"
  /\ UNCHANGED <<stream, received, inbuf, state, events, next>>

\* ingest returns true and waits for more bytes.
Wait ==
  /\ pc = "frame"
  /\ NeedMore(inbuf)
  /\ pc' = "recv"
  /\ UNCHANGED <<stream, received, inbuf, state, events, next>>

\* ingest returns false on a malformed header ...
Reject ==
  /\ pc = "frame"
  /\ Invalid(inbuf)
  /\ pc' = "closed"
  /\ state' = "CLOSING"
  /\ UNCHANGED <<stream, received, inbuf, events, next>>

\* ... and on a frame that its validator refuses, which is consumed by then.
Refuse ==
  /\ pc = "frame"
  /\ Complete(inbuf)
  /\ ~run_validator(parse_header(inbuf).type, Body(inbuf))
  /\ inbuf' = Rest(inbuf)
  /\ next' = next + parse_header(inbuf).length
  /\ pc' = "closed"
  /\ state' = "CLOSING"
  /\ UNCHANGED <<stream, received, events>>

\* A valid frame advances the lifecycle and is dispatched, in this order.
Handle ==
  /\ pc = "frame"
  /\ Complete(inbuf)
  /\ LET hdr == parse_header(inbuf) IN
       /\ run_validator(hdr.type, Body(inbuf))
       /\ inbuf' = Rest(inbuf)
       /\ next' = next + hdr.length
       /\ state' = advance_lifecycle(state, hdr.type)
       /\ events' = Append(events, [header |-> hdr, body |-> Body(inbuf),
                                    state |-> state', at |-> next])
  /\ UNCHANGED <<stream, received, pc>>

Ingest == Wait \/ Reject \/ Refuse \/ Handle

Next == (\E n \in Chunks : Recv(n)) \/ RecvEnd \/ Ingest

Spec == Init /\ [][Next]_vars

\* The worker does not stop inside ingest; the switch may stop sending.
FairSpec == Spec /\ WF_vars(Ingest)

-----------------------------------------------------------------------------
Event ==
  [header : [version : Byte, type : Byte, length : 0 .. kOFMaxFrameLen],
   body : Seq(Byte),
   state : {"CONNECTED", "HELLO_DONE", "FEATURES_DONE", "ACTIVE"},
   at : Nat]

\* Types; CLOSING is the state of a closed connection only.
TypeOK ==
  /\ stream \in Seq(Byte)
  /\ received \in 0 .. Len(stream)
  /\ inbuf \in Seq(Byte)
  /\ state \in {"CONNECTED", "HELLO_DONE", "FEATURES_DONE", "ACTIVE", "CLOSING"}
  /\ pc \in {"recv", "frame", "closed"}
  /\ state = "CLOSING" <=> pc = "closed"
  /\ events \in Seq(Event)
  /\ next \in Nat

\* Where the frame after the i-th one begins.
EndOf(i) == events[i].at + events[i].header.length

\* However the network cuts the stream (OpenFlowLib.h:279-300), the frames that
\* are dispatched are consecutive pieces of it, none skipped, repeated or torn:
\* the first begins with the stream, each begins where the one before ended, and
\* its length, its type and its body are those the stream has there.
FramesTile ==
  \A i \in 1 .. Len(events) :
    LET e == events[i] IN
      /\ e.at = (IF i = 1 THEN 0 ELSE EndOf(i - 1))
      /\ EndOf(i) <= received
      /\ e.header.type = stream[e.at + 2]
      /\ e.header.length = Ntohs(stream, e.at + 2)
      /\ e.header.length = kOFHeaderLen + Len(e.body)
      /\ \A j \in 1 .. Len(e.body) : e.body[j] = stream[e.at + kOFHeaderLen + j]

\* What is in the buffer is what was received and belongs to no dispatched
\* frame, from the next boundary on; and when the worker goes back to recv,
\* it is less than one frame: nothing complete is kept waiting (:282-287).
CaughtUp ==
  /\ pc # "closed" =>
       /\ next = (IF events = <<>> THEN 0 ELSE EndOf(Len(events)))
       /\ next + Len(inbuf) = received
       /\ \A j \in 1 .. Len(inbuf) : inbuf[j] = stream[next + j]
  /\ pc = "recv" =>
       \/ Len(inbuf) < kOFHeaderLen
       \/ Len(inbuf) < Ntohs(stream, next + 2)

\* conn.inbuf never holds more than one frame short of a byte and what one recv
\* adds to it (:189, :279, :312), whatever length fields a switch sends.
BufferBounded ==
  /\ pc = "recv" => Len(inbuf) < kOFMaxFrameLen
  /\ \E n \in Chunks \cup {0} : Len(inbuf) < kOFMaxFrameLen + n

\* Occurs(T, i): a frame with a type in T was the i-th to be dispatched.
Occurs(T, i) == i \in 1 .. Len(events) /\ events[i].header.type \in T

\* The state of an open session is exactly what the frames dispatched so far
\* make it (:364-383): a HELLO, then a FEATURES message, then any frame, with
\* anything between them.
LifecycleFollowsFrames ==
  pc # "closed" =>
    LET N == 1 .. Len(events)
        hello == \E i \in N : Occurs({HELLO}, i)
        features == \E i, j \in N : i < j /\ Occurs({HELLO}, i)
                                          /\ Occurs({FEATURES_REPLY, FEATURES_REQUEST}, j)
        active == \E i, j, k \in N : i < j /\ j < k /\ Occurs({HELLO}, i)
                                     /\ Occurs({FEATURES_REPLY, FEATURES_REQUEST}, j)
    IN state = IF active THEN "ACTIVE"
               ELSE IF features THEN "FEATURES_DONE"
               ELSE IF hello THEN "HELLO_DONE" ELSE "CONNECTED"

\* Every turn of the loop of ingest that goes on consumes at least a header
\* (:185, :200), so that the loop ends.
LoopConsumes ==
  [][pc = "frame" /\ pc' = "frame" => Len(inbuf') + kOFHeaderLen <= Len(inbuf)]_vars

\* ingest returns, whatever the bytes are (:282-299).
IngestReturns == pc = "frame" ~> pc # "frame"

\* "Switches start at CONNECTED and must exchange HELLO and FEATURES before
\* becoming ACTIVE for general traffic." (:91-92)
GeneralTrafficWhenActive ==
  \A i \in 1 .. Len(events) :
    events[i].header.type = PACKET_IN => events[i].state = "ACTIVE"

=============================================================================
