--------------------------- MODULE Session_proofs ---------------------------
(***************************************************************************)
(* A session, for every stream, every way of cutting it and every width of *)
(* a byte: the frames dispatched tile the stream, nothing complete is kept *)
(* waiting, the buffer is bounded, the loop of ingest makes progress, the  *)
(* lifecycle is what the frames make it, and the cuts make no difference.  *)
(***************************************************************************)
EXTENDS Session, SequenceTheorems, NaturalsInduction, WellFoundedInduction, TLAPS

-----------------------------------------------------------------------------
(* The framer.                                                             *)

\* The length limit is larger than a header.
LEMMA RoomForHeader == kOFMaxFrameLen \in Nat /\ kOFMaxFrameLen > kOFHeaderLen
<1>1. Base \in Nat /\ Base >= 15
  BY BaseAssumption DEF FLOW_MOD
<1>2. Base * Base \in Nat /\ Base * Base >= 15 * Base
  BY <1>1
<1> QED  BY <1>1, <1>2 DEF kOFMaxFrameLen, kOFHeaderLen

\* The length of a header is a number.
LEMMA LengthIsInt ==
  ASSUME NEW buf \in Seq(Byte), Len(buf) >= kOFHeaderLen
  PROVE  /\ parse_header(buf).length \in Int
         /\ parse_header(buf).length = Ntohs(buf, 2)
         /\ parse_header(buf).type \in Byte
         /\ parse_header(buf).version \in Byte
         /\ parse_header(buf).type = buf[2]
<1>1. \A i \in 1 .. 8 : buf[i] \in Byte
  BY ElementOfSeq DEF kOFHeaderLen
<1>2. \A b \in Byte : b \in Int
  BY BaseAssumption DEF Byte
<1>3. Base * buf[3] \in Int /\ buf[4] \in Int
  BY <1>1, <1>2, BaseAssumption
<1> QED  BY <1>1, <1>3 DEF parse_header, Ntohs

\* What a complete frame is: at least a header, at most the buffer.
LEMMA CompleteFrame ==
  ASSUME NEW buf \in Seq(Byte), Complete(buf)
  PROVE  /\ parse_header(buf).length \in kOFHeaderLen .. kOFMaxFrameLen
         /\ parse_header(buf).length <= Len(buf)
         /\ parse_header(buf) \in [version : Byte, type : Byte, length : 0 .. kOFMaxFrameLen]
<1>1. Len(buf) >= kOFHeaderLen
  BY DEF Complete
<1>2. parse_header(buf).length \in kOFHeaderLen .. kOFMaxFrameLen
  BY <1>1, LengthIsInt, RoomForHeader DEF Complete, Invalid, kOFHeaderLen
<1>3. parse_header(buf) = [version |-> parse_header(buf).version,
                           type |-> parse_header(buf).type,
                           length |-> parse_header(buf).length]
  BY DEF parse_header
<1>4. parse_header(buf).length \in 0 .. kOFMaxFrameLen
  BY <1>2 DEF kOFHeaderLen
<1> QED  BY <1>1, <1>2, <1>3, <1>4, LengthIsInt DEF Complete

\* next_frame cuts the buffer in two after the length of the frame.
LEMMA Cut ==
  ASSUME NEW buf \in Seq(Byte), Complete(buf)
  PROVE  LET n == parse_header(buf).length IN
         /\ Body(buf) \in Seq(Byte) /\ Len(Body(buf)) = n - kOFHeaderLen
         /\ \A j \in 1 .. n - kOFHeaderLen : Body(buf)[j] = buf[kOFHeaderLen + j]
         /\ Rest(buf) \in Seq(Byte) /\ Len(Rest(buf)) = Len(buf) - n
         /\ \A j \in 1 .. Len(buf) - n : Rest(buf)[j] = buf[n + j]
<1> DEFINE n == parse_header(buf).length
<1>1. n \in Int /\ n >= 8 /\ n <= Len(buf) /\ Len(buf) \in Nat
  BY CompleteFrame DEF kOFHeaderLen
<1>2. \A i \in 1 .. Len(buf) : buf[i] \in Byte
  BY ElementOfSeq
<1>3. \A i \in 9 .. n : buf[i] \in Byte
  BY <1>1, <1>2
<1>4. \A i \in n + 1 .. Len(buf) : buf[i] \in Byte
  BY <1>1, <1>2
<1>5. /\ SubSeq(buf, 9, n) \in Seq(Byte)
      /\ Len(SubSeq(buf, 9, n)) = n - 8
      /\ \A j \in 1 .. n - 8 : SubSeq(buf, 9, n)[j] = buf[8 + j]
  BY <1>1, <1>3
<1>6. /\ SubSeq(buf, n + 1, Len(buf)) \in Seq(Byte)
      /\ Len(SubSeq(buf, n + 1, Len(buf))) = Len(buf) - n
      /\ \A j \in 1 .. Len(buf) - n : SubSeq(buf, n + 1, Len(buf))[j] = buf[n + j]
  BY <1>1, <1>4
<1>7. Body(buf) = SubSeq(buf, 9, n) /\ Rest(buf) = SubSeq(buf, n + 1, Len(buf))
  BY DEF Body, Rest, kOFHeaderLen
<1>8. kOFHeaderLen = 8
  BY DEF kOFHeaderLen
<1> HIDE DEF n
<1>9. /\ Body(buf) \in Seq(Byte) /\ Len(Body(buf)) = n - kOFHeaderLen
      /\ \A j \in 1 .. n - kOFHeaderLen : Body(buf)[j] = buf[kOFHeaderLen + j]
  BY <1>5, <1>7, <1>8
<1>10. /\ Rest(buf) \in Seq(Byte) /\ Len(Rest(buf)) = Len(buf) - n
       /\ \A j \in 1 .. Len(buf) - n : Rest(buf)[j] = buf[n + j]
  BY <1>6, <1>7
<1> QED  BY <1>9, <1>10 DEF n

\* recv appends the next bytes of the stream.
LEMMA Received ==
  ASSUME TypeOK, NEW n \in Chunks, Recv(n)
  PROVE  /\ n \in Nat \ {0}
         /\ received' \in 0 .. Len(stream)
         /\ inbuf' \in Seq(Byte)
         /\ Len(inbuf') = Len(inbuf) + n
         /\ \A j \in 1 .. Len(inbuf) : inbuf'[j] = inbuf[j]
         /\ \A j \in Len(inbuf) + 1 .. Len(inbuf) + n : inbuf'[j] = stream[received + (j - Len(inbuf))]
<1>1. n \in Nat \ {0} /\ received \in Nat /\ received + n <= Len(stream) /\ Len(stream) \in Nat
  BY ChunksAssumption DEF TypeOK, Recv
<1>2. \A i \in 1 .. Len(stream) : stream[i] \in Byte
  BY ElementOfSeq DEF TypeOK
<1>3. \A i \in received + 1 .. received + n : stream[i] \in Byte
  BY <1>1, <1>2
<1> DEFINE got == SubSeq(stream, received + 1, received + n)
<1>4. /\ got \in Seq(Byte)
      /\ Len(got) = n
      /\ \A j \in 1 .. n : got[j] = stream[received + j]
  BY <1>1, <1>3
<1>5. inbuf \in Seq(Byte) /\ inbuf' = inbuf \o got
  BY DEF TypeOK, Recv
<1>6. /\ inbuf' \in Seq(Byte)
      /\ Len(inbuf') = Len(inbuf) + n
      /\ \A j \in 1 .. Len(inbuf) : inbuf'[j] = inbuf[j]
      /\ \A j \in Len(inbuf) + 1 .. Len(inbuf) + n : inbuf'[j] = got[j - Len(inbuf)]
  BY <1>1, <1>4, <1>5
<1>7. \A j \in Len(inbuf) + 1 .. Len(inbuf) + n : j - Len(inbuf) \in 1 .. n
  BY <1>1, <1>5
<1> QED  BY <1>1, <1>4, <1>6, <1>7 DEF Recv

-----------------------------------------------------------------------------
(* Types.                                                                  *)

Open == {"CONNECTED", "HELLO_DONE", "FEATURES_DONE", "ACTIVE"}

\* The lifecycle of an open session stays in its states.
LEMMA AdvanceType ==
  ASSUME NEW s \in Open, NEW type PROVE advance_lifecycle(s, type) \in Open
  BY DEF Open, advance_lifecycle

\* The event that a frame becomes.
LEMMA HandleType ==
  ASSUME TypeOK, Handle
  PROVE  /\ parse_header(inbuf).length \in 8 .. kOFMaxFrameLen
         /\ inbuf' \in Seq(Byte)
         /\ state' \in Open
         /\ events' = Append(events, [header |-> parse_header(inbuf), body |-> Body(inbuf),
                                      state |-> state', at |-> next])
         /\ events' \in Seq(Event)
         /\ next' \in Nat /\ next' = next + parse_header(inbuf).length
<1>1. Complete(inbuf) /\ inbuf \in Seq(Byte)
  BY DEF Handle, TypeOK
<1>2. parse_header(inbuf).length \in 8 .. kOFMaxFrameLen
  BY <1>1, CompleteFrame DEF kOFHeaderLen
<1>3. inbuf' \in Seq(Byte)
  BY <1>1, Cut DEF Handle
<1>4. state' \in Open
  <2>1. state \in Open
    BY DEF TypeOK, Handle, Open
  <2> QED  BY <2>1, AdvanceType DEF Handle
<1> DEFINE e == [header |-> parse_header(inbuf), body |-> Body(inbuf), state |-> state', at |-> next]
<1>5. e \in Event
  BY <1>1, <1>4, CompleteFrame, Cut DEF Event, TypeOK, Open
<1>6. events' = Append(events, e) /\ next' = next + parse_header(inbuf).length
  BY DEF Handle
<1>7. events' \in Seq(Event)
  BY <1>5, <1>6 DEF TypeOK
<1>8. next' \in Nat
  BY <1>2, <1>6 DEF TypeOK
<1> QED  BY <1>2, <1>3, <1>4, <1>6, <1>7, <1>8

\* Sessions start with the declared types and keep them.
THEOREM TypeCorrect == Spec => []TypeOK
<1>1. Init => TypeOK
  BY StreamsAssumption DEF Init, TypeOK
<1>2. TypeOK /\ [Next]_vars => TypeOK'
  <2> SUFFICES ASSUME TypeOK, [Next]_vars PROVE TypeOK'
    OBVIOUS
  <2>1. ASSUME NEW n \in Chunks, Recv(n) PROVE TypeOK'
    BY <2>1, Received DEF TypeOK, Recv
  <2>2. CASE RecvEnd
    BY <2>2 DEF TypeOK, RecvEnd
  <2>3. CASE Wait \/ Reject
    BY <2>3 DEF TypeOK, Wait, Reject
  <2>4. CASE Refuse
    <3>1. inbuf' \in Seq(Byte) /\ parse_header(inbuf).length \in Nat
      BY <2>4, Cut, CompleteFrame DEF TypeOK, Refuse, kOFHeaderLen
    <3>2. next' \in Nat
      BY <2>4, <3>1 DEF TypeOK, Refuse
    <3> QED  BY <2>4, <3>1, <3>2 DEF TypeOK, Refuse
  <2>5. CASE Handle
    <3>1. state' # "CLOSING" /\ pc' = "frame" /\ pc = "frame"
      BY <2>5, HandleType DEF Handle, Open
    <3> QED  BY <2>5, <3>1, HandleType DEF TypeOK, Handle, Open
  <2>6. CASE UNCHANGED vars
    BY <2>6 DEF TypeOK, vars
  <2> QED  BY <2>1, <2>2, <2>3, <2>4, <2>5, <2>6 DEF Next, Ingest
<1> QED  BY <1>1, <1>2, PTL DEF Spec


-----------------------------------------------------------------------------
(* The frames tile the stream.                                             *)

\* Where the next frame begins, and that the buffer is the stream from there.
Aligned ==
  /\ next = (IF events = <<>> THEN 0 ELSE EndOf(Len(events)))
  /\ next + Len(inbuf) = received
  /\ \A j \in 1 .. Len(inbuf) : inbuf[j] = stream[next + j]

TileInv == TypeOK /\ FramesTile /\ CaughtUp

\* The event that Handle appends continues the tiling.
LEMMA NewTile ==
  ASSUME TypeOK, Aligned, Handle
  PROVE  LET m == Len(events) + 1
             e == events'[m]
         IN /\ Len(events') = m
            /\ \A i \in 1 .. Len(events) : events'[i] = events[i]
            /\ e.at = next
            /\ e.header.length = parse_header(inbuf).length
            /\ next + e.header.length <= received
            /\ e.header.type = stream[next + 2]
            /\ e.header.length = Ntohs(stream, next + 2)
            /\ e.header.length = kOFHeaderLen + Len(e.body)
            /\ \A j \in 1 .. Len(e.body) : e.body[j] = stream[next + kOFHeaderLen + j]
<1> DEFINE n == parse_header(inbuf).length
           f == [header |-> parse_header(inbuf), body |-> Body(inbuf),
                 state |-> state', at |-> next]
<1>1. /\ Complete(inbuf) /\ inbuf \in Seq(Byte) /\ Len(inbuf) \in Nat
      /\ next \in Nat /\ received \in Nat /\ events \in Seq(Event) /\ Len(events) \in Nat
  BY DEF Handle, TypeOK
<1>2. n \in Int /\ n >= 8 /\ n <= Len(inbuf)
  BY <1>1, CompleteFrame DEF kOFHeaderLen
<1>3. events' = Append(events, f)
  BY HandleType
<1>4. /\ Len(events') = Len(events) + 1
      /\ \A i \in 1 .. Len(events) : events'[i] = events[i]
      /\ events'[Len(events) + 1] = f
  BY <1>1, <1>3
<1>5. next + n <= received
  BY <1>1, <1>2 DEF Aligned
<1>6. inbuf[2] = stream[next + 2] /\ inbuf[3] = stream[next + 3] /\ inbuf[4] = stream[next + 4]
  <2>1. 2 \in 1 .. Len(inbuf) /\ 3 \in 1 .. Len(inbuf) /\ 4 \in 1 .. Len(inbuf)
    BY <1>1, <1>2
  <2>2. \A i \in 1 .. Len(inbuf) : inbuf[i] = stream[next + i]
    BY <1>1 DEF Aligned
  <2> HIDE DEF n, f
  <2> QED  BY <2>1, <2>2
<1>7. f.header.type = stream[next + 2]
  BY <1>6 DEF parse_header
<1>8. n = Ntohs(stream, next + 2)
  <2>1. n = Base * inbuf[3] + inbuf[4]
    BY DEF parse_header, Ntohs
  <2>2. Ntohs(stream, next + 2) = Base * stream[next + 3] + stream[next + 4]
    <3>1. (next + 2) + 1 = next + 3 /\ (next + 2) + 2 = next + 4
      BY <1>1
    <3> QED  BY <3>1 DEF Ntohs
  <2> QED  BY <1>6, <2>1, <2>2
<1>9. Len(Body(inbuf)) = n - 8 /\ \A j \in 1 .. n - 8 : Body(inbuf)[j] = inbuf[8 + j]
  BY <1>1, Cut DEF kOFHeaderLen
<1>10. \A j \in 1 .. n - 8 : Body(inbuf)[j] = stream[next + 8 + j]
  <2> SUFFICES ASSUME NEW j \in 1 .. n - 8 PROVE Body(inbuf)[j] = stream[next + 8 + j]
    OBVIOUS
  <2>1. 8 + j \in 1 .. Len(inbuf) /\ next + (8 + j) = next + 8 + j
    BY <1>1, <1>2
  <2> QED  BY <1>9, <2>1 DEF Aligned
<1>11. n = 8 + Len(Body(inbuf))
  BY <1>2, <1>9
<1>12. f.header.length = n /\ f.body = Body(inbuf) /\ f.at = next
  OBVIOUS
<1> QED  BY <1>4, <1>5, <1>7, <1>8, <1>9, <1>10, <1>11, <1>12 DEF kOFHeaderLen

\* Handle keeps what CaughtUp says of the buffer.
LEMMA NewBoundary ==
  ASSUME TypeOK, Aligned, Handle
  PROVE  Aligned'
<1> DEFINE n == parse_header(inbuf).length
<1>1. /\ Complete(inbuf) /\ inbuf \in Seq(Byte) /\ Len(inbuf) \in Nat
      /\ next \in Nat /\ received \in Nat /\ Len(events) \in Nat
  BY DEF Handle, TypeOK
<1>2. n \in Int /\ n >= 8 /\ n <= Len(inbuf)
  BY <1>1, CompleteFrame DEF kOFHeaderLen
<1>3. /\ next' = next + n /\ UNCHANGED <<received, stream>>
      /\ Len(inbuf') = Len(inbuf) - n
      /\ \A j \in 1 .. Len(inbuf) - n : inbuf'[j] = inbuf[n + j]
  BY <1>1, Cut DEF Handle
<1>4. next' + Len(inbuf') = received'
  BY <1>1, <1>2, <1>3 DEF Aligned
<1>5. \A j \in 1 .. Len(inbuf') : inbuf'[j] = stream'[next' + j]
  <2> SUFFICES ASSUME NEW j \in 1 .. Len(inbuf) - n PROVE inbuf'[j] = stream[(next + n) + j]
    BY <1>3
  <2>1. n + j \in 1 .. Len(inbuf) /\ next + (n + j) = (next + n) + j
    BY <1>1, <1>2
  <2> QED  BY <1>3, <2>1 DEF Aligned
<1>6. next' = (IF events' = <<>> THEN 0 ELSE EndOf(Len(events))')
  <2>1. Len(events') = Len(events) + 1 /\ events' # <<>>
    BY NewTile, HandleType, <1>1 DEF TypeOK
  <2>2. events'[Len(events')].at = next /\ events'[Len(events')].header.length = n
    BY NewTile, <2>1
  <2> QED  BY <1>3, <2>1, <2>2 DEF EndOf
<1> QED  BY <1>4, <1>5, <1>6 DEF Aligned


\* The tiling and the alignment of the buffer are kept together by every step.
LEMMA TileStep == TileInv /\ [Next]_vars => FramesTile' /\ CaughtUp'
<1> SUFFICES ASSUME TypeOK, FramesTile, CaughtUp, [Next]_vars PROVE FramesTile' /\ CaughtUp'
  BY DEF TileInv
<1>0. /\ next \in Nat /\ received \in Nat /\ Len(inbuf) \in Nat /\ inbuf \in Seq(Byte)
      /\ events \in Seq(Event) /\ Len(events) \in Nat
  BY DEF TypeOK
<1>1. ASSUME NEW n \in Chunks, Recv(n) PROVE FramesTile' /\ CaughtUp'
  <2>0. n \in Nat /\ Len(inbuf') = Len(inbuf) + n
    BY <1>1, Received
  <2>1. received <= received' /\ received' = received + n /\ UNCHANGED <<events, stream, next>>
    BY <1>0, <1>1, <2>0 DEF Recv
  <2>2. FramesTile'
    <3> SUFFICES ASSUME NEW i \in 1 .. Len(events)
                 PROVE  EndOf(i) <= received'
      BY <2>1 DEF FramesTile, EndOf
    <3>1. events[i] \in Event /\ EndOf(i) <= received
      BY <1>0, ElementOfSeq DEF FramesTile
    <3>2. EndOf(i) \in Nat
      BY <3>1, RoomForHeader DEF EndOf, Event
    <3> QED  BY <1>0, <2>0, <2>1, <3>1, <3>2
  <2>3. Aligned
    BY <1>1 DEF CaughtUp, Aligned, Recv
  <2>4. next + Len(inbuf') = received'
    BY <1>0, <2>0, <2>1, <2>3 DEF Aligned
  <2>5. ASSUME NEW j \in 1 .. Len(inbuf') PROVE inbuf'[j] = stream[next + j]
    <3>1. CASE j \in 1 .. Len(inbuf)
      BY <3>1, <2>3, <1>1, Received DEF Aligned
    <3>2. CASE j \notin 1 .. Len(inbuf)
      <4>1. j \in Len(inbuf) + 1 .. Len(inbuf) + n
        BY <1>0, <2>0, <3>2
      <4>2. received + (j - Len(inbuf)) = next + j
        <5>1. next + Len(inbuf) = received
          BY <2>3 DEF Aligned
        <5>2. j \in Int
          BY <1>0, <2>0, <4>1
        <5> QED  BY <1>0, <5>1, <5>2
      <4> QED  BY <4>1, <4>2, <1>1, Received
    <3> QED  BY <3>1, <3>2
  <2>6. pc' = "frame" /\ next' = (IF events' = <<>> THEN 0 ELSE EndOf(Len(events))')
    BY <1>1, <2>1, <2>3 DEF Recv, Aligned, EndOf
  <2> QED  BY <2>1, <2>2, <2>4, <2>5, <2>6 DEF CaughtUp
<1>2. CASE RecvEnd \/ Reject \/ Refuse
  <2>1. UNCHANGED <<events, stream, received>> /\ pc' = "closed"
    BY <1>2 DEF RecvEnd, Reject, Refuse
  <2> QED  BY <2>1 DEF FramesTile, CaughtUp, EndOf
<1>3. CASE Wait
  <2>1. FramesTile'
    BY <1>3 DEF FramesTile, EndOf, Wait
  <2>2. Aligned /\ UNCHANGED <<stream, received, inbuf, events, next>> /\ pc' = "recv"
    BY <1>3 DEF CaughtUp, Aligned, Wait
  <2>3. Len(inbuf) < kOFHeaderLen \/ Len(inbuf) < Ntohs(stream, next + 2)
    <3> SUFFICES ASSUME Len(inbuf) >= 8 PROVE Len(inbuf) < Ntohs(stream, next + 2)
      BY DEF kOFHeaderLen
    <3>1. NeedMore(inbuf)
      BY <1>3 DEF Wait
    <3>2. ~(Len(inbuf) >= parse_header(inbuf).length)
      BY <3>1 DEF NeedMore, Complete, kOFHeaderLen
    <3>3. Len(inbuf) < parse_header(inbuf).length
      BY <1>0, <3>2, LengthIsInt DEF kOFHeaderLen
    <3>4. inbuf[3] = stream[next + 3] /\ inbuf[4] = stream[next + 4]
      <4>1. \A j \in 1 .. Len(inbuf) : inbuf[j] = stream[next + j]
        BY <2>2 DEF Aligned
      <4>2. 3 \in 1 .. Len(inbuf) /\ 4 \in 1 .. Len(inbuf)
        BY <1>0
      <4> QED  BY <4>1, <4>2
    <3>5. Ntohs(stream, next + 2) = Base * stream[next + 3] + stream[next + 4]
      <4>1. (next + 2) + 1 = next + 3 /\ (next + 2) + 2 = next + 4
        BY <1>0
      <4> QED  BY <4>1 DEF Ntohs
    <3> QED  BY <3>3, <3>4, <3>5 DEF parse_header, Ntohs
  <2> QED  BY <2>1, <2>2, <2>3 DEF CaughtUp, Aligned, EndOf
<1>4. CASE Handle
  <2>1. Aligned /\ pc' = "frame" /\ UNCHANGED <<stream, received>>
    BY <1>4 DEF CaughtUp, Aligned, Handle
  <2>2. CaughtUp'
    BY <1>4, <2>1, NewBoundary DEF CaughtUp, Aligned
  <2> PICK m \in Nat : m = Len(events) + 1
    BY <1>0
  <2>3. Len(events') = m
    BY <1>4, <2>1, NewTile
  <2>4. ASSUME NEW i \in 1 .. Len(events), i > 1
        PROVE  events'[i - 1] = events[i - 1]
    <3>1. i - 1 \in 1 .. Len(events)
      BY <1>0, <2>4
    <3> QED  BY <1>4, <2>1, <3>1, NewTile
  <2>5. next = (IF m = 1 THEN 0 ELSE EndOf(m - 1)')
    <3>1. CASE Len(events) = 0
      BY <1>0, <3>1, <2>1 DEF Aligned
    <3>2. CASE Len(events) # 0
      <4>1. Len(events) \in 1 .. Len(events) /\ m - 1 = Len(events) /\ m # 1 /\ events # <<>>
        BY <1>0, <3>2
      <4>2. events'[Len(events)] = events[Len(events)]
        BY <1>4, <2>1, <4>1, NewTile
      <4>3. next = events[Len(events)].at + events[Len(events)].header.length
        BY <2>1, <4>1 DEF Aligned, EndOf
      <4>4. EndOf(m - 1)' = events'[Len(events)].at + events'[Len(events)].header.length
        BY <4>1 DEF EndOf
      <4> QED  BY <4>1, <4>2, <4>3, <4>4
    <3> QED  BY <3>1, <3>2
  <2>6. ASSUME NEW i \in 1 .. Len(events') PROVE FramesTile!(i)'
    <3>1. CASE i = m
      <4>1. /\ events'[m].at = next
            /\ next + events'[m].header.length <= received
            /\ events'[m].header.type = stream[next + 2]
            /\ events'[m].header.length = Ntohs(stream, next + 2)
            /\ events'[m].header.length = kOFHeaderLen + Len(events'[m].body)
            /\ \A j \in 1 .. Len(events'[m].body) :
                 events'[m].body[j] = stream[next + kOFHeaderLen + j]
        BY <1>4, <2>1, NewTile
      <4>2. EndOf(m)' <= received'
        BY <2>1, <4>1 DEF EndOf
      <4> QED  BY <2>1, <2>5, <3>1, <4>1, <4>2
    <3>2. CASE i # m
      <4>1. i \in 1 .. Len(events)
        BY <1>0, <2>3, <3>2
      <4>2. events'[i] = events[i]
        BY <4>1, <1>4, <2>1, NewTile
      <4>3. FramesTile!(i)
        BY <4>1 DEF FramesTile
      <4> QED  BY <2>1, <2>4, <4>1, <4>2, <4>3 DEF EndOf
    <3> QED  BY <3>1, <3>2
  <2> QED  BY <2>2, <2>6 DEF FramesTile
<1>5. CASE UNCHANGED vars
  BY <1>5 DEF FramesTile, CaughtUp, EndOf, vars
<1> QED  BY <1>1, <1>2, <1>3, <1>4, <1>5 DEF Next, Ingest

\* However a stream is cut, what is dispatched are its frames, one after the
\* other and whole.
THEOREM Tiling == Spec => []FramesTile
<1>1. Init => FramesTile /\ CaughtUp
  BY DEF Init, FramesTile, CaughtUp, kOFHeaderLen
<1>2. TileInv /\ [Next]_vars => FramesTile' /\ CaughtUp'
  BY TileStep
<1> QED  BY <1>1, <1>2, TypeCorrect, PTL DEF Spec, TileInv

\* The buffer is the rest of the stream, and nothing complete is kept waiting.
THEOREM NothingWaits == Spec => []CaughtUp
<1>1. Init => FramesTile /\ CaughtUp
  BY DEF Init, FramesTile, CaughtUp, kOFHeaderLen
<1>2. TileInv /\ [Next]_vars => FramesTile' /\ CaughtUp'
  BY TileStep
<1> QED  BY <1>1, <1>2, TypeCorrect, PTL DEF Spec, TileInv


-----------------------------------------------------------------------------
(* The buffer and the loop.                                                *)

\* A buffer without a complete frame is shorter than the largest frame.
LEMMA LessThanAFrame ==
  ASSUME NEW buf \in Seq(Byte), NeedMore(buf)
  PROVE  Len(buf) < kOFMaxFrameLen
<1>1. CASE Len(buf) < 8
  BY <1>1, RoomForHeader DEF kOFHeaderLen
<1>2. CASE Len(buf) >= 8
  <2>1. Len(buf) < parse_header(buf).length
    BY <1>2, LengthIsInt DEF NeedMore, Complete, kOFHeaderLen
  <2>2. parse_header(buf).length <= kOFMaxFrameLen
    BY <1>2, LengthIsInt, RoomForHeader DEF NeedMore, Invalid, kOFHeaderLen
  <2> QED  BY <1>2, <2>1, <2>2, LengthIsInt, RoomForHeader DEF kOFHeaderLen
<1> QED  BY <1>1, <1>2

\* Taking a frame out leaves at least a header's length less.
LEMMA RestIsShorter ==
  ASSUME NEW buf \in Seq(Byte), Complete(buf)
  PROVE  Len(Rest(buf)) + kOFHeaderLen <= Len(buf)
<1>1. parse_header(buf).length \in Int /\ parse_header(buf).length >= 8
  BY CompleteFrame DEF kOFHeaderLen
<1>2. Len(Rest(buf)) = Len(buf) - parse_header(buf).length
  BY Cut
<1> QED  BY <1>1, <1>2 DEF kOFHeaderLen

\* conn.inbuf holds less than a frame and one recv.
THEOREM Bounded == Spec => []BufferBounded
<1>1. Init => BufferBounded
  BY RoomForHeader DEF Init, BufferBounded, kOFHeaderLen
<1>2. TypeOK /\ BufferBounded /\ [Next]_vars => BufferBounded'
  <2> SUFFICES ASSUME TypeOK, BufferBounded, [Next]_vars PROVE BufferBounded'
    OBVIOUS
  <2>0. Len(inbuf) \in Nat /\ inbuf \in Seq(Byte) /\ kOFMaxFrameLen \in Nat
    BY RoomForHeader DEF TypeOK
  <2>1. ASSUME NEW n \in Chunks, Recv(n) PROVE BufferBounded'
    <3>1. Len(inbuf') = Len(inbuf) + n /\ n \in Nat
      BY <2>1, Received
    <3>2. Len(inbuf) < kOFMaxFrameLen /\ pc' = "frame"
      BY <2>1 DEF Recv, BufferBounded
    <3>3. Len(inbuf') < kOFMaxFrameLen + n
      BY <2>0, <3>1, <3>2
    <3> QED  BY <3>2, <3>3 DEF BufferBounded
  <2>2. CASE RecvEnd \/ Reject
    BY <2>2 DEF RecvEnd, Reject, BufferBounded
  <2>3. CASE Wait
    BY <2>0, <2>3, LessThanAFrame DEF Wait, BufferBounded
  <2>4. CASE Refuse \/ Handle
    <3>1. inbuf' = Rest(inbuf) /\ Complete(inbuf) /\ pc' # "recv"
      BY <2>4 DEF Refuse, Handle
    <3>2. Rest(inbuf) \in Seq(Byte) /\ Len(inbuf') + 8 <= Len(inbuf)
      BY <2>0, <3>1, Cut, RestIsShorter DEF kOFHeaderLen
    <3>3. PICK n \in Chunks \cup {0} : Len(inbuf) < kOFMaxFrameLen + n
      BY DEF BufferBounded
    <3>4. n \in Nat /\ Len(inbuf') \in Nat
      BY <3>1, <3>2, ChunksAssumption
    <3>5. Len(inbuf') < kOFMaxFrameLen + n
      BY <2>0, <3>2, <3>3, <3>4
    <3> QED  BY <3>1, <3>5 DEF BufferBounded
  <2>5. CASE UNCHANGED vars
    BY <2>5 DEF vars, BufferBounded
  <2> QED  BY <2>1, <2>2, <2>3, <2>4, <2>5 DEF Next, Ingest
<1> QED  BY <1>1, <1>2, TypeCorrect, PTL DEF Spec

\* The loop of ingest goes on only when it has consumed a header or more.
THEOREM LoopTerminates == Spec => LoopConsumes
<1>1. TypeOK /\ [Next]_vars
        => [pc = "frame" /\ pc' = "frame" => Len(inbuf') + kOFHeaderLen <= Len(inbuf)]_vars
  <2> SUFFICES ASSUME TypeOK, Next, pc = "frame", pc' = "frame"
               PROVE  Len(inbuf') + kOFHeaderLen <= Len(inbuf)
    OBVIOUS
  <2>1. Handle
    BY DEF Next, Ingest, Recv, RecvEnd, Wait, Reject, Refuse
  <2> QED  BY <2>1, RestIsShorter DEF Handle, TypeOK
<1> QED  BY <1>1, TypeCorrect, PTL DEF Spec, LoopConsumes

-----------------------------------------------------------------------------
(* The lifecycle.                                                          *)

Features == {FEATURES_REPLY, FEATURES_REQUEST}

\* What was dispatched so far: a HELLO, a FEATURES after it, a frame after both.
SawHello    == \E i \in 1 .. Len(events) : Occurs({HELLO}, i)
SawFeatures == \E i, j \in 1 .. Len(events) :
                 i < j /\ Occurs({HELLO}, i) /\ Occurs(Features, j)
SawMore     == \E i, j, k \in 1 .. Len(events) :
                 i < j /\ j < k /\ Occurs({HELLO}, i) /\ Occurs(Features, j)

\* How one more dispatched frame changes it.
LEMMA OneMore ==
  ASSUME TypeOK, Handle
  PROVE  LET t == parse_header(inbuf).type IN
         /\ SawHello' <=> SawHello \/ t = HELLO
         /\ SawFeatures' <=> SawFeatures \/ (SawHello /\ t \in Features)
         /\ SawMore' <=> SawMore \/ SawFeatures
<1> DEFINE t == parse_header(inbuf).type
           N == 1 .. Len(events)
<1>1. PICK m \in Nat : m = Len(events) + 1
  BY DEF TypeOK
<1>2. /\ Len(events) \in Nat /\ Len(events') = m
      /\ \A i \in N : events'[i] = events[i]
      /\ events'[m].header.type = t
  <2>1. events \in Seq(Event)
    BY DEF TypeOK
  <2> QED  BY <1>1, <2>1, HandleType
<1>3. \A i \in 1 .. m : i \in N \/ i = m
  BY <1>1, <1>2
<1>4. \A i \in N : i < m /\ i \in 1 .. m
  BY <1>1, <1>2
<1>5. m \in 1 .. m /\ m \notin N /\ \A i \in 1 .. m : ~(m < i)
  BY <1>1, <1>2
<1>6. ASSUME NEW T, NEW i \in N PROVE Occurs(T, i)' <=> Occurs(T, i)
  BY <1>2, <1>4 DEF Occurs
<1>7. ASSUME NEW T PROVE Occurs(T, m)' <=> t \in T
  BY <1>2, <1>5 DEF Occurs
<1>8. SawHello' <=> SawHello \/ t = HELLO
  BY <1>2, <1>3, <1>4, <1>5, <1>6, <1>7 DEF SawHello
<1>9. SawFeatures' <=> SawFeatures \/ (SawHello /\ t \in Features)
  BY <1>2, <1>3, <1>4, <1>5, <1>6, <1>7 DEF SawHello, SawFeatures
<1>10. SawMore' <=> SawMore \/ SawFeatures
  BY <1>2, <1>3, <1>4, <1>5, <1>6, <1>7 DEF SawMore, SawFeatures
<1> QED  BY <1>8, <1>9, <1>10

\* What the state of an open session should be.
Lifecycle ==
  IF SawMore THEN "ACTIVE"
  ELSE IF SawFeatures THEN "FEATURES_DONE"
  ELSE IF SawHello THEN "HELLO_DONE" ELSE "CONNECTED"

\* LifecycleFollowsFrames in these terms.
LifecycleInv == pc # "closed" => state = Lifecycle

LEMMA LifecycleMeaning == LifecycleInv => LifecycleFollowsFrames
BY DEF LifecycleInv, LifecycleFollowsFrames, Lifecycle, SawMore, SawFeatures, SawHello, Features

\* The state of a session is what the dispatched frames make it.
THEOREM LifecycleCorrect == Spec => []LifecycleFollowsFrames
<1>1. Init => LifecycleInv
  <2> SUFFICES ASSUME Init PROVE state = Lifecycle
    BY DEF LifecycleInv
  <2>1. Len(events) = 0 /\ state = "CONNECTED"
    BY DEF Init
  <2>2. ~SawMore /\ ~SawFeatures /\ ~SawHello
    BY <2>1 DEF SawMore, SawFeatures, SawHello
  <2> QED  BY <2>1, <2>2 DEF Lifecycle
<1>2. TypeOK /\ LifecycleInv /\ [Next]_vars => LifecycleInv'
  <2> SUFFICES ASSUME TypeOK, pc # "closed" => state = Lifecycle, [Next]_vars, pc' # "closed"
               PROVE  state' = Lifecycle'
    BY DEF LifecycleInv
  <2>1. CASE (\E n \in Chunks : Recv(n)) \/ Wait \/ UNCHANGED vars
    <3>1. UNCHANGED <<state, events>> /\ pc # "closed"
      BY <2>1 DEF Recv, Wait, vars
    <3> QED  BY <3>1 DEF Lifecycle, SawMore, SawFeatures, SawHello, Occurs
  <2>2. CASE RecvEnd \/ Reject \/ Refuse
    BY <2>2 DEF RecvEnd, Reject, Refuse
  <2>3. CASE Handle
    <3> DEFINE t == parse_header(inbuf).type
    <3>1. state = Lifecycle /\ state' = advance_lifecycle(state, t)
      BY <2>3 DEF Handle
    <3>2. /\ SawHello' <=> SawHello \/ t = HELLO
          /\ SawFeatures' <=> SawFeatures \/ (SawHello /\ t \in Features)
          /\ SawMore' <=> SawMore \/ SawFeatures
      BY <2>3, OneMore
    <3>3. (SawMore => SawFeatures) /\ (SawFeatures => SawHello)
      BY DEF SawMore, SawFeatures, SawHello
    <3>4. CASE SawFeatures
      BY <3>1, <3>2, <3>4 DEF Lifecycle, advance_lifecycle
    <3>5. CASE ~SawFeatures /\ SawHello
      BY <3>1, <3>2, <3>3, <3>5 DEF Lifecycle, advance_lifecycle, Features
    <3>6. CASE ~SawHello
      BY <3>1, <3>2, <3>3, <3>6 DEF Lifecycle, advance_lifecycle
    <3> QED  BY <3>4, <3>5, <3>6
  <2> QED  BY <2>1, <2>2, <2>3 DEF Next, Ingest
<1> QED  BY <1>1, <1>2, TypeCorrect, LifecycleMeaning, PTL DEF Spec


-----------------------------------------------------------------------------
(* The cuts do not matter: what a session has dispatched is a function of  *)
(* the bytes received, however many calls of recv brought them.            *)

\* What next_frame and the validator let pass at the head of a buffer.
Takes(buf) == Complete(buf) /\ run_validator(parse_header(buf).type, Body(buf))

\* The bytes got from the offset at on.
From(got, at) == SubSeq(got, at + 1, Len(got))

\* Where the i-th frame of ev ends, and the state of the session after it.
Stop(ev, i) == IF i = 0 THEN 0 ELSE ev[i].at + ev[i].header.length
After(ev, i) == IF i = 0 THEN "CONNECTED" ELSE ev[i].state

\* What a frame at the head of buf becomes.
Dispatched(buf, at, before) ==
  [header |-> parse_header(buf), body |-> Body(buf),
   state |-> advance_lifecycle(before, parse_header(buf).type), at |-> at]

\* ev are frames of got, taken off one after the other, from the first byte on.
FramesOf(got, ev) ==
  \A i \in 1 .. Len(ev) :
    /\ Takes(From(got, Stop(ev, i - 1)))
    /\ ev[i] = Dispatched(From(got, Stop(ev, i - 1)), Stop(ev, i - 1), After(ev, i - 1))

\* ... and there is no further one: got read in one go.
Reads(got, ev) ==
  /\ ev \in Seq(Event)
  /\ FramesOf(got, ev)
  /\ ~Takes(From(got, Stop(ev, Len(ev))))

\* What recv has returned so far.
Got == SubSeq(stream, 1, received)

\* The least number of a set of numbers.
LEMMA LeastNumber ==
  ASSUME NEW T, T \subseteq Nat, T # {}
  PROVE  \E n \in T : \A m \in T : n <= m
<1>1. \E n \in T : \A m \in T : ~(<<m, n>> \in OpToRel(<, Nat))
  BY NatLessThanWellFounded, WFMin
<1>2. \A m, n \in Nat : <<m, n>> \in OpToRel(<, Nat) <=> m < n
  BY DEF OpToRel
<1>3. \A m, n \in Nat : ~(m < n) => n <= m
  OBVIOUS
<1> QED  BY <1>1, <1>2, <1>3

\* Two readings of the same bytes agree as far as both go: where they first
\* differed, they would have taken the same frame in the same state.
LEMMA ReadingsAgree ==
  ASSUME NEW got, NEW e1 \in Seq(Event), NEW e2 \in Seq(Event),
         FramesOf(got, e1), FramesOf(got, e2)
  PROVE  \A i \in 1 .. Len(e1) : i <= Len(e2) => e1[i] = e2[i]
<1> DEFINE Differ == {i \in 1 .. Len(e1) : i <= Len(e2) /\ e1[i] # e2[i]}
<1>0. Len(e1) \in Nat /\ Len(e2) \in Nat
  OBVIOUS
<1>1. ASSUME Differ # {} PROVE FALSE
  <2>0. \E i \in Differ : \A j \in Differ : i <= j
    <3>1. Differ \subseteq Nat
      BY <1>0
    <3> HIDE DEF Differ
    <3> QED  BY <1>1, <3>1, LeastNumber
  <2>1. PICK i \in Differ : \A j \in Differ : i <= j
    BY <2>0
  <2>2. i \in 1 .. Len(e1) /\ i \in 1 .. Len(e2) /\ e1[i] # e2[i]
    BY <1>0
  <2>3. Stop(e1, i - 1) = Stop(e2, i - 1) /\ After(e1, i - 1) = After(e2, i - 1)
    <3>1. CASE i = 1
      BY <3>1 DEF Stop, After
    <3>2. CASE i # 1
      <4>1. i - 1 \in 1 .. Len(e1) /\ i - 1 <= Len(e2) /\ ~(i <= i - 1)
        BY <1>0, <2>2, <3>2
      <4>2. e1[i - 1] = e2[i - 1]
        BY <2>1, <4>1
      <4> QED  BY <4>2 DEF Stop, After
    <3> QED  BY <3>1, <3>2
  <2>4. /\ e1[i] = Dispatched(From(got, Stop(e1, i - 1)), Stop(e1, i - 1), After(e1, i - 1))
        /\ e2[i] = Dispatched(From(got, Stop(e2, i - 1)), Stop(e2, i - 1), After(e2, i - 1))
    BY <2>2 DEF FramesOf
  <2> QED  BY <2>2, <2>3, <2>4
<1> QED  BY <1>1

\* Neither reading is longer: what the longer one takes next, the shorter could.
LEMMA NoLonger ==
  ASSUME NEW got, NEW e1, NEW e2, Reads(got, e1), Reads(got, e2)
  PROVE  Len(e2) <= Len(e1)
<1> SUFFICES ASSUME ~(Len(e2) <= Len(e1)) PROVE FALSE
  OBVIOUS
<1> DEFINE n == Len(e1)
<1>0. e1 \in Seq(Event) /\ e2 \in Seq(Event) /\ n \in Nat /\ Len(e2) \in Nat
  BY DEF Reads
<1>1. n + 1 \in 1 .. Len(e2) /\ (n + 1) - 1 = n
  BY <1>0
<1>2. Stop(e2, n) = Stop(e1, n)
  <2>1. CASE n = 0
    BY <2>1 DEF Stop
  <2>2. CASE n # 0
    <3>1. n \in 1 .. Len(e1) /\ n <= Len(e2)
      BY <1>0, <1>1, <2>2
    <3>2. e1[n] = e2[n]
      BY <1>0, <3>1, ReadingsAgree DEF Reads
    <3> QED  BY <3>2 DEF Stop
  <2> QED  BY <2>1, <2>2
<1>3. Takes(From(got, Stop(e2, n)))
  BY <1>1 DEF Reads, FramesOf
<1> QED  BY <1>2, <1>3 DEF Reads

\* The bytes determine what is dispatched for them.
THEOREM OneReading ==
  ASSUME NEW got, NEW e1, NEW e2, Reads(got, e1), Reads(got, e2)
  PROVE  e1 = e2
<1>1. e1 \in Seq(Event) /\ e2 \in Seq(Event) /\ Len(e1) \in Nat /\ Len(e2) \in Nat
  BY DEF Reads
<1>2. Len(e1) = Len(e2)
  BY <1>1, NoLonger
<1>3. \A i \in 1 .. Len(e1) : e1[i] = e2[i]
  BY <1>1, <1>2, ReadingsAgree DEF Reads
<1> QED  BY <1>1, <1>2, <1>3, SeqEqual

\* More bytes behind a complete frame leave it what it is.
LEMMA MoreBehind ==
  ASSUME NEW buf \in Seq(Byte), NEW long \in Seq(Byte), Len(buf) <= Len(long),
         \A j \in 1 .. Len(buf) : long[j] = buf[j], Complete(buf)
  PROVE  Complete(long) /\ parse_header(long) = parse_header(buf) /\ Body(long) = Body(buf)
<1> DEFINE n == parse_header(buf).length
<1>1. n \in 8 .. kOFMaxFrameLen /\ n <= Len(buf) /\ Len(buf) \in Nat /\ Len(long) \in Nat
  BY CompleteFrame DEF kOFHeaderLen
<1>2. parse_header(long) = parse_header(buf)
  <2>1. 1 \in 1 .. Len(buf) /\ 2 \in 1 .. Len(buf) /\ 3 \in 1 .. Len(buf) /\ 4 \in 1 .. Len(buf)
    BY <1>1, RoomForHeader
  <2>2. long[1] = buf[1] /\ long[2] = buf[2] /\ long[3] = buf[3] /\ long[4] = buf[4]
    BY <2>1
  <2> QED  BY <2>2 DEF parse_header, Ntohs
<1>3. Complete(long)
  BY <1>1, <1>2, RoomForHeader DEF Complete, Invalid, kOFHeaderLen
<1>4. /\ Body(buf) \in Seq(Byte) /\ Len(Body(buf)) = n - 8
      /\ \A j \in 1 .. n - 8 : Body(buf)[j] = buf[8 + j]
  BY Cut DEF kOFHeaderLen
<1>5. /\ Body(long) \in Seq(Byte) /\ Len(Body(long)) = n - 8
      /\ \A j \in 1 .. n - 8 : Body(long)[j] = long[8 + j]
  BY <1>2, <1>3, Cut DEF kOFHeaderLen
<1>6. \A j \in 1 .. n - 8 : 8 + j \in 1 .. Len(buf)
  BY <1>1, RoomForHeader
<1>7. \A j \in 1 .. Len(Body(long)) : Body(long)[j] = Body(buf)[j]
  BY <1>4, <1>5, <1>6
<1>8. Body(long) = Body(buf)
  BY <1>4, <1>5, <1>7, SeqEqual
<1> QED  BY <1>2, <1>3, <1>8

\* The rest of what was received, byte by byte.
LEMMA FromGot ==
  ASSUME NEW s \in Seq(Byte), NEW n \in 0 .. Len(s), NEW at \in 0 .. n
  PROVE  LET rest == From(SubSeq(s, 1, n), at) IN
         /\ rest \in Seq(Byte) /\ Len(rest) = n - at
         /\ \A j \in 1 .. n - at : rest[j] = s[at + j]
<1>1. /\ SubSeq(s, 1, n) \in Seq(Byte) /\ Len(SubSeq(s, 1, n)) = n
      /\ \A j \in 1 .. n : SubSeq(s, 1, n)[j] = s[j]
  <2>1. \A j \in 1 .. n : s[j] \in Byte
    BY ElementOfSeq
  <2> QED  BY <2>1
<1>2. PICK got : got = SubSeq(s, 1, n)
  OBVIOUS
<1>3. \A j \in at + 1 .. n : got[j] \in Byte
  BY <1>1, <1>2, ElementOfSeq
<1>4. /\ SubSeq(got, at + 1, n) \in Seq(Byte) /\ Len(SubSeq(got, at + 1, n)) = n - at
      /\ \A j \in 1 .. n - at : SubSeq(got, at + 1, n)[j] = got[at + j]
  BY <1>3
<1>5. \A j \in 1 .. n - at : at + j \in 1 .. n
  OBVIOUS
<1> QED  BY <1>1, <1>2, <1>4, <1>5 DEF From

\* The session's part of it: the frames so far are read from what was received,
\* the state of an open session is the one after the last of them, the buffer is
\* the rest, and a session that is not in ingest has no frame left to take.
ReadInv ==
  /\ FramesOf(Got, events)
  /\ pc # "closed" => state = After(events, Len(events))
  /\ pc # "frame" => ~Takes(From(Got, Stop(events, Len(events))))

\* Of an open session the buffer is what was received and not yet taken.
LEMMA BufferIsRest ==
  ASSUME TileInv, pc # "closed"
  PROVE  /\ next = Stop(events, Len(events))
         /\ inbuf = From(Got, next)
<1>1. /\ next = (IF events = <<>> THEN 0 ELSE EndOf(Len(events)))
      /\ next + Len(inbuf) = received
      /\ \A j \in 1 .. Len(inbuf) : inbuf[j] = stream[next + j]
  BY DEF TileInv, CaughtUp
<1>2. /\ next \in Nat /\ inbuf \in Seq(Byte) /\ Len(inbuf) \in Nat /\ events \in Seq(Event)
      /\ stream \in Seq(Byte) /\ received \in 0 .. Len(stream) /\ Len(stream) \in Nat
  BY DEF TileInv, TypeOK
<1>3. next = Stop(events, Len(events))
  BY <1>1, <1>2 DEF Stop, EndOf
<1>4. next \in 0 .. received /\ received - next = Len(inbuf)
  BY <1>1, <1>2
<1>5. PICK rest : rest = From(Got, next)
  OBVIOUS
<1>6. /\ rest \in Seq(Byte) /\ Len(rest) = Len(inbuf)
      /\ \A j \in 1 .. Len(inbuf) : rest[j] = stream[next + j]
  BY <1>2, <1>4, <1>5, FromGot DEF Got
<1>7. inbuf = rest
  BY <1>1, <1>2, <1>6, SeqEqual
<1> QED  BY <1>3, <1>5, <1>7

\* The frames end inside what was received.
LEMMA StopsInside ==
  ASSUME TileInv, NEW i \in 0 .. Len(events)
  PROVE  Stop(events, i) \in 0 .. received
<1>1. events \in Seq(Event) /\ received \in Nat /\ Len(events) \in Nat
  BY DEF TileInv, TypeOK
<1>2. CASE i = 0
  BY <1>1, <1>2 DEF Stop
<1>3. CASE i # 0
  <2>1. i \in 1 .. Len(events) /\ events[i] \in Event
    BY <1>1, <1>3, ElementOfSeq
  <2>2. EndOf(i) <= received
    BY <2>1 DEF TileInv, FramesTile
  <2>3. EndOf(i) \in Nat
    BY <2>1, RoomForHeader DEF EndOf, Event
  <2> QED  BY <1>1, <1>3, <2>2, <2>3 DEF Stop, EndOf
<1> QED  BY <1>2, <1>3

\* More bytes leave the frames taken so far what they are.
LEMMA MoreReceived ==
  ASSUME TileInv, FramesOf(Got, events), NEW n \in Chunks, Recv(n)
  PROVE  FramesOf(Got, events)'
<1>1. /\ stream \in Seq(Byte) /\ received \in 0 .. Len(stream) /\ received' \in 0 .. Len(stream)
      /\ received' = received + n /\ n \in Nat /\ Len(stream) \in Nat
      /\ UNCHANGED <<stream, events>> /\ Len(events) \in Nat
  <2>1. TypeOK
    BY DEF TileInv
  <2>2. n \in Nat \ {0} /\ received' \in 0 .. Len(stream)
    BY <2>1, Received
  <2> QED  BY <2>1, <2>2 DEF TypeOK, Recv
<1>2. PICK got, more : got = Got /\ more = Got'
  OBVIOUS
<1>3. got = SubSeq(stream, 1, received) /\ more = SubSeq(stream, 1, received')
  BY <1>1, <1>2 DEF Got
<1>4. ASSUME NEW i \in 1 .. Len(events)
      PROVE  /\ Takes(From(more, Stop(events, i - 1)))
             /\ events[i] = Dispatched(From(more, Stop(events, i - 1)), Stop(events, i - 1),
                                       After(events, i - 1))
  <2>1. PICK at : at = Stop(events, i - 1)
    OBVIOUS
  <2>2. i - 1 \in 0 .. Len(events)
    BY <1>1
  <2>3. at \in 0 .. received /\ at \in 0 .. received'
    BY <1>1, <2>1, <2>2, StopsInside
  <2>4. PICK buf, long : buf = From(got, at) /\ long = From(more, at)
    OBVIOUS
  <2>5. /\ buf \in Seq(Byte) /\ Len(buf) = received - at
        /\ \A j \in 1 .. received - at : buf[j] = stream[at + j]
    BY <1>1, <1>3, <2>3, <2>4, FromGot
  <2>6. /\ long \in Seq(Byte) /\ Len(long) = received' - at
        /\ \A j \in 1 .. received' - at : long[j] = stream[at + j]
    BY <1>1, <1>3, <2>3, <2>4, FromGot
  <2>7. received - at <= received' - at /\ 1 .. received - at \subseteq 1 .. received' - at
    BY <1>1, <2>3
  <2>8. \A j \in 1 .. Len(buf) : long[j] = buf[j]
    BY <2>5, <2>6, <2>7
  <2>9. Takes(buf) /\ events[i] = Dispatched(buf, at, After(events, i - 1))
    BY <1>2, <2>1, <2>4 DEF FramesOf
  <2>10. Complete(long) /\ parse_header(long) = parse_header(buf) /\ Body(long) = Body(buf)
    BY <2>5, <2>6, <2>7, <2>8, <2>9, MoreBehind DEF Takes
  <2> QED  BY <2>1, <2>4, <2>9, <2>10 DEF Takes, Dispatched
<1> QED  BY <1>1, <1>2, <1>4 DEF FramesOf, Stop, After

\* Handle takes the next frame of what was received.
LEMMA OneFrameMore ==
  ASSUME TileInv, ReadInv, Handle
  PROVE  FramesOf(Got, events)' /\ state' = After(events, Len(events))'
<1>1. /\ pc = "frame" /\ Takes(inbuf) /\ state' = advance_lifecycle(state, parse_header(inbuf).type)
      /\ UNCHANGED <<stream, received>> /\ Got' = Got
  BY DEF Handle, Takes, Got
<1>2. events \in Seq(Event) /\ Len(events) \in Nat
  BY DEF TileInv, TypeOK
<1>3. PICK m \in Nat : m = Len(events) + 1
  BY <1>2
<1>4. PICK e : e = Dispatched(inbuf, next, state)
  OBVIOUS
<1>5. events' = Append(events, e)
  BY <1>1, <1>4 DEF Handle, Dispatched
<1>6. /\ Len(events') = m
      /\ \A i \in 1 .. Len(events) : events'[i] = events[i]
      /\ events'[m] = e
  BY <1>2, <1>3, <1>5
<1>7. \A i \in 0 .. Len(events) : /\ Stop(events', i) = Stop(events, i)
                                  /\ After(events', i) = After(events, i)
  BY <1>2, <1>6 DEF Stop, After
<1>8. /\ inbuf = From(Got, Stop(events, Len(events))) /\ next = Stop(events, Len(events))
      /\ state = After(events, Len(events))
  BY <1>1, BufferIsRest DEF ReadInv
<1>9. ASSUME NEW i \in 1 .. m
      PROVE  /\ Takes(From(Got, Stop(events', i - 1)))
             /\ events'[i] = Dispatched(From(Got, Stop(events', i - 1)), Stop(events', i - 1),
                                        After(events', i - 1))
  <2>1. /\ i - 1 \in 0 .. Len(events)
        /\ Stop(events', i - 1) = Stop(events, i - 1)
        /\ After(events', i - 1) = After(events, i - 1)
    BY <1>2, <1>3, <1>7
  <2>2. CASE i = m
    <3>1. i - 1 = Len(events)
      BY <1>2, <1>3, <2>2
    <3> QED  BY <1>1, <1>4, <1>6, <1>8, <2>1, <2>2, <3>1
  <2>3. CASE i # m
    <3>1. i \in 1 .. Len(events)
      BY <1>2, <1>3, <2>3
    <3> QED  BY <1>6, <2>1, <3>1 DEF ReadInv, FramesOf
  <2> QED  BY <2>2, <2>3
<1>10. FramesOf(Got', events')
  BY <1>1, <1>6, <1>9 DEF FramesOf
<1>11. m # 0 /\ e.state = state'
  BY <1>1, <1>2, <1>3, <1>4 DEF Dispatched
<1> QED  BY <1>6, <1>10, <1>11 DEF After, FramesOf, Stop

LEMMA ReadInit == Init => ReadInv
<1> SUFFICES ASSUME Init PROVE ReadInv
  OBVIOUS
<1>1. events = <<>> /\ Len(events) = 0 /\ state = "CONNECTED" /\ received = 0 /\ stream \in Seq(Byte)
  BY StreamsAssumption DEF Init
<1>2. Stop(events, Len(events)) = 0
  BY <1>1 DEF Stop
<1>3. Len(From(Got, 0)) = 0
  <2>1. received \in 0 .. Len(stream) /\ 0 \in 0 .. received
    BY <1>1
  <2>2. Len(From(SubSeq(stream, 1, received), 0)) = received - 0
    BY <1>1, <2>1, FromGot
  <2> QED  BY <1>1, <2>2 DEF Got
<1>4. ~Takes(From(Got, 0))
  BY <1>3 DEF Takes, Complete, kOFHeaderLen
<1> QED  BY <1>1, <1>2, <1>4 DEF ReadInv, FramesOf, After

LEMMA ReadStep == TileInv /\ ReadInv /\ [Next]_vars => ReadInv'
<1> SUFFICES ASSUME TileInv, ReadInv, [Next]_vars PROVE ReadInv'
  OBVIOUS
<1>1. ASSUME NEW n \in Chunks, Recv(n) PROVE ReadInv'
  <2>1. UNCHANGED <<state, events>> /\ pc = "recv" /\ pc' = "frame"
    BY <1>1 DEF Recv
  <2> QED  BY <1>1, <2>1, MoreReceived DEF ReadInv, After
<1>2. CASE RecvEnd
  BY <1>2 DEF RecvEnd, ReadInv, FramesOf, Takes, From, Stop, After, Got
<1>3. CASE Wait \/ Reject \/ Refuse
  <2>1. /\ UNCHANGED <<stream, received, events>>
        /\ pc = "frame" /\ pc' # "frame" /\ (pc' # "closed" => state' = state)
    BY <1>3 DEF Wait, Reject, Refuse
  <2>2. ~Takes(inbuf)
    BY <1>3 DEF Wait, Reject, Refuse, Takes, NeedMore, Complete
  <2>3. ~Takes(From(Got, Stop(events, Len(events))))
    BY <2>1, <2>2, BufferIsRest
  <2> QED  BY <2>1, <2>3 DEF ReadInv, FramesOf, From, Stop, After, Got
<1>4. CASE Handle
  <2>1. pc' = "frame"
    BY <1>4 DEF Handle
  <2> QED  BY <1>4, <2>1, OneFrameMore DEF ReadInv
<1>5. CASE UNCHANGED vars
  BY <1>5 DEF vars, ReadInv, FramesOf, Takes, From, Stop, After, Got
<1> QED  BY <1>1, <1>2, <1>3, <1>4, <1>5 DEF Next, Ingest

\* Between two calls of recv, and after the last, exactly the frames are dispatched
\* that one reading of all the bytes received would give, with the same states.
THEOREM SessionReads == Spec => [](pc # "frame" => Reads(Got, events))
<1>1. TypeOK /\ ReadInv => (pc # "frame" => Reads(Got, events))
  BY DEF ReadInv, Reads, TypeOK
<1>2. Spec => []TileInv
  BY TypeCorrect, Tiling, NothingWaits, PTL DEF TileInv
<1> QED  BY <1>1, <1>2, TypeCorrect, ReadInit, ReadStep, PTL DEF Spec

\* The one reading of some bytes.
Framing(got) == CHOOSE ev : Reads(got, ev)

\* Whatever the cuts: two sessions that got the same bytes, in whatever pieces,
\* have dispatched the same frames in the same states (OpenFlowLib.h:279-300).
THEOREM CutsDoNotMatter == Spec => [](pc # "frame" => events = Framing(Got))
<1>1. Reads(Got, events) => events = Framing(Got)
  <2> SUFFICES ASSUME Reads(Got, events) PROVE events = Framing(Got)
    OBVIOUS
  <2>1. Reads(Got, Framing(Got))
    BY DEF Framing
  <2> QED  BY <2>1, OneReading
<1> QED  BY <1>1, SessionReads, PTL


-----------------------------------------------------------------------------
(* What is true of the comment that the run session_traffic refutes.       *)

\* After a FEATURES message has completed the handshake, everything is general
\* traffic of an active session.
ActiveAfterHandshake ==
  \A i, j \in 1 .. Len(events) :
    i < j /\ events[i].state \in {"FEATURES_DONE", "ACTIVE"} => events[j].state = "ACTIVE"

\* "must exchange HELLO and FEATURES before becoming ACTIVE for general traffic"
\* (OpenFlowLib.h:91-92) does not keep a PACKET_IN from being dispatched early; but
\* no frame after the handshake is dispatched in any state but ACTIVE, and the
\* session never falls back.
THEOREM NoWayBack == Spec => []ActiveAfterHandshake
<1>1. Init => ReadInv /\ ActiveAfterHandshake
  BY ReadInit DEF Init, ActiveAfterHandshake
<1>2. TileInv /\ ReadInv /\ ActiveAfterHandshake /\ [Next]_vars => ActiveAfterHandshake'
  <2> SUFFICES ASSUME TileInv, ReadInv, ActiveAfterHandshake, [Next]_vars
               PROVE  ActiveAfterHandshake'
    OBVIOUS
  <2>1. CASE Handle
    <3>0. events \in Seq(Event) /\ Len(events) \in Nat
      BY DEF TileInv, TypeOK
    <3>1. PICK m \in Nat : m = Len(events)
      BY <3>0
    <3>2. /\ Len(events') = m + 1
          /\ \A i \in 1 .. m : events'[i] = events[i]
          /\ events'[m + 1].state = state'
          /\ state' = advance_lifecycle(state, parse_header(inbuf).type) /\ pc = "frame"
      BY <2>1, <3>0, <3>1 DEF Handle
    <3>3. ASSUME NEW i \in 1 .. m, events[i].state \in {"FEATURES_DONE", "ACTIVE"}
          PROVE  state' = "ACTIVE"
      <4>1. state = events[m].state /\ m \in 1 .. m
        BY <3>1, <3>2 DEF ReadInv, After
      <4>2. events[m].state \in {"FEATURES_DONE", "ACTIVE"}
        <5>1. CASE i = m
          BY <3>3, <5>1
        <5>2. CASE i # m
          <6>1. i < m
            BY <5>2
          <6> QED  BY <3>1, <3>3, <4>1, <6>1 DEF ActiveAfterHandshake
        <5> QED  BY <5>1, <5>2
      <4> QED  BY <3>2, <4>1, <4>2 DEF advance_lifecycle
    <3>4. ASSUME NEW i \in 1 .. m + 1, NEW j \in 1 .. m + 1, i < j,
                 events'[i].state \in {"FEATURES_DONE", "ACTIVE"}
          PROVE  events'[j].state = "ACTIVE"
      <4>1. i \in 1 .. m /\ events'[i] = events[i]
        BY <3>2, <3>4
      <4>2. CASE j = m + 1
        BY <3>2, <3>3, <3>4, <4>1, <4>2
      <4>3. CASE j # m + 1
        <5>1. j \in 1 .. m
          BY <4>3
        <5> QED  BY <3>1, <3>2, <3>4, <4>1, <5>1 DEF ActiveAfterHandshake
      <4> QED  BY <4>2, <4>3
    <3> QED  BY <3>2, <3>4 DEF ActiveAfterHandshake
  <2>2. CASE ~Handle
    <3>1. events' = events
      BY <2>2 DEF Next, Ingest, Recv, RecvEnd, Wait, Reject, Refuse, vars
    <3> QED  BY <3>1 DEF ActiveAfterHandshake
  <2> QED  BY <2>1, <2>2
<1>3. Spec => []TileInv
  BY TypeCorrect, Tiling, NothingWaits, PTL DEF TileInv
<1> QED  BY <1>1, <1>2, <1>3, ReadStep, PTL DEF Spec

=============================================================================
