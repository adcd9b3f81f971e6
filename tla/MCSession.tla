----------------------------- MODULE MCSession ------------------------------
(* Streams for Session, with bytes of 4 bits so that the largest length    *)
(* (255, for 65535) and one more are within reach: every sequence of up to *)
(* three messages, good ones, ones at a boundary and malformed ones.       *)
EXTENDS Session, SequencesExt

\* n bytes with the value b.
Fill(n, b) == [i \in 1 .. n |-> b]

\* A message with a given length field.  The xid looks like a header.
Message(version, type, length, body) ==
  <<version, type, length \div Base, length % Base, 1, 0, 0, 8>> \o body

Frame(type, body) == Message(kOFVersion10, type, kOFHeaderLen + Len(body), body)

\* The body of a PACKET_IN that claims n bytes of data and has m.
PacketIn(n, m) == Fill(4, 15) \o <<n \div Base, n % Base>> \o Fill(4, 1) \o Fill(m, 1)

\* The body of a FLOW_MOD.
FlowMod(command) == Fill(48, 0) \o <<0, command>> \o Fill(22, 0)

Handshaking ==
  {Frame(HELLO, <<>>), Frame(FEATURES_REPLY, <<1, 0>>), Frame(FEATURES_REQUEST, <<>>)}

Good == Handshaking \cup
  {Frame(PACKET_IN, PacketIn(2, 2)), Frame(PACKET_IN, PacketIn(0, 0)),
   Frame(ERROR, <<0, 1, 0, 8>>)}

Bad ==
  {Frame(PACKET_IN, PacketIn(3, 2)), Frame(PACKET_IN, Fill(9, 0)), Frame(ERROR, <<0, 1, 0>>),
   Message(2, HELLO, 8, <<>>), Message(1, HELLO, 7, <<>>), Message(1, HELLO, 0, <<>>),
   Message(1, HELLO, 12, <<1, 0>>)}

Long ==
  {Frame(FLOW_MOD, FlowMod(4)), Frame(FLOW_MOD, FlowMod(5)), Frame(FLOW_MOD, Fill(71, 0)),
   Frame(FEATURES_REPLY, Fill(247, 1))}

ShortStreams ==
  {a \o b \o c : a \in Good, b \in Good \cup Bad, c \in Good \cup Bad}

LongStreams == {Frame(HELLO, <<>>) \o a \o b : a \in Long, b \in Long \cup Handshaking}

AllStreams == ShortStreams \cup LongStreams

SomeStreams == {a \o b : a \in Good \cup Bad, b \in Good}

AllChunks == {1, 2, 7, 16}

=============================================================================
