--------------------------- MODULE MCPacketHandlers ---------------------------
(* Bounded instances of PacketHandlers: two switches that take turns on two *)
(* descriptors.                                                             *)
EXTENDS PacketHandlers, TLC

CONSTANTS s1, s2, f1, f2

TwoSwitches  == {s1, s2}
TwoFds       == {f1, f2}

Symmetry == Permutations(Switches) \cup Permutations(Fds)

\* buffer_id, total_len, in_port, reason, pad, and four bytes of the frame,
\* the last two of which are where the parser looks for the EtherType.
Lead(type) == <<255, 255, 255, 255, 0, 0, 0, 1, 0, 0, 1, 128>> \o type

LLDP  == Lead(<<136, 204>>)
Other == Lead(<<8, 0>>)

Chassis(id) == <<2, Len(id) + 1, 4>> \o id
Port(id)    == <<4, Len(id) + 1, 5>> \o id
TTL         == <<6, 2, 0, 120>>
End         == <<0, 0>>

\* An item of a type that the parser skips, n bytes of 255 long: no two of them
\* are the head of an item that fits.
Skipped(n) == <<254 + (n \div 256), n % 256>> \o [i \in 1 .. n |-> 255]

\* Neighbors with their items in another order, after one another or behind a
\* long one; an identifier without its subtype; a packet of another kind.
SomePackets ==
  {LLDP \o Chassis(<<7>>) \o Port(<<1>>) \o TTL \o End,
   LLDP \o Port(<<2>>) \o Skipped(257) \o TTL \o Chassis(<<7>>) \o Chassis(<<8>>),
   LLDP \o <<2, 0>>,
   Other \o Chassis(<<9>>)}

\* What tests/send_msg.ps1 sends: the body is 10 bytes and then the frame, whose
\* first two items have each a length that is not that of their value.
TestPacket ==
  LET frame == <<1, 128, 194, 0, 0, 14, 0, 17, 34, 51, 68, 85, 136, 204>>
                 \o <<2, 7, 7, 83, 119, 105, 116, 99, 104, 49>>
                 \o <<4, 6, 7, 69, 116, 104, 49>> \o TTL \o End
  IN <<255, 255, 255, 255, 0, Len(frame), 0, 1, 0, 0>> \o frame

WithTest == SomePackets \cup {TestPacket}

\* The parser on its own: every sequence of a few bytes after the lead, the heads
\* of all items that it tells apart, with lengths that fit and that do not ...
Heads == {0, 1, 2, 4, 10}

ShortBodies == {LLDP \o t : t \in UNION {[1 .. n -> Heads] : n \in 0 .. 5}}

\* ... and items around the ninth bit of the length, the longest one also cut off.
LongBodies ==
  LET Long(t, n) == <<t + (n \div 256), n % 256>>
      Fill(n) == [i \in 1 .. n |-> 255]
  IN {LLDP \o Long(t, n) \o Fill(n) \o Port(<<1>>) : t \in {2, 4, 10, 254}, n \in {255, 256, 511}}
       \cup {LLDP \o Long(t, 511) \o Fill(510) : t \in {2, 4, 10, 254}}

ASSUME ParserAgrees == \A p \in WithTest \cup ShortBodies \cup LongBodies : ParseAgrees(p)

=============================================================================
