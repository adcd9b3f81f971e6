----------------------------- MODULE LLDPParser -----------------------------
(***************************************************************************)
(* LLDPParser (src/api/SouthBoundInterface/Utils/LLDPParser.hpp): whether  *)
(* the body of a PACKET_IN is an LLDP frame, and the loop that reads its   *)
(* items, each a head of 16 bits (7 of type, 9 of length) and a value.     *)
(*                                                                         *)
(* Bodies are sequences of bytes.  Offsets count from 0, as in the code.   *)
(***************************************************************************)
EXTENDS Naturals, Sequences

Byte == 0 .. 255

EtherType == 35020   \* 0x88CC

END_OF_LLDPDU == 0
CHASSIS_ID    == 1
PORT_ID       == 2
TIME_TO_LIVE  == 3
SYSTEM_NAME   == 5

\* The two bytes of p from offset o on, the first being the higher.
Word(p, o) == 256 * p[o + 1] + p[o + 2]

isLLDP(p) == Len(p) >= 14 /\ Word(p, 12) = EtherType

TypeAt(p, o) == Word(p, o) \div 512

LengthAt(p, o) == Word(p, o) % 512

\* An item at offset o is there as a whole.
Fits(p, o) == o + 2 <= Len(p) /\ o + 2 + LengthAt(p, o) <= Len(p)

\* n bytes of p from offset o on, as std::string(&p[o], n).
Text(p, o, n) == SubSeq(p, o + 1, o + n)

(***************************************************************************)
(* One turn of the loop of parse.  The chassis and the port are read       *)
(* without their first byte, a subtype: for an item of length 0 the string *)
(* would have the length 0 - 1, and its constructor throws.  The ttl stays *)
(* indeterminate, here -, unless there is an item for it.                  *)
(***************************************************************************)
Turn(p, s) ==
  LET o == s.offset
      type == TypeAt(p, o)
      length == LengthAt(p, o)
      value == o + 2
      id == Text(p, value + 1, length - 1)
      next == [s EXCEPT !.offset = value + length]
  IN IF s.end # "loop" THEN s
     ELSE IF ~Fits(p, o) \/ type = END_OF_LLDPDU THEN [s EXCEPT !.end = "returned"]
     ELSE IF type \in {CHASSIS_ID, PORT_ID} /\ length = 0 THEN [s EXCEPT !.end = "thrown"]
     ELSE CASE type = CHASSIS_ID -> [next EXCEPT !.chassis_id = id]
            [] type = PORT_ID -> [next EXCEPT !.port_id = id]
            [] type = SYSTEM_NAME -> [next EXCEPT !.system_name = Text(p, value, length)]
            [] type = TIME_TO_LIVE /\ length = 2 -> [next EXCEPT !.ttl = <<Word(p, value)>>]
            [] OTHER -> next

Start == [offset |-> 14, end |-> "loop",
          chassis_id |-> <<>>, port_id |-> <<>>, system_name |-> <<>>, ttl |-> <<>>]

\* A turn consumes two bytes at least, so there are fewer turns than bytes; a
\* state that is not "loop" stays as it is.
parse(p) ==
  LET after[n \in 0 .. Len(p)] == IF n = 0 THEN Start ELSE Turn(p, after[n - 1])
  IN after[CHOOSE n \in 0 .. Len(p) : after[n].end # "loop"]

-----------------------------------------------------------------------------
(***************************************************************************)
(* What a reader of the format would say, without a loop: an item starts   *)
(* after the Ethernet header or where the one before it, if it is not the  *)
(* end mark, stops; of several items of a type the last one counts; and an *)
(* identifier needs its subtype.                                           *)
(***************************************************************************)
Items(p) ==
  LET starts[o \in 14 .. Len(p)] ==
        Fits(p, o) /\ (\/ o = 14
                       \/ \E q \in 14 .. o - 2 : /\ o = q + 2 + (Word(p, q) % 512)
                                                 /\ TypeAt(p, q) # END_OF_LLDPDU
                                                 /\ starts[q])
  IN {o \in 14 .. Len(p) : starts[o]}

OfType(p, type) == {o \in Items(p) : TypeAt(p, o) = type}

\* The value of the last item of a type, without its first skip bytes.
LastValue(p, type, skip) ==
  LET all == OfType(p, type) IN
  IF all = {} THEN <<>>
  ELSE LET o == CHOOSE x \in all : \A y \in all : y <= x
       IN SubSeq(p, o + 3 + skip, o + 2 + (Word(p, o) % 512))

\* parse comes to an end on every body; it throws exactly if an identifier it
\* gets to is empty, and returns what the format says otherwise.
ParseAgrees(p) ==
  LET result == parse(p)
      empty == {o \in OfType(p, CHASSIS_ID) \cup OfType(p, PORT_ID) : Word(p, o) % 512 = 0}
  IN /\ result.end = (IF empty = {} THEN "returned" ELSE "thrown")
     /\ result.end = "returned" =>
          /\ result.chassis_id = LastValue(p, CHASSIS_ID, 1)
          /\ result.port_id = LastValue(p, PORT_ID, 1)
          /\ result.system_name = LastValue(p, SYSTEM_NAME, 0)

=============================================================================
