------------------------- MODULE LLDPParser_proofs -------------------------
(***************************************************************************)
(* The loop of LLDPParser::parse on a body of any length and content: each *)
(* turn reads inside the body, and each turn that goes on has consumed two *)
(* bytes at least.                                                         *)
(***************************************************************************)
EXTENDS LLDPParser, SequenceTheorems, WellFoundedInduction, TLAPS

\* What the loop may hold: an offset behind the Ethernet header and inside the
\* body, and texts made of bytes.
Results(p) ==
  [offset : 14 .. Len(p), end : {"loop", "returned", "thrown"},
   chassis_id : Seq(Byte), port_id : Seq(Byte), system_name : Seq(Byte),
   ttl : Seq(Nat)]

\* The head of an item that is inside the body is a number.
LEMMA WordType ==
  ASSUME NEW p \in Seq(Byte), NEW o \in Nat, o + 2 <= Len(p)
  PROVE  Word(p, o) \in Nat
<1>1. p[o + 1] \in Byte /\ p[o + 2] \in Byte
  <2>1. o + 1 \in 1 .. Len(p) /\ o + 2 \in 1 .. Len(p)
    OBVIOUS
  <2> QED  BY <2>1, ElementOfSeq
<1>2. \A a, b \in Byte : 256 * a + b \in Nat
  BY DEF Byte
<1> QED  BY <1>1, <1>2 DEF Word

\* So is its length.
LEMMA LengthType ==
  ASSUME NEW p \in Seq(Byte), NEW o \in Nat, o + 2 <= Len(p)
  PROVE  LengthAt(p, o) \in Nat
<1>1. Word(p, o) \in Nat
  BY WordType
<1>2. \A n \in Nat : n % 512 \in Nat
  OBVIOUS
<1> QED  BY <1>1, <1>2 DEF LengthAt

\* A text that ends inside the body is made of its bytes.
LEMMA TextType ==
  ASSUME NEW p \in Seq(Byte), NEW o \in Nat, NEW n \in Nat, o + n <= Len(p)
  PROVE  Text(p, o, n) \in Seq(Byte) /\ Len(Text(p, o, n)) = n
<1>1. \A i \in o + 1 .. o + n : p[i] \in Byte
  <2> SUFFICES ASSUME NEW i \in o + 1 .. o + n PROVE p[i] \in Byte
    OBVIOUS
  <2>1. i \in 1 .. Len(p)
    OBVIOUS
  <2> QED  BY <2>1, ElementOfSeq
<1> QED  BY <1>1, SubSeqProperties DEF Text

\* The loop begins inside the body if isLLDP has accepted it.
LEMMA StartsInside == \A p \in Seq(Byte) : isLLDP(p) => Start \in Results(p)
<1> SUFFICES ASSUME NEW p \in Seq(Byte), isLLDP(p) PROVE Start \in Results(p)
  OBVIOUS
<1>1. 14 \in 14 .. Len(p)
  BY DEF isLLDP
<1>2. <<>> \in Seq(Byte)
  OBVIOUS
<1> QED  BY <1>1, <1>2 DEF Start, Results

\* A turn of the loop reads no byte outside the body, on any input: whatever
\* length an item claims, the texts it makes are bytes of the body, and the
\* offset stays in it.
THEOREM TurnStaysInside ==
  \A p \in Seq(Byte) : \A s \in Results(p) : Turn(p, s) \in Results(p)
<1> SUFFICES ASSUME NEW p \in Seq(Byte), NEW s \in Results(p) PROVE Turn(p, s) \in Results(p)
  OBVIOUS
<1> DEFINE o == s.offset
           n == LengthAt(p, o)
           id == Text(p, o + 3, n - 1)
           next == [s EXCEPT !.offset = o + 2 + n]
<1>1. o \in Nat /\ o >= 14 /\ o <= Len(p) /\ Len(p) \in Nat
  BY DEF Results
<1>2. \A end \in {"returned", "thrown"} : [s EXCEPT !.end = end] \in Results(p)
  BY DEF Results
<1>3. CASE s.end = "loop" /\ Fits(p, o)
  <2>1. n \in Nat /\ o + 2 + n <= Len(p)
    BY <1>1, <1>3, LengthType DEF Fits
  <2>2. o + 2 + n \in 14 .. Len(p)
    BY <1>1, <2>1
  <2>3. next \in Results(p)
    BY <2>2 DEF Results
  <2>4. n # 0 => id \in Seq(Byte)
    <3>1. n # 0 => o + 3 \in Nat /\ n - 1 \in Nat /\ (o + 3) + (n - 1) <= Len(p)
      BY <1>1, <2>1
    <3> QED  BY <3>1, TextType
  <2>5. Text(p, o + 2, n) \in Seq(Byte)
    <3>1. o + 2 \in Nat /\ (o + 2) + n <= Len(p)
      BY <1>1, <2>1
    <3> QED  BY <2>1, <3>1, TextType
  <2>6. n = 2 => <<Word(p, o + 2)>> \in Seq(Nat)
    <3>1. n = 2 => o + 2 \in Nat /\ (o + 2) + 2 <= Len(p)
      BY <1>1, <2>1
    <3> QED  BY <3>1, WordType
  <2>7. n # 0 => /\ [next EXCEPT !.chassis_id = id] \in Results(p)
                 /\ [next EXCEPT !.port_id = id] \in Results(p)
    <3> HIDE DEF id, next
    <3> QED  BY <2>3, <2>4 DEF Results
  <2>8. [next EXCEPT !.system_name = Text(p, o + 2, n)] \in Results(p)
    <3> HIDE DEF next
    <3> QED  BY <2>3, <2>5 DEF Results
  <2>9. n = 2 => [next EXCEPT !.ttl = <<Word(p, o + 2)>>] \in Results(p)
    <3> HIDE DEF next
    <3> QED  BY <2>3, <2>6 DEF Results
  <2>10. (o + 2) + 1 = o + 3
    BY <1>1
  <2> QED  BY <1>2, <1>3, <2>3, <2>7, <2>8, <2>9, <2>10 DEF Turn
<1>4. CASE s.end # "loop"
  BY <1>4 DEF Turn
<1>5. CASE s.end = "loop" /\ ~Fits(p, o)
  BY <1>2, <1>5 DEF Turn
<1> QED  BY <1>3, <1>4, <1>5

\* A turn after which the loop goes on has moved the offset by two bytes at
\* least: an item of length 0 does not keep the loop where it is.
THEOREM TurnConsumes ==
  \A p \in Seq(Byte) : \A s \in Results(p) :
    (s.end = "loop" /\ Turn(p, s).end = "loop") => Turn(p, s).offset >= s.offset + 2
<1> SUFFICES ASSUME NEW p \in Seq(Byte), NEW s \in Results(p),
                    s.end = "loop", Turn(p, s).end = "loop"
             PROVE  Turn(p, s).offset >= s.offset + 2
  OBVIOUS
<1> DEFINE o == s.offset
           n == LengthAt(p, o)
<1>1. o \in Nat
  BY DEF Results
<1>2. Fits(p, o) /\ Turn(p, s).offset = o + 2 + n
  <2>1. \A end \in {"returned", "thrown"} : [s EXCEPT !.end = end].end # "loop"
    BY DEF Results
  <2>2. /\ [s EXCEPT !.offset = o + 2 + n].offset = o + 2 + n
        /\ \A x : /\ [[s EXCEPT !.offset = o + 2 + n] EXCEPT !.chassis_id = x].offset = o + 2 + n
                  /\ [[s EXCEPT !.offset = o + 2 + n] EXCEPT !.port_id = x].offset = o + 2 + n
                  /\ [[s EXCEPT !.offset = o + 2 + n] EXCEPT !.system_name = x].offset = o + 2 + n
                  /\ [[s EXCEPT !.offset = o + 2 + n] EXCEPT !.ttl = x].offset = o + 2 + n
    BY DEF Results
  <2> QED  BY <2>1, <2>2 DEF Turn
<1>3. n \in Nat
  BY <1>1, <1>2, LengthType DEF Fits
<1> QED  BY <1>1, <1>2, <1>3

-----------------------------------------------------------------------------
(* Induction, for sets of numbers: the least number that is not in the set.   *)

LEMMA LeastNumber ==
  ASSUME NEW T, T \subseteq Nat, T # {}
  PROVE  \E n \in T : \A m \in T : n <= m
<1>1. \E n \in T : \A m \in T : ~(<<m, n>> \in OpToRel(<, Nat))
  BY NatLessThanWellFounded, WFMin
<1>2. \A m, n \in Nat : <<m, n>> \in OpToRel(<, Nat) <=> m < n
  BY DEF OpToRel
<1>3. \A m, n \in Nat : ~(m < n) => n <= m
  OBVIOUS
<1> QED  BY <1>1, <1>2, <1>3

\* A set of numbers that holds each number whose predecessors it holds.
LEMMA AllNumbers ==
  ASSUME NEW T, \A n \in Nat : (\A m \in Nat : m < n => m \in T) => n \in T
  PROVE  Nat \subseteq T
<1> DEFINE Rest == Nat \ T
<1>1. ASSUME Rest # {} PROVE FALSE
  <2>1. PICK n \in Rest : \A m \in Rest : n <= m
    BY <1>1, LeastNumber
  <2>2. \A m \in Nat : m < n => m \in T
    BY <2>1
  <2> QED  BY <2>1, <2>2
<1> QED  BY <1>1

\* A set of numbers that holds 0 and with a number the next.
LEMMA EachNumber ==
  ASSUME NEW T, 0 \in T, \A n \in Nat : n \in T => n + 1 \in T
  PROVE  Nat \subseteq T
<1> SUFFICES ASSUME NEW n \in Nat, \A m \in Nat : m < n => m \in T PROVE n \in T
  BY AllNumbers
<1>1. CASE n = 0
  BY <1>1
<1>2. CASE n # 0
  <2>1. n - 1 \in Nat /\ n - 1 < n /\ (n - 1) + 1 = n
    BY <1>2
  <2> QED  BY <2>1
<1> QED  BY <1>1, <1>2

-----------------------------------------------------------------------------
(* The two recursive functions exist, that is, obey their equations.          *)

\* The state of the loop after n turns.
After(p) ==
  LET after[n \in 0 .. Len(p)] == IF n = 0 THEN Start ELSE Turn(p, after[n - 1])
  IN after

LEMMA AfterRule ==
  ASSUME NEW p, Len(p) \in Nat
  PROVE  /\ After(p)[0] = Start
         /\ \A n \in 1 .. Len(p) : After(p)[n] = Turn(p, After(p)[n - 1])
<1> DEFINE Rule(g, N) == g = [n \in 0 .. N |-> IF n = 0 THEN Start ELSE Turn(p, g[n - 1])]
           T == {N \in Nat : \E g : Rule(g, N)}
<1>1. 0 \in T
  <2> DEFINE g == [n \in 0 .. 0 |-> Start]
  <2>1. Rule(g, 0)
    OBVIOUS
  <2> QED  BY <2>1
<1>2. ASSUME NEW N \in Nat, N \in T PROVE N + 1 \in T
  <2>1. PICK g : Rule(g, N)
    BY <1>2
  <2> DEFINE h == [n \in 0 .. N + 1 |-> IF n = N + 1 THEN Turn(p, g[N]) ELSE g[n]]
  <2>2. \A n \in 0 .. N + 1 : h[n] = IF n = 0 THEN Start ELSE Turn(p, h[n - 1])
    <3> SUFFICES ASSUME NEW n \in 0 .. N + 1
                 PROVE  h[n] = IF n = 0 THEN Start ELSE Turn(p, h[n - 1])
      OBVIOUS
    <3>1. CASE n = N + 1
      <4>1. n # 0 /\ n - 1 = N /\ n - 1 \in 0 .. N + 1 /\ n - 1 # N + 1
        BY <3>1
      <4>2. h[n] = Turn(p, g[N]) /\ h[n - 1] = g[n - 1]
        BY <3>1, <4>1
      <4> QED  BY <4>1, <4>2
    <3>2. CASE n # N + 1
      <4>1. n \in 0 .. N /\ h[n] = g[n]
        BY <3>2
      <4>2. g[n] = IF n = 0 THEN Start ELSE Turn(p, g[n - 1])
        BY <2>1, <4>1
      <4>3. n # 0 => n - 1 \in 0 .. N + 1 /\ n - 1 # N + 1 /\ h[n - 1] = g[n - 1]
        BY <4>1
      <4> QED  BY <4>1, <4>2, <4>3
    <3> QED  BY <3>1, <3>2
  <2>3. Rule(h, N + 1)
    BY <2>2
  <2>4. \E k : Rule(k, N + 1)
    <3> HIDE DEF h, Rule
    <3> QED  BY <2>3
  <2> QED  BY <2>4
<1>3. Len(p) \in T
  <2> HIDE DEF T
  <2> QED  BY <1>1, <1>2, EachNumber
<1>4. Rule(After(p), Len(p))
  <2>1. \E g : Rule(g, Len(p))
    BY <1>3
  <2>2. After(p) = CHOOSE g : Rule(g, Len(p))
    BY DEF After
  <2> QED  BY <2>1, <2>2
<1>5. 0 \in 0 .. Len(p) /\ \A n \in 1 .. Len(p) : n \in 0 .. Len(p) /\ n # 0
  OBVIOUS
<1> QED  BY <1>4, <1>5

\* Where Items starts an item.
StartsRule(p, s, o) ==
  Fits(p, o) /\ (\/ o = 14
                 \/ \E q \in 14 .. o - 2 : /\ o = q + 2 + (Word(p, q) % 512)
                                           /\ TypeAt(p, q) # END_OF_LLDPDU
                                           /\ s[q])

Starts(p) ==
  LET starts[o \in 14 .. Len(p)] ==
        Fits(p, o) /\ (\/ o = 14
                       \/ \E q \in 14 .. o - 2 : /\ o = q + 2 + (Word(p, q) % 512)
                                                 /\ TypeAt(p, q) # END_OF_LLDPDU
                                                 /\ starts[q])
  IN starts

LEMMA StartsIsDefined ==
  ASSUME NEW p, Len(p) \in Nat
  PROVE  Starts(p) = [o \in 14 .. Len(p) |-> StartsRule(p, Starts(p), o)]
<1> DEFINE Rule(g, N) == g = [o \in 14 .. N |-> StartsRule(p, g, o)]
           T == {N \in Nat : \E g : Rule(g, N)}
<1>1. 0 \in T
  <2> DEFINE g == [o \in 14 .. 0 |-> TRUE]
  <2>1. Rule(g, 0)
    OBVIOUS
  <2> QED  BY <2>1
<1>2. ASSUME NEW N \in Nat, N \in T PROVE N + 1 \in T
  <2>1. PICK g : Rule(g, N)
    BY <1>2
  <2> DEFINE h == [o \in 14 .. N + 1 |-> StartsRule(p, g, o)]
  <2>2. \A o \in 14 .. N : h[o] = g[o]
    BY <2>1
  <2>3. \A o \in 14 .. N + 1 : StartsRule(p, g, o) = StartsRule(p, h, o)
    <3> SUFFICES ASSUME NEW o \in 14 .. N + 1 PROVE StartsRule(p, g, o) = StartsRule(p, h, o)
      OBVIOUS
    <3> HIDE DEF h
    <3>1. \A q \in 14 .. o - 2 : g[q] = h[q]
      <4>1. \A q \in 14 .. o - 2 : q \in 14 .. N
        OBVIOUS
      <4> QED  BY <2>2, <4>1
    <3> QED  BY <3>1 DEF StartsRule
  <2>4. Rule(h, N + 1)
    BY <2>3
  <2>5. \E k : Rule(k, N + 1)
    <3> HIDE DEF h, Rule
    <3> QED  BY <2>4
  <2> QED  BY <2>5
<1>3. Len(p) \in T
  <2> HIDE DEF T
  <2> QED  BY <1>1, <1>2, EachNumber
<1>4. Rule(Starts(p), Len(p))
  <2>1. \E g : Rule(g, Len(p))
    BY <1>3
  <2>2. Starts(p) = CHOOSE g : Rule(g, Len(p))
    BY DEF Starts, StartsRule
  <2> QED  BY <2>1, <2>2
<1> QED  BY <1>4

\* An item follows the header or another item that is not the end mark.
LEMMA ItemsRule ==
  ASSUME NEW p, Len(p) \in Nat
  PROVE  \A o : o \in Items(p) <=>
           /\ o \in 14 .. Len(p) /\ Fits(p, o)
           /\ \/ o = 14
              \/ \E q \in Items(p) : /\ q <= o - 2
                                     /\ o = q + 2 + LengthAt(p, q)
                                     /\ TypeAt(p, q) # END_OF_LLDPDU
<1>1. Items(p) = {o \in 14 .. Len(p) : Starts(p)[o]}
  BY DEF Items, Starts
<1>2. \A o \in 14 .. Len(p) : Starts(p)[o] = StartsRule(p, Starts(p), o)
  BY StartsIsDefined
<1>3. \A o : o \in Items(p) <=> o \in 14 .. Len(p) /\ StartsRule(p, Starts(p), o)
  BY <1>1, <1>2
<1>4. \A o \in 14 .. Len(p) : \A q : q \in 14 .. o - 2 /\ Starts(p)[q] <=> q \in Items(p) /\ q <= o - 2
  BY <1>1
<1> QED  BY <1>3, <1>4 DEF StartsRule, LengthAt

-----------------------------------------------------------------------------
(* The items of a body stand behind one another.                              *)

\* Where an item stands and how long it is, as numbers.
LEMMA ItemType ==
  ASSUME NEW p \in Seq(Byte), NEW o \in Items(p)
  PROVE  /\ o \in Nat /\ 14 <= o /\ Fits(p, o)
         /\ LengthAt(p, o) \in Nat
         /\ o + 2 + LengthAt(p, o) <= Len(p)
<1>1. o \in 14 .. Len(p) /\ Fits(p, o)
  BY ItemsRule
<1>2. o \in Nat /\ 14 <= o
  BY <1>1
<1>3. LengthAt(p, o) \in Nat
  BY <1>1, <1>2, LengthType DEF Fits
<1> QED  BY <1>1, <1>2, <1>3 DEF Fits

\* Behind the end mark is no item, and none begins inside another.
LEMMA ItemsApart ==
  ASSUME NEW p \in Seq(Byte)
  PROVE  \A o, q \in Items(p) : o < q =>
           /\ q >= o + 2 + LengthAt(p, o)
           /\ TypeAt(p, o) # END_OF_LLDPDU
<1> DEFINE Apart(o, q) == q >= o + 2 + LengthAt(p, o) /\ TypeAt(p, o) # END_OF_LLDPDU
           T == {q \in Nat : q \in Items(p) => \A o \in Items(p) : o < q => Apart(o, q)}
<1>1. ASSUME NEW q \in Nat, \A r \in Nat : r < q => r \in T PROVE q \in T
  <2> SUFFICES ASSUME q \in Items(p), NEW o \in Items(p), o < q PROVE Apart(o, q)
    OBVIOUS
  <2>1. o \in Nat /\ 14 <= o
    BY ItemType
  <2>2. PICK r \in Items(p) : /\ r <= q - 2
                              /\ q = r + 2 + LengthAt(p, r)
                              /\ TypeAt(p, r) # END_OF_LLDPDU
    BY <2>1, ItemsRule
  <2>3. r \in Nat /\ r < q /\ LengthAt(p, r) \in Nat
    BY <2>2, ItemType
  <2>4. CASE r = o
    BY <2>1, <2>2, <2>4
  <2>5. CASE o < r
    <3>1. Apart(o, r)
      BY <1>1, <2>3, <2>5
    <3>2. LengthAt(p, o) \in Nat
      BY ItemType
    <3> QED  BY <2>1, <2>3, <3>1, <3>2
  <2>6. CASE r < o
    <3>1. Apart(r, o)
      BY <1>1, <2>1, <2>6
    <3> QED  BY <2>1, <2>2, <2>3, <3>1
  <2> QED  BY <2>1, <2>3, <2>4, <2>5, <2>6
<1>2. Nat \subseteq T
  <2> HIDE DEF T
  <2> QED  BY <1>1, AllNumbers
<1>3. \A q \in Items(p) : q \in Nat
  BY ItemType
<1> QED  BY <1>2, <1>3

\* Where the loop stands: behind the header, or an item that is not the end mark.
Reached(p, o) ==
  \/ o = 14
  \/ \E q \in Items(p) : o = q + 2 + LengthAt(p, q) /\ TypeAt(p, q) # END_OF_LLDPDU

LEMMA ReachedItem ==
  ASSUME NEW p \in Seq(Byte), NEW o, Reached(p, o), Fits(p, o)
  PROVE  o \in Items(p)
<1>1. CASE o = 14
  <2>1. LengthAt(p, o) \in Nat /\ o + 2 <= Len(p)
    BY <1>1, LengthType DEF Fits
  <2>2. o \in 14 .. Len(p)
    BY <1>1, <2>1
  <2> QED  BY <1>1, <2>2, ItemsRule
<1>2. ASSUME NEW q \in Items(p),
             o = q + 2 + LengthAt(p, q), TypeAt(p, q) # END_OF_LLDPDU
      PROVE  o \in Items(p)
  <2>1. q \in Nat /\ 14 <= q /\ LengthAt(p, q) \in Nat /\ q + 2 + LengthAt(p, q) <= Len(p)
    BY ItemType
  <2>2. o \in 14 .. Len(p) /\ q <= o - 2
    BY <1>2, <2>1
  <2> QED  BY <1>2, <2>2, ItemsRule
<1> QED  BY <1>1, <1>2 DEF Reached

\* Where the loop finds no item, there is none further on.
LEMMA NothingBehind ==
  ASSUME NEW p \in Seq(Byte), NEW o, Reached(p, o), o \notin Items(p)
  PROVE  \A q \in Items(p) : q < o
<1>0. o \in Nat /\ 14 <= o
  <2>1. ASSUME NEW q \in Items(p), o = q + 2 + LengthAt(p, q) PROVE o \in Nat /\ 14 <= o
    BY <2>1, ItemType
  <2> QED  BY <2>1 DEF Reached
<1> DEFINE T == {q \in Items(p) : ~(q < o)}
<1>1. ASSUME T # {} PROVE FALSE
  <2>1. T \subseteq Nat
    BY ItemType
  <2>2. PICK q \in T : \A r \in T : q <= r
    BY <1>1, <2>1, LeastNumber
  <2>3. q \in Items(p) /\ q \in Nat /\ o < q
    BY <1>0, <2>1
  <2>4. PICK r \in Items(p) : r <= q - 2 /\ q = r + 2 + LengthAt(p, r)
    BY <1>0, <2>3, ItemsRule
  <2>5. r \in Nat /\ LengthAt(p, r) \in Nat /\ r < q /\ 14 <= r
    BY <2>3, <2>4, ItemType
  <2>6. r < o
    BY <2>2, <2>3, <2>4, <2>5
  <2>7. PICK s \in Items(p) : o = s + 2 + LengthAt(p, s)
    BY <2>5, <2>6 DEF Reached
  <2>8. s \in Nat /\ LengthAt(p, s) \in Nat /\ s < o
    BY <2>7, ItemType
  <2>9. CASE s = r
    BY <2>3, <2>4, <2>7, <2>9
  <2>10. CASE s < r
    <3>1. r >= s + 2 + LengthAt(p, s)
      BY <2>10, ItemsApart
    <3> QED  BY <2>6, <2>7, <3>1, <2>5, <2>8
  <2>11. CASE r < s
    <3>1. s >= r + 2 + LengthAt(p, r)
      BY <2>11, ItemsApart
    <3> QED  BY <2>3, <2>4, <2>8, <3>1, <1>0
  <2> QED  BY <2>5, <2>8, <2>9, <2>10, <2>11
<1> QED  BY <1>1

-----------------------------------------------------------------------------
(* The value of the last item of a type, as the loop passes the items.         *)

\* The items of a type that begin before offset o.
Passed(p, type, o) == {q \in OfType(p, type) : q < o}

LastOf(p, all, skip) ==
  IF all = {} THEN <<>>
  ELSE LET o == CHOOSE x \in all : \A y \in all : y <= x
       IN SubSeq(p, o + 3 + skip, o + 2 + (Word(p, o) % 512))

\* At the end mark, or where no item is, all items of another type are passed.
LEMMA AllPassed ==
  ASSUME NEW p \in Seq(Byte), NEW o, Reached(p, o), NEW type, type # END_OF_LLDPDU,
         ~Fits(p, o) \/ TypeAt(p, o) = END_OF_LLDPDU
  PROVE  Passed(p, type, o) = OfType(p, type)
<1>1. CASE o \notin Items(p)
  BY <1>1, NothingBehind DEF Passed, OfType
<1>2. CASE o \in Items(p)
  <2>1. TypeAt(p, o) = END_OF_LLDPDU
    BY <1>2, ItemType
  <2>2. \A q \in Items(p) : ~(o < q)
    BY <1>2, <2>1, ItemsApart
  <2>3. \A q \in Items(p) : q \in Nat
    BY ItemType
  <2> QED  BY <1>2, <2>1, <2>2, <2>3 DEF Passed, OfType
<1> QED  BY <1>1, <1>2

\* Past an item, one more is passed.
LEMMA OnePassed ==
  ASSUME NEW p \in Seq(Byte), NEW o \in Items(p), NEW type
  PROVE  Passed(p, type, o + 2 + LengthAt(p, o))
           = Passed(p, type, o) \cup (IF TypeAt(p, o) = type THEN {o} ELSE {})
<1> DEFINE next == o + 2 + LengthAt(p, o)
<1>1. \A q \in Items(p) : q < next <=> q < o \/ q = o
  <2> SUFFICES ASSUME NEW q \in Items(p) PROVE q < next <=> q < o \/ q = o
    OBVIOUS
  <2>1. o \in Nat /\ q \in Nat /\ LengthAt(p, o) \in Nat
    BY ItemType
  <2>2. o < q => q >= next
    BY ItemsApart
  <2> QED  BY <2>1, <2>2
<1> HIDE DEF next
<1>2. Passed(p, type, next) = Passed(p, type, o) \cup (IF TypeAt(p, o) = type THEN {o} ELSE {})
  BY <1>1 DEF Passed, OfType
<1> QED  BY <1>2 DEF next

\* The last of the items passed is the one just read.
LEMMA LastRead ==
  ASSUME NEW p \in Seq(Byte), NEW o \in Items(p), NEW type, NEW skip
  PROVE  LastOf(p, Passed(p, type, o) \cup {o}, skip)
           = SubSeq(p, o + 3 + skip, o + 2 + LengthAt(p, o))
<1> DEFINE all == Passed(p, type, o) \cup {o}
<1>1. \A q \in all : q \in Nat /\ q <= o
  BY ItemType DEF Passed, OfType
<1>2. o \in all
  OBVIOUS
<1> HIDE DEF all
<1>3. (CHOOSE x \in all : \A y \in all : y <= x) = o
  <2>1. \A x \in all : (\A y \in all : y <= x) => x = o
    BY <1>1, <1>2
  <2> QED  BY <1>1, <1>2, <2>1
<1>4. all # {}
  BY <1>2
<1>5. LastOf(p, all, skip) = SubSeq(p, o + 3 + skip, o + 2 + LengthAt(p, o))
  BY <1>3, <1>4 DEF LastOf, LengthAt
<1> QED  BY <1>5 DEF all

-----------------------------------------------------------------------------
(* The loop's invariant.                                                      *)

\* An identifier without its subtype.
Empty(p, q) == TypeAt(p, q) \in {CHASSIS_ID, PORT_ID} /\ LengthAt(p, q) = 0

\* The texts are those of the items passed, and none of these was empty.
UpTo(p, s, o) ==
  /\ s.chassis_id = LastOf(p, Passed(p, CHASSIS_ID, o), 1)
  /\ s.port_id = LastOf(p, Passed(p, PORT_ID, o), 1)
  /\ s.system_name = LastOf(p, Passed(p, SYSTEM_NAME, o), 0)
  /\ \A q \in Items(p) : q < o => ~Empty(p, q)

\* While it goes on, the loop stands where an item may begin; it has returned
\* only past all items, and thrown only at an empty one.
LoopInv(p, s) ==
  /\ s \in Results(p)
  /\ s.end = "loop" => Reached(p, s.offset) /\ UpTo(p, s, s.offset)
  /\ s.end = "returned" =>
       /\ s.chassis_id = LastOf(p, OfType(p, CHASSIS_ID), 1)
       /\ s.port_id = LastOf(p, OfType(p, PORT_ID), 1)
       /\ s.system_name = LastOf(p, OfType(p, SYSTEM_NAME), 0)
       /\ \A q \in Items(p) : ~Empty(p, q)
  /\ s.end = "thrown" => \E q \in Items(p) : Empty(p, q)

\* Before the first turn no item is passed.
LEMMA LoopInit ==
  ASSUME NEW p \in Seq(Byte), isLLDP(p)
  PROVE  LoopInv(p, Start)
<1>1. \A q \in Items(p) : ~(q < 14)
  BY ItemType
<1>2. \A type : Passed(p, type, 14) = {}
  BY <1>1 DEF Passed, OfType
<1>3. /\ Start.end = "loop" /\ Start.offset = 14
      /\ Start.chassis_id = <<>> /\ Start.port_id = <<>> /\ Start.system_name = <<>>
  BY DEF Start
<1>4. \A skip : LastOf(p, {}, skip) = <<>>
  BY DEF LastOf
<1>5. Reached(p, 14) /\ UpTo(p, Start, 14)
  BY <1>1, <1>2, <1>3, <1>4 DEF Reached, UpTo
<1> QED  BY <1>3, <1>5, StartsInside DEF LoopInv

\* What a turn past a whole item does to the state, field by field.
LEMMA TurnReads ==
  ASSUME NEW p \in Seq(Byte), NEW s \in Results(p), s.end = "loop",
         Fits(p, s.offset), TypeAt(p, s.offset) # END_OF_LLDPDU, ~Empty(p, s.offset)
  PROVE  LET o == s.offset
             t == Turn(p, s)
             type == TypeAt(p, o)
             length == LengthAt(p, o)
             id == Text(p, o + 2 + 1, length - 1)
         IN /\ t.end = "loop" /\ t.offset = o + 2 + length
            /\ t.chassis_id = IF type = CHASSIS_ID THEN id ELSE s.chassis_id
            /\ t.port_id = IF type = PORT_ID THEN id ELSE s.port_id
            /\ t.system_name = IF type = SYSTEM_NAME THEN Text(p, o + 2, length) ELSE s.system_name
<1> DEFINE o == s.offset
           type == TypeAt(p, o)
           length == LengthAt(p, o)
           id == Text(p, o + 2 + 1, length - 1)
           name == Text(p, o + 2, length)
           next == [s EXCEPT !.offset = o + 2 + length]
           t == Turn(p, s)
           Same(r) == r.end = "loop" /\ r.offset = o + 2 + length
           Chassis == [next EXCEPT !.chassis_id = id]
           Port == [next EXCEPT !.port_id = id]
           Name == [next EXCEPT !.system_name = name]
           Ttl == [next EXCEPT !.ttl = <<Word(p, o + 2)>>]
<1>1. t = CASE type = CHASSIS_ID -> Chassis
            [] type = PORT_ID -> Port
            [] type = SYSTEM_NAME -> Name
            [] type = TIME_TO_LIVE /\ length = 2 -> Ttl
            [] OTHER -> next
  BY DEF Turn, Empty
<1>2. /\ CHASSIS_ID # PORT_ID /\ CHASSIS_ID # SYSTEM_NAME /\ CHASSIS_ID # TIME_TO_LIVE
      /\ PORT_ID # SYSTEM_NAME /\ PORT_ID # TIME_TO_LIVE /\ SYSTEM_NAME # TIME_TO_LIVE
  BY DEF CHASSIS_ID, PORT_ID, SYSTEM_NAME, TIME_TO_LIVE
<1>3. /\ Same(next) /\ next.chassis_id = s.chassis_id
      /\ next.port_id = s.port_id /\ next.system_name = s.system_name
      /\ next = [next EXCEPT !.offset = o + 2 + length]
  <2> HIDE DEF o, length
  <2> QED  BY DEF Results
<1>4. /\ Same(Chassis) /\ Chassis.chassis_id = id
      /\ Chassis.port_id = next.port_id /\ Chassis.system_name = next.system_name
      /\ Same(Port) /\ Port.port_id = id
      /\ Port.chassis_id = next.chassis_id /\ Port.system_name = next.system_name
      /\ Same(Name) /\ Name.system_name = name
      /\ Name.chassis_id = next.chassis_id /\ Name.port_id = next.port_id
      /\ Same(Ttl) /\ Ttl.chassis_id = next.chassis_id
      /\ Ttl.port_id = next.port_id /\ Ttl.system_name = next.system_name
  <2> DEFINE n == o + 2 + length
  <2>1. ASSUME NEW i, NEW v, NEW w
        PROVE  LET nx == [s EXCEPT !.offset = i] IN
          /\ [nx EXCEPT !.chassis_id = v].chassis_id = v
          /\ [nx EXCEPT !.port_id = v].port_id = v
          /\ [nx EXCEPT !.system_name = w].system_name = w
          /\ \A x : /\ [nx EXCEPT !.chassis_id = x].end = s.end
                    /\ [nx EXCEPT !.chassis_id = x].offset = i
                    /\ [nx EXCEPT !.chassis_id = x].port_id = nx.port_id
                    /\ [nx EXCEPT !.chassis_id = x].system_name = nx.system_name
                    /\ [nx EXCEPT !.port_id = x].end = s.end
                    /\ [nx EXCEPT !.port_id = x].offset = i
                    /\ [nx EXCEPT !.port_id = x].chassis_id = nx.chassis_id
                    /\ [nx EXCEPT !.port_id = x].system_name = nx.system_name
                    /\ [nx EXCEPT !.system_name = x].end = s.end
                    /\ [nx EXCEPT !.system_name = x].offset = i
                    /\ [nx EXCEPT !.system_name = x].chassis_id = nx.chassis_id
                    /\ [nx EXCEPT !.system_name = x].port_id = nx.port_id
                    /\ [nx EXCEPT !.ttl = x].end = s.end
                    /\ [nx EXCEPT !.ttl = x].offset = i
                    /\ [nx EXCEPT !.ttl = x].chassis_id = nx.chassis_id
                    /\ [nx EXCEPT !.ttl = x].port_id = nx.port_id
                    /\ [nx EXCEPT !.ttl = x].system_name = nx.system_name
    BY DEF Results
  <2> QED  BY <2>1
<1> HIDE DEF type, id, name, next, t, Chassis, Port, Name, Ttl
<1>5. /\ t.end = "loop" /\ t.offset = o + 2 + length
      /\ t.chassis_id = IF type = CHASSIS_ID THEN id ELSE s.chassis_id
      /\ t.port_id = IF type = PORT_ID THEN id ELSE s.port_id
      /\ t.system_name = IF type = SYSTEM_NAME THEN name ELSE s.system_name
  <2> HIDE DEF o, length
  <2> QED  BY <1>1, <1>2, <1>3, <1>4
<1> QED  BY <1>5 DEF type, id, name, t

\* A turn past a whole item keeps the texts those of the items passed.
LEMMA LoopReads ==
  ASSUME NEW p \in Seq(Byte), NEW s, LoopInv(p, s), s.end = "loop",
         Fits(p, s.offset), TypeAt(p, s.offset) # END_OF_LLDPDU, ~Empty(p, s.offset)
  PROVE  LoopInv(p, Turn(p, s))
<1> DEFINE o == s.offset
           t == Turn(p, s)
           type == TypeAt(p, o)
           length == LengthAt(p, o)
           n == o + 2 + length
<1>1. s \in Results(p) /\ Reached(p, o) /\ UpTo(p, s, o)
  BY DEF LoopInv
<1>2. o \in Items(p)
  BY <1>1, ReachedItem
<1>3. o \in Nat /\ 14 <= o /\ length \in Nat
  BY <1>2, ItemType
<1>4. /\ t.end = "loop" /\ t.offset = n
      /\ t.chassis_id = IF type = CHASSIS_ID THEN Text(p, o + 2 + 1, length - 1) ELSE s.chassis_id
      /\ t.port_id = IF type = PORT_ID THEN Text(p, o + 2 + 1, length - 1) ELSE s.port_id
      /\ t.system_name = IF type = SYSTEM_NAME THEN Text(p, o + 2, length) ELSE s.system_name
  BY <1>1, TurnReads
<1>5. t \in Results(p)
  BY <1>1, TurnStaysInside
<1>6. Reached(p, n)
  BY <1>2 DEF Reached
<1>7. \A ty : Passed(p, ty, n) = IF type = ty THEN Passed(p, ty, o) \cup {o} ELSE Passed(p, ty, o)
  <2> TAKE ty
  <2>1. Passed(p, ty, n) = Passed(p, ty, o) \cup (IF type = ty THEN {o} ELSE {})
    BY <1>2, OnePassed
  <2> HIDE DEF n, type
  <2> QED  BY <2>1
<1>8. /\ Text(p, o + 2 + 1, length - 1) = SubSeq(p, o + 3 + 1, o + 2 + length)
      /\ Text(p, o + 2, length) = SubSeq(p, o + 3 + 0, o + 2 + length)
  <2> HIDE DEF o, length
  <2>1. /\ o + 2 + 1 + 1 = o + 3 + 1 /\ o + 2 + 1 + (length - 1) = o + 2 + length
        /\ o + 2 + 1 = o + 3 + 0
    BY <1>3
  <2> QED  BY <2>1 DEF Text
<1>9. \A ty, skip : LastOf(p, Passed(p, ty, o) \cup {o}, skip) = SubSeq(p, o + 3 + skip, o + 2 + length)
  BY <1>2, LastRead
<1>10. \A q \in Items(p) : q < n => ~Empty(p, q)
  <2> SUFFICES ASSUME NEW q \in Items(p), q < n, o < q PROVE FALSE
    <3>1. \A q \in Items(p) : q \in Nat
      BY ItemType
    <3>2. \A q \in Items(p) : q < o => ~Empty(p, q)
      BY <1>1 DEF UpTo
    <3> HIDE DEF n
    <3> QED  BY <1>3, <3>1, <3>2
  <2>1. q >= n
    BY <1>2, ItemsApart
  <2>2. q \in Nat /\ n \in Nat
    BY <1>3, ItemType
  <2> QED  BY <2>1, <2>2
<1> HIDE DEF o, t, n, type, length
<1>11. UpTo(p, t, n)
  <2>1. t.chassis_id = LastOf(p, Passed(p, CHASSIS_ID, n), 1)
    <3>1. CASE type = CHASSIS_ID
      <4>1. t.chassis_id = SubSeq(p, o + 3 + 1, o + 2 + length)
        BY <1>4, <1>8, <3>1
      <4>2. Passed(p, CHASSIS_ID, n) = Passed(p, CHASSIS_ID, o) \cup {o}
        BY <1>7, <3>1
      <4> QED  BY <1>9, <4>1, <4>2
    <3>2. CASE type # CHASSIS_ID
      BY <1>1, <1>4, <1>7, <3>2 DEF UpTo
    <3> QED  BY <3>1, <3>2
  <2>2. t.port_id = LastOf(p, Passed(p, PORT_ID, n), 1)
    <3>1. CASE type = PORT_ID
      <4>1. t.port_id = SubSeq(p, o + 3 + 1, o + 2 + length)
        BY <1>4, <1>8, <3>1
      <4>2. Passed(p, PORT_ID, n) = Passed(p, PORT_ID, o) \cup {o}
        BY <1>7, <3>1
      <4> QED  BY <1>9, <4>1, <4>2
    <3>2. CASE type # PORT_ID
      BY <1>1, <1>4, <1>7, <3>2 DEF UpTo
    <3> QED  BY <3>1, <3>2
  <2>3. t.system_name = LastOf(p, Passed(p, SYSTEM_NAME, n), 0)
    <3>1. CASE type = SYSTEM_NAME
      <4>1. t.system_name = SubSeq(p, o + 3 + 0, o + 2 + length)
        BY <1>4, <1>8, <3>1
      <4>2. Passed(p, SYSTEM_NAME, n) = Passed(p, SYSTEM_NAME, o) \cup {o}
        BY <1>7, <3>1
      <4> QED  BY <1>9, <4>1, <4>2
    <3>2. CASE type # SYSTEM_NAME
      BY <1>1, <1>4, <1>7, <3>2 DEF UpTo
    <3> QED  BY <3>1, <3>2
  <2> QED  BY <1>10, <2>1, <2>2, <2>3 DEF UpTo
<1>12. LoopInv(p, t)
  BY <1>4, <1>5, <1>6, <1>11 DEF LoopInv
<1> QED  BY <1>12 DEF t

LEMMA LoopStep ==
  ASSUME NEW p \in Seq(Byte), NEW s, LoopInv(p, s)
  PROVE  LoopInv(p, Turn(p, s))
<1> DEFINE o == s.offset
<1>0. s \in Results(p) /\ Turn(p, s) \in Results(p)
  BY TurnStaysInside DEF LoopInv
<1>1. CASE s.end # "loop"
  BY <1>1 DEF Turn
<1>2. CASE s.end = "loop" /\ (~Fits(p, o) \/ TypeAt(p, o) = END_OF_LLDPDU)
  <2> DEFINE t == [s EXCEPT !.end = "returned"]
  <2>1. Turn(p, s) = t
    BY <1>2 DEF Turn
  <2>2. /\ t.end = "returned" /\ t.chassis_id = s.chassis_id
        /\ t.port_id = s.port_id /\ t.system_name = s.system_name
    BY <1>0 DEF Results
  <2>3. Reached(p, o) /\ UpTo(p, s, o)
    BY <1>2 DEF LoopInv
  <2>4. \A type \in {CHASSIS_ID, PORT_ID, SYSTEM_NAME} : Passed(p, type, o) = OfType(p, type)
    <3>1. \A type \in {CHASSIS_ID, PORT_ID, SYSTEM_NAME} : type # END_OF_LLDPDU
      BY DEF CHASSIS_ID, PORT_ID, SYSTEM_NAME, END_OF_LLDPDU
    <3> QED  BY <1>2, <2>3, <3>1, AllPassed
  <2>5. \A q \in Items(p) : ~Empty(p, q)
    <3> SUFFICES ASSUME NEW q \in Items(p), Empty(p, q) PROVE FALSE
      OBVIOUS
    <3>1. q \in Passed(p, TypeAt(p, q), o)
      BY <2>4 DEF Empty, OfType
    <3> QED  BY <2>3, <3>1 DEF UpTo, Passed, OfType
  <2> HIDE DEF t
  <2>6. LoopInv(p, t)
    BY <1>0, <2>1, <2>2, <2>3, <2>4, <2>5 DEF LoopInv, UpTo
  <2> QED  BY <2>1, <2>6
<1>3. CASE s.end = "loop" /\ Fits(p, o) /\ TypeAt(p, o) # END_OF_LLDPDU /\ Empty(p, o)
  <2> DEFINE t == [s EXCEPT !.end = "thrown"]
  <2>1. Turn(p, s) = t
    BY <1>3 DEF Turn, Empty
  <2>2. t.end = "thrown"
    BY <1>0 DEF Results
  <2>3. o \in Items(p)
    BY <1>3, ReachedItem DEF LoopInv
  <2> HIDE DEF t, o
  <2>4. LoopInv(p, t)
    BY <1>0, <1>3, <2>1, <2>2, <2>3 DEF LoopInv
  <2> QED  BY <2>1, <2>4
<1>4. CASE s.end = "loop" /\ Fits(p, o) /\ TypeAt(p, o) # END_OF_LLDPDU /\ ~Empty(p, o)
  BY <1>4, LoopReads
<1> QED  BY <1>1, <1>2, <1>3, <1>4

\* After any number of turns; and each that goes on has moved the offset on.
LEMMA LoopRuns ==
  ASSUME NEW p \in Seq(Byte), isLLDP(p)
  PROVE  \A n \in 0 .. Len(p) :
           /\ LoopInv(p, After(p)[n])
           /\ After(p)[n].end = "loop" => After(p)[n].offset >= 14 + 2 * n
<1> DEFINE after == After(p)
           Good(n) == /\ LoopInv(p, after[n])
                      /\ after[n].end = "loop" => after[n].offset >= 14 + 2 * n
           T == {n \in Nat : n <= Len(p) => Good(n)}
<1>0. Len(p) \in Nat
  OBVIOUS
<1>1. 0 \in T
  <2>1. after[0] = Start /\ Start.offset = 14
    BY <1>0, AfterRule DEF Start
  <2>2. LoopInv(p, after[0]) /\ after[0].offset = 14
    BY <2>1, LoopInit
  <2> HIDE DEF after
  <2> QED  BY <2>2
<1>2. ASSUME NEW n \in Nat, n \in T PROVE n + 1 \in T
  <2> SUFFICES ASSUME n + 1 <= Len(p) PROVE Good(n + 1)
    OBVIOUS
  <2> DEFINE s == after[n]
             t == after[n + 1]
  <2>1. t = Turn(p, s)
    <3>1. n + 1 \in 1 .. Len(p) /\ (n + 1) - 1 = n
      BY <1>0
    <3> QED  BY <1>0, <3>1, AfterRule
  <2>2. n <= Len(p)
    BY <1>0
  <2> HIDE DEF after
  <2>3. LoopInv(p, s) /\ (s.end = "loop" => s.offset >= 14 + 2 * n)
    BY <1>2, <2>2
  <2> HIDE DEF s, t
  <2>4. LoopInv(p, t)
    BY <2>1, <2>3, LoopStep
  <2>5. t.end = "loop" => t.offset >= 14 + 2 * (n + 1)
    <3> SUFFICES ASSUME t.end = "loop" PROVE t.offset >= 14 + 2 * (n + 1)
      OBVIOUS
    <3>1. s \in Results(p) /\ t \in Results(p)
      BY <2>3, <2>4 DEF LoopInv
    <3>2. s.end = "loop"
      BY <2>1 DEF Turn
    <3>3. t.offset >= s.offset + 2
      BY <2>1, <3>1, <3>2, TurnConsumes
    <3>4. s.offset \in Nat /\ t.offset \in Nat
      BY <3>1 DEF Results
    <3> QED  BY <2>3, <3>2, <3>3, <3>4
  <2> QED  BY <2>4, <2>5 DEF s, t
<1>3. Nat \subseteq T
  <2> HIDE DEF T
  <2> QED  BY <1>1, <1>2, EachNumber
<1>4. \A n \in 0 .. Len(p) : Good(n)
  <2> HIDE DEF Good
  <2> QED  BY <1>0, <1>3
<1> QED  BY <1>4

\* parse ends on every body that isLLDP accepts, of any length and content: it
\* throws exactly if it gets to an identifier without its subtype, and has read
\* otherwise what the format says.
THEOREM ParserIsRight == \A p \in Seq(Byte) : isLLDP(p) => ParseAgrees(p)
<1> SUFFICES ASSUME NEW p \in Seq(Byte), isLLDP(p) PROVE ParseAgrees(p)
  OBVIOUS
<1>0. Len(p) \in Nat
  OBVIOUS
<1> DEFINE last == CHOOSE n \in 0 .. Len(p) : After(p)[n].end # "loop"
           result == parse(p)
<1>1. result = After(p)[last]
  BY DEF parse, After
<1>2. \E n \in 0 .. Len(p) : After(p)[n].end # "loop"
  <2>1. Len(p) \in 0 .. Len(p)
    BY <1>0
  <2> DEFINE s == After(p)[Len(p)]
  <2>2. LoopInv(p, s) /\ (s.end = "loop" => s.offset >= 14 + 2 * Len(p))
    BY <2>1, LoopRuns
  <2>3. s.offset \in Nat /\ s.offset <= Len(p)
    <3> HIDE DEF s
    <3> QED  BY <2>2, <1>0 DEF LoopInv, Results
  <2>4. s.end # "loop"
    BY <1>0, <2>2, <2>3
  <2> QED  BY <2>1, <2>4
<1>3. last \in 0 .. Len(p) /\ After(p)[last].end # "loop"
  BY <1>2
<1>4. LoopInv(p, result) /\ result.end # "loop"
  BY <1>1, <1>3, LoopRuns
<1>5. result.end \in {"returned", "thrown"}
  <2> HIDE DEF result
  <2> QED  BY <1>4 DEF LoopInv, Results
<1> DEFINE empty == {o \in OfType(p, CHASSIS_ID) \cup OfType(p, PORT_ID) : Word(p, o) % 512 = 0}
<1>6. empty = {q \in Items(p) : Empty(p, q)}
  BY DEF Empty, OfType, LengthAt
<1>7. \A type, skip : LastValue(p, type, skip) = LastOf(p, OfType(p, type), skip)
  BY DEF LastValue, LastOf
<1>8. ParseAgrees(p) <=>
        /\ result.end = (IF empty = {} THEN "returned" ELSE "thrown")
        /\ result.end = "returned" =>
             /\ result.chassis_id = LastValue(p, CHASSIS_ID, 1)
             /\ result.port_id = LastValue(p, PORT_ID, 1)
             /\ result.system_name = LastValue(p, SYSTEM_NAME, 0)
  BY DEF ParseAgrees
<1> HIDE DEF result, empty
<1> QED  BY <1>4, <1>5, <1>6, <1>7, <1>8 DEF LoopInv

=============================================================================
