-------------------------- MODULE PacketizerProofs --------------------------
(***************************************************************************)
(* What the arithmetic of PacketizeSegment gives, for every payload size   *)
(* and every buffer size.                                                  *)
(***************************************************************************)
EXTENDS Packetizer, TLAPS

\* Reduction modulo w leaves what is below w alone.
LEMMA ModSmall ==
  ASSUME NEW x \in Nat, NEW w \in Nat \ {0}, x < w
  PROVE  x % w = x
OBVIOUS

\* The 16-bit arithmetic of PacketizeSegment is exact for a packet that lies in
\* the segment: its offset, what remains from there, its size and its end mark.
LEMMA PacketExact ==
  ASSUME NEW s \in 1 .. MAXSEGMENTSIZE - 1, NEW n \in Nat, n * MAXPAYLOAD < s
  PROVE  /\ PacketOffset(n) = n * MAXPAYLOAD
         /\ Remaining(n, s) = s - n * MAXPAYLOAD
         /\ PayloadSize(n, s) \in 1 .. MAXPAYLOAD
         /\ n * MAXPAYLOAD + PayloadSize(n, s) <= s
         /\ LastPacket(n, s) <=> n * MAXPAYLOAD + PayloadSize(n, s) = s
         /\ ~LastPacket(n, s) => PayloadSize(n, s) = MAXPAYLOAD
PROOF
<1> DEFINE o == n * MAXPAYLOAD
<1>1. o \in Nat /\ o < s /\ s \in Nat /\ s < MAXSEGMENTSIZE
  BY PacketizerAssumption
<1>2. MAXSEGMENTSIZE \in Nat \ {0} /\ MAXPAYLOAD \in Nat \ {0}
  BY PacketizerAssumption
<1> HIDE DEF o
<1>3. o % MAXSEGMENTSIZE = o
  BY <1>1, <1>2, ModSmall
<1>4. PacketOffset(n) = o
  BY <1>3 DEF PacketOffset, o
<1>5. (s - o) % MAXSEGMENTSIZE = s - o
  BY <1>1, <1>2, ModSmall
<1>6. Remaining(n, s) = s - o
  BY <1>4, <1>5 DEF Remaining
<1>7. /\ PayloadSize(n, s) \in 1 .. MAXPAYLOAD
      /\ o + PayloadSize(n, s) <= s
      /\ LastPacket(n, s) <=> o + PayloadSize(n, s) = s
      /\ ~LastPacket(n, s) => PayloadSize(n, s) = MAXPAYLOAD
  BY <1>1, <1>2, <1>6 DEF PayloadSize, LastPacket
<1> QED
  BY <1>4, <1>6, <1>7 DEF o

\* The NABU finds the end mark in the packet type when PacketizeSegment set it.
LEMMA EndMarkRead ==
  ASSUME NEW n \in Nat, NEW last \in BOOLEAN
  PROVE  EndMark(PacketType(n, last)) <=> last
BY DEF EndMark, PacketType
=============================================================================
