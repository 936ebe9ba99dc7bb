----------------------------- MODULE Packetizer -----------------------------
(***************************************************************************)
(* The arithmetic of PacketizeSegment in src/packet.c: which bytes of the  *)
(* segment buffer packet num of a segment of the given size carries, and   *)
(* its packet type.  PacketOffset and sz are uint16_t in the code.         *)
(***************************************************************************)
EXTENDS Integers

CONSTANTS
  MAXPAYLOAD,      \* payload bytes of a packet: 991
  MAXSEGMENTSIZE   \* 65536: the segment buffer, and the width of uint16_t

ASSUME PacketizerAssumption ==
  /\ MAXPAYLOAD \in Nat \ {0}
  /\ MAXSEGMENTSIZE \in Nat \ {0}
  /\ MAXPAYLOAD < MAXSEGMENTSIZE

PacketOffsetSigned(num) ==      \* mutant: int16_t
  LET o == (num * MAXPAYLOAD) % MAXSEGMENTSIZE
  IN  IF 2 * o >= MAXSEGMENTSIZE THEN o - MAXSEGMENTSIZE ELSE o

PacketOffset(num) == (num * MAXPAYLOAD) % MAXSEGMENTSIZE

Remaining(num, size) == (size - PacketOffset(num)) % MAXSEGMENTSIZE

PayloadSize(num, size) ==
  IF MAXPAYLOAD < Remaining(num, size) THEN MAXPAYLOAD ELSE Remaining(num, size)

LastPacketShort(num, size) == Remaining(num, size) < MAXPAYLOAD      \* mutant: < for <=
LastPacket(num, size) == PayloadSize(num, size) = Remaining(num, size)

\* Byte 11 of the header: 0xa1 for the first packet, 0x20 for the others, with
\* bit 4 (0x10) set in the last.
PacketType(num, last) == (IF num = 0 THEN 161 ELSE 32) + (IF last THEN 16 ELSE 0)
EndMarkOther(type) == (type \div 32) % 2 = 1      \* mutant: bit 5
EndMark(type) == (type \div 16) % 2 = 1
=============================================================================
