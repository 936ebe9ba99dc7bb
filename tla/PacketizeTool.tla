---------------------------- MODULE PacketizeTool ----------------------------
(***************************************************************************)
(* src/tools/packetize.c: the program that cuts a .nabu file into the .pak *)
(* files which the gateway serves when it finds no .nabu.  Its packets are *)
(* compared with those PacketizeSegment makes of the same segment.         *)
(***************************************************************************)
EXTENDS Packetizer, Sequences

CONSTANTS
  FileSizes,       \* sizes of the input
  SegmentNumbers,  \* the segment numbers given, up to 0x7ffffe
  FirstI,          \* what the uninitialised i may hold when the loop begins
  NoPak

ASSUME ToolAssumption ==
  /\ \A s \in FileSizes : s \in Nat /\ s <= MAXSEGMENTSIZE      \* larger ones are refused
  /\ \A s \in SegmentNumbers : s \in Nat /\ s <= 8388606
  /\ FirstI \subseteq Nat

\* The tool has the numbers themselves.
ASSUME ToolSizes == MAXPAYLOAD = 991 /\ MAXSEGMENTSIZE = 65536

VARIABLES
  segment, sz,
  i,        \* bytes cut so far
  packet,   \* number of the next .pak
  pak       \* the last .pak written

tool_vars == <<segment, sz, i, packet, pak>>

ToolStart ==
  /\ segment \in SegmentNumbers /\ sz \in FileSizes
  /\ i \in FirstI /\ packet = 0 /\ pak = NoPak

\* writepacket: its packet number is a byte, its offset 16 bits.
SegmentHeader(s) == <<(s \div 16777216) % 256, (s \div 256) % 256, s % 256>>
TypeByteFirst(num, last) ==      \* mutant: the first packet is never marked last
  IF num = 0 THEN 161 ELSE IF last THEN 48 ELSE 32
TypeByte(num, last) == IF last THEN 48 ELSE IF num = 0 THEN 161 ELSE 32
PszOver(left) == MAXPAYLOAD      \* mutant: the file's end is not looked at
Psz(left) == IF left < MAXPAYLOAD THEN left ELSE MAXPAYLOAD

writepacket(num, from, left) ==
  [segment |-> SegmentHeader(segment), num |-> num % 256,
   type |-> TypeByte(num % 256, Psz(left) = left),
   offset |-> ((num % 256) * MAXPAYLOAD) % 65536,
   from |-> from, size |-> Psz(left)]

\* One turn of main's loop.
WritePak ==
  /\ i < sz
  /\ pak' = writepacket(packet, i, sz - i)
  /\ i' = i + Psz(sz - i)
  /\ packet' = packet + 1
  /\ UNCHANGED <<segment, sz>>

-----------------------------------------------------------------------------
Fits == sz < MAXSEGMENTSIZE /\ pak # NoPak

\* A .pak holds the bytes that PacketizeSegment puts into the packet of that
\* number, and says so in its offset: the NABU gets the same program from
\* .pak files as from the .nabu file they were made of.
SamePayload ==
  Fits =>
    /\ pak.num < packet
    /\ pak.from = PacketOffset(pak.num) /\ pak.offset = PacketOffset(pak.num)
    /\ pak.size = PayloadSize(pak.num, sz)
    /\ EndMark(pak.type) <=> LastPacket(pak.num, sz)

\* When the program ends every byte of the file is in some .pak, and no packet
\* number has outgrown the two digits of its file name.
AllCut == i >= sz => i = sz /\ packet <= 256 /\ sz <= packet * MAXPAYLOAD
=============================================================================
