--------------------------- MODULE PacketsProofs ---------------------------
(***************************************************************************)
(* Proofs about SegmentLoad, for every payload size, every buffer size and *)
(* every segment that fits: the packets are the segment, cut in order.     *)
(* Proofs about Packets, for any programs and segment numbers, when i      *)
(* starts at 0: the .pak files are the packets of PacketizeSegment, and a  *)
(* load from them is a load of SegmentLoad.                                *)
(* Proofs about Crc, for messages of any length: the check bytes at the    *)
(* end of each packet are the ones a receiver expects, and no others.      *)
(***************************************************************************)
EXTENDS Packets, PacketizerProofs, Crc

\* The inductive invariant: what the NABU has is a whole number of payloads
\* until the end mark, and short of the segment's size exactly as long.
LoadInv ==
  /\ LoadTypeOK
  /\ ~complete => loaded = num * MAXPAYLOAD /\ loaded < size
  /\ complete => loaded = size

LEMMA AtTheStart ==
  ASSUME NEW s \in Sizes
  PROVE  0 = 0 * MAXPAYLOAD /\ 0 < s
<1>1. MAXPAYLOAD \in Nat
  BY PacketizerAssumption
<1>2. s \in Nat /\ s > 0
  BY SizesInRange, PacketizerAssumption
<1> QED
  BY <1>1, <1>2

LEMMA LoadInvStart == LoadStart => LoadInv
<1> SUFFICES ASSUME LoadStart PROVE LoadInv
  OBVIOUS
<1>1. size \in Sizes /\ num = 0 /\ loaded = 0 /\ complete = FALSE
  BY DEF LoadStart
<1>2. 0 = 0 * MAXPAYLOAD /\ 0 < size
  BY <1>1, AtTheStart
<1> QED
  BY <1>1, <1>2 DEF LoadInv, LoadTypeOK

LEMMA LoadInvStep == LoadInv /\ [LoadNext]_load_vars => LoadInv'
PROOF
<1> SUFFICES ASSUME LoadInv, [LoadNext]_load_vars PROVE LoadInv'
  OBVIOUS
<1>1. CASE Deliver
  <2>1. /\ size \in 1 .. MAXSEGMENTSIZE - 1 /\ num \in Nat
        /\ loaded = num * MAXPAYLOAD /\ loaded < size /\ loaded \in Nat
    BY <1>1, SizesInRange DEF LoadInv, LoadTypeOK, Deliver
  <2>2. /\ PayloadSize(num, size) \in 1 .. MAXPAYLOAD
        /\ loaded + PayloadSize(num, size) <= size
        /\ LastPacket(num, size) <=> loaded + PayloadSize(num, size) = size
        /\ ~LastPacket(num, size) => PayloadSize(num, size) = MAXPAYLOAD
    BY <2>1, PacketExact
  <2>3. LastPacket(num, size) \in BOOLEAN
    BY DEF LastPacket
  <2>4. complete' <=> LastPacket(num, size)
    BY <1>1, <2>1, <2>3, EndMarkRead DEF Deliver
  <2>5. complete' \in BOOLEAN
    BY <1>1 DEF Deliver, EndMark
  <2>6. loaded' = loaded + PayloadSize(num, size) /\ num' = num + 1 /\ size' = size
    BY <1>1 DEF Deliver
  <2>7. (num + 1) * MAXPAYLOAD = num * MAXPAYLOAD + MAXPAYLOAD
    BY <2>1, PacketizerAssumption
  <2>8. LoadTypeOK'
    BY <2>1, <2>2, <2>5, <2>6, PacketizerAssumption DEF LoadInv, LoadTypeOK
  <2>9. ~complete' => loaded' = num' * MAXPAYLOAD /\ loaded' < size'
    <3>1. ASSUME ~complete'
          PROVE  loaded' = loaded + MAXPAYLOAD /\ loaded' < size'
      <4>1. /\ ~LastPacket(num, size) /\ PayloadSize(num, size) = MAXPAYLOAD
            /\ loaded + PayloadSize(num, size) # size
        BY <3>1, <2>2, <2>4
      <4> QED
        BY <4>1, <2>1, <2>2, <2>6, PacketizerAssumption
    <3> QED
      BY <3>1, <2>1, <2>6, <2>7
  <2>10. complete' => loaded' = size'
    BY <2>2, <2>4, <2>6
  <2> QED
    BY <2>8, <2>9, <2>10 DEF LoadInv
<1>2. CASE NextSegment
  <2>1. size' \in Sizes /\ num' = 0 /\ loaded' = 0 /\ complete' = FALSE
    BY <1>2 DEF NextSegment
  <2>2. 0 = 0 * MAXPAYLOAD /\ 0 < size'
    BY <2>1, AtTheStart
  <2> QED
    BY <2>1, <2>2 DEF LoadInv, LoadTypeOK
<1>3. CASE UNCHANGED load_vars
  BY <1>3 DEF load_vars, LoadInv, LoadTypeOK
<1> QED
  BY <1>1, <1>2, <1>3 DEF LoadNext

\* Type correctness, with the invariant it is part of.
THEOREM LoadInvariant == LoadSpec => []LoadInv
PROOF
<1> QED
  BY LoadInvStart, LoadInvStep, PTL DEF LoadSpec

\* Whatever the segment's size, the packets the NABU is sent are the segment cut
\* in order, with no gap, no overlap and no 16-bit truncation.
THEOREM SegmentIsContiguous == LoadSpec => []Contiguous
PROOF
<1>1. LoadInv => Contiguous
  <2> SUFFICES ASSUME LoadInv, ~complete PROVE Contiguous
    BY DEF Contiguous
  <2>1. /\ size \in 1 .. MAXSEGMENTSIZE - 1 /\ num \in Nat
        /\ loaded = num * MAXPAYLOAD /\ num * MAXPAYLOAD < size /\ loaded \in Nat
    BY SizesInRange DEF LoadInv, LoadTypeOK
  <2>2. /\ PacketOffset(num) = num * MAXPAYLOAD
        /\ Remaining(num, size) = size - num * MAXPAYLOAD
    BY <2>1, PacketExact
  <2> QED
    BY <2>1, <2>2 DEF Contiguous
<1> QED
  BY LoadInvariant, <1>1, PTL

\* The end mark is set in the packet with the segment's last byte and in no
\* other: a NABU that stops there has the whole segment.
THEOREM SegmentEnds == LoadSpec => []EndIsEnd
PROOF
<1>1. LoadInv => EndIsEnd
  BY SizesInRange DEF LoadInv, LoadTypeOK, EndIsEnd
<1> QED
  BY LoadInvariant, <1>1, PTL

-----------------------------------------------------------------------------
StartsAtZero == FirstI = {0}

Paks ==
  [segment : Seq(0 .. 255), num : Nat, type : Nat, offset : Nat, from : Nat, size : Nat]

\* The .pak of packet n of a program of s bytes.
PakOf(n, p, s) ==
  /\ p \in Paks /\ p.num = n /\ p.from = n * MAXPAYLOAD /\ p.offset = n * MAXPAYLOAD
  /\ p.size = Psz(s - n * MAXPAYLOAD)
  /\ p.type = TypeByte(n, s - n * MAXPAYLOAD <= MAXPAYLOAD)

\* Whole payloads are cut until the last, which ends the file.
CutInv ==
  /\ segment \in Nat /\ sz \in Nat /\ sz <= MAXSEGMENTSIZE /\ packet \in Nat /\ i \in Nat
  /\ i < sz => i = packet * MAXPAYLOAD
  /\ i >= sz => i = sz /\ sz <= packet * MAXPAYLOAD
  /\ packet = 0 \/ (packet - 1) * MAXPAYLOAD < sz

PaksInv ==
  /\ paks \in Seq(Paks) /\ Len(paks) = packet
  /\ \A k \in 1 .. packet : PakOf(k - 1, paks[k], sz)
  /\ pak = NoPak \/ (packet # 0 /\ PakOf(packet - 1, pak, sz))

PacketsInv == CutInv /\ PaksInv /\ LoadInv /\ Program(size, source)

-----------------------------------------------------------------------------
\* What writepacket makes of the packet that main's loop is at: the number fits
\* its byte and the offset its 16 bits.
LEMMA WritePacket ==
  ASSUME CutInv, i < sz
  PROVE  /\ PakOf(packet, writepacket(packet, i, sz - i), sz)
         /\ packet \in 0 .. 66
<1>1. MAXPAYLOAD = 991 /\ MAXSEGMENTSIZE = 65536
  BY ToolSizes
<1>2. i = packet * 991 /\ packet * 991 < 65536 /\ packet \in Nat /\ sz \in Nat
  BY <1>1, SMT DEF CutInv
<1>3. packet \in 0 .. 66
  BY <1>2, SMT
<1>4. packet % 256 = packet /\ (packet * 991) % 65536 = packet * 991
  BY <1>2, <1>3, SMT
<1>5. (Psz(sz - i) = sz - i) <=> (sz - i <= 991)
  BY <1>1, <1>2, SMT DEF Psz
<1>6. TypeByte(packet, Psz(sz - i) = sz - i) = TypeByte(packet, sz - i <= 991)
  BY <1>5, SMT DEF TypeByte
<1>7. writepacket(packet, i, sz - i) \in Paks
  <2>1. SegmentHeader(segment) \in Seq(0 .. 255)
    <3>1. \A n \in Nat : (segment \div (n + 1)) % 256 \in 0 .. 255
      BY SMT DEF CutInv
    <3>2. SegmentHeader(segment) \in Seq(Int)
      BY SMT DEF CutInv, SegmentHeader
    <3> QED BY <3>1, <3>2, SMT DEF CutInv, SegmentHeader
  <2> QED BY <1>1, <1>2, <1>3, <1>4, <2>1, SMT DEF writepacket, Paks, Psz, TypeByte
<1> QED BY <1>1, <1>2, <1>3, <1>4, <1>6, <1>7, SMT DEF PakOf, writepacket

LEMMA CutStart == StartsAtZero /\ PacketsStart => PacketsInv
<1> SUFFICES ASSUME StartsAtZero, PacketsStart PROVE PacketsInv
  OBVIOUS
<1>1. CutInv
  <2>1. i = 0 /\ packet = 0 /\ segment \in Nat /\ sz \in Nat /\ sz <= MAXSEGMENTSIZE
    BY ToolAssumption DEF PacketsStart, ToolStart, StartsAtZero
  <2> QED BY <2>1, ToolSizes, SMT DEF CutInv
<1>2. PaksInv
  BY DEF PacketsStart, ToolStart, PaksInv
<1> QED BY <1>1, <1>2, LoadInvStart DEF PacketsStart, PacketsInv

LEMMA CutKeeps == PacketsInv /\ Cut => PacketsInv'
<1> SUFFICES ASSUME PacketsInv, Cut PROVE PacketsInv'
  OBVIOUS
<1>1. /\ i < sz /\ sz' = sz /\ packet' = packet + 1 /\ i' = i + Psz(sz - i)
      /\ pak' = writepacket(packet, i, sz - i) /\ paks' = Append(paks, pak')
  BY DEF Cut, WritePak
<1>2. PakOf(packet, pak', sz) /\ packet \in 0 .. 66
  BY <1>1, WritePacket DEF PacketsInv
<1>3. MAXPAYLOAD = 991 /\ MAXSEGMENTSIZE = 65536
  BY ToolSizes
<1>4. CutInv'
  <2>1. /\ segment \in Nat /\ segment' = segment /\ sz \in Nat /\ sz <= 65536
        /\ packet \in Nat /\ i = packet * 991 /\ i < sz
    BY <1>1, <1>2, <1>3, SMT DEF PacketsInv, CutInv, Cut, WritePak
  <2>2. i' = (IF sz - i < 991 THEN sz ELSE i + 991)
    BY <1>1, <1>3, <2>1, SMT DEF Psz
  <2>3. (packet + 1) * 991 = packet * 991 + 991 /\ (packet + 1) - 1 = packet
    BY <2>1, SMT
  <2> QED BY <1>1, <1>3, <2>1, <2>2, <2>3, SMT DEF CutInv
<1>5. PaksInv'
  <2>1. paks \in Seq(Paks) /\ Len(paks) = packet
        /\ \A k \in 1 .. packet : PakOf(k - 1, paks[k], sz)
    BY DEF PacketsInv, PaksInv
  <2>2. /\ Len(paks') = packet + 1 /\ paks'[packet + 1] = pak'
        /\ \A k \in 1 .. packet : paks'[k] = paks[k]
    BY <1>1, <1>2, <2>1
  <2>3. pak' \in Paks
    BY <1>2 DEF PakOf
  <2>4. paks' \in Seq(Paks)
    BY <1>1, <2>1, <2>3
  <2>5. \A k \in 1 .. packet' : PakOf(k - 1, paks'[k], sz')
    BY <1>1, <1>2, <2>1, <2>2
  <2> QED BY <1>1, <1>2, <2>2, <2>4, <2>5 DEF PaksInv
<1>6. LoadInv' /\ Program(size, source)'
  BY <1>1, LoadInvStep DEF PacketsInv, Cut, load_vars, Program
<1> QED BY <1>4, <1>5, <1>6 DEF PacketsInv

\* The .pak of a packet that is there has the payload of that packet, and its
\* end mark.
LEMMA PakIsPacket ==
  ASSUME NEW n \in Nat, NEW s \in 1 .. MAXSEGMENTSIZE - 1, NEW p,
         n * MAXPAYLOAD < s, PakOf(n, p, s)
  PROVE  /\ p.from = PacketOffset(n) /\ p.offset = PacketOffset(n)
         /\ p.size = PayloadSize(n, s) /\ Remaining(n, s) # 0
         /\ EndMark(p.type) <=> LastPacket(n, s)
         /\ EndMark(p.type) <=> EndMark(PacketType(n, LastPacket(n, s)))
<1>1. /\ Remaining(n, s) = s - n * MAXPAYLOAD
      /\ LastPacket(n, s) <=> n * MAXPAYLOAD + PayloadSize(n, s) = s
      /\ PacketOffset(n) = n * MAXPAYLOAD
  BY PacketExact
<1> DEFINE left == s - n * MAXPAYLOAD
<1>2. left \in Nat /\ left # 0 /\ MAXPAYLOAD \in Nat
  <2>1. MAXPAYLOAD \in Nat /\ s \in Nat
    <3>1. MAXPAYLOAD \in Nat
      BY PacketizerAssumption, Zenon
    <3>2. s \in Nat
      OBVIOUS
    <3> QED
      BY <3>1, <3>2
  <2>2. PICK o \in Nat : o = n * MAXPAYLOAD
    BY <2>1
  <2>3. s - o \in Nat /\ s - o # 0
    BY <2>1, <2>2
  <2> QED
    BY <2>1, <2>2, <2>3
<1>9. p.size = Psz(left) /\ Remaining(n, s) = left
  BY <1>1 DEF PakOf
<1> HIDE DEF left
<1>3. p.size = PayloadSize(n, s) /\ Remaining(n, s) # 0
  BY <1>2, <1>9 DEF Psz, PayloadSize
<1>10. (left <= MAXPAYLOAD) <=> LastPacket(n, s)
  BY <1>2, <1>9 DEF PayloadSize, LastPacket
<1>4. (s - n * MAXPAYLOAD <= MAXPAYLOAD) <=> LastPacket(n, s)
  BY <1>10, Zenon DEF left
<1>5. p.type = TypeByte(n, s - n * MAXPAYLOAD <= MAXPAYLOAD)
  BY DEF PakOf
<1>6. ~EndMark(161) /\ ~EndMark(32) /\ EndMark(177) /\ EndMark(48)
  BY SMT DEF EndMark
<1>7. /\ EndMark(p.type) <=> LastPacket(n, s)
      /\ EndMark(PacketType(n, LastPacket(n, s))) <=> LastPacket(n, s)
  <2>1. LastPacket(n, s) => p.type = 48 /\ PacketType(n, LastPacket(n, s)) \in {177, 48}
    BY <1>4, <1>5 DEF TypeByte, PacketType
  <2>2. ~LastPacket(n, s) =>
          p.type \in {161, 32} /\ PacketType(n, LastPacket(n, s)) \in {161, 32}
    BY <1>4, <1>5 DEF TypeByte, PacketType
  <2> QED BY <1>6, <2>1, <2>2
<1>8. p.from = PacketOffset(n) /\ p.offset = PacketOffset(n)
  BY <1>1 DEF PakOf
<1> QED BY <1>3, <1>7, <1>8

LEMMA FromPaksIsDeliver == PacketsInv /\ FromPaks => Deliver
<1> SUFFICES ASSUME PacketsInv, FromPaks PROVE Deliver
  OBVIOUS
<1> DEFINE s == sz
           p == paks[num + 1]
<1>1. /\ size = s /\ s \in 1 .. MAXSEGMENTSIZE - 1 /\ num \in Nat
      /\ loaded = num * MAXPAYLOAD /\ num * MAXPAYLOAD < s
  <2>1. ~complete /\ source = "paks"
    BY DEF FromPaks
  <2>2. size = sz /\ sz \in Sizes
    BY <2>1 DEF PacketsInv, Program
  <2> QED BY <2>1, <2>2, SizesInRange DEF PacketsInv, LoadInv, LoadTypeOK
<1>2. PakOf(num, p, s) /\ num + 1 \in 1 .. packet
  <2>1. num + 1 \in 1 .. packet
    BY <1>1 DEF FromPaks, PacketsInv, PaksInv
  <2>2. PakOf((num + 1) - 1, paks[num + 1], sz)
    BY <2>1 DEF PacketsInv, PaksInv
  <2> QED BY <1>1, <2>1, <2>2
<1> HIDE DEF p, s
<1>3. /\ p.size = PayloadSize(num, s) /\ Remaining(num, s) # 0
      /\ EndMark(p.type) <=> EndMark(PacketType(num, LastPacket(num, s)))
  BY <1>1, <1>2, PakIsPacket
<1>4. EndMark(p.type) = EndMark(PacketType(num, LastPacket(num, s)))
  BY <1>3 DEF EndMark
<1> QED BY <1>1, <1>3, <1>4 DEF FromPaks, Deliver, p, s

LEMMA LoadKeeps == PacketsInv /\ (FromSegment \/ FromPaks \/ LoadAgain) => PacketsInv'
<1> SUFFICES ASSUME PacketsInv, FromSegment \/ FromPaks \/ LoadAgain PROVE PacketsInv'
  OBVIOUS
<1>1. UNCHANGED <<tool_vars, paks>>
  BY DEF FromSegment, FromPaks, LoadAgain
<1>2. CutInv' /\ PaksInv'
  BY <1>1 DEF PacketsInv, CutInv, PaksInv, tool_vars
<1>3. LoadInv'
  BY FromPaksIsDeliver, LoadInvStep DEF PacketsInv, FromSegment, LoadAgain, LoadNext
<1>4. Program(size, source)'
  BY <1>1, FromPaksIsDeliver
     DEF PacketsInv, Program, FromSegment, FromPaks, LoadAgain, Deliver, tool_vars
<1> QED BY <1>2, <1>3, <1>4 DEF PacketsInv

LEMMA PacketsStep == PacketsInv /\ [PacketsNext]_packets_vars => PacketsInv'
<1> SUFFICES ASSUME PacketsInv, [PacketsNext]_packets_vars PROVE PacketsInv'
  OBVIOUS
<1>1. CASE UNCHANGED packets_vars
  BY <1>1 DEF packets_vars, tool_vars, load_vars, PacketsInv, CutInv, PaksInv, LoadInv,
              LoadTypeOK, Program
<1>2. CASE PacketsNext
  BY <1>2, CutKeeps, LoadKeeps DEF PacketsNext
<1> QED BY <1>1, <1>2

LEMMA PacketsAlways == StartsAtZero /\ PacketsSpec => []PacketsInv
<1>1. StartsAtZero /\ PacketsStart => PacketsInv
  BY CutStart
<1> QED BY <1>1, PacketsStep, PTL DEF PacketsSpec

-----------------------------------------------------------------------------
\* Each .pak of src/tools/packetize.c has the payload, the offset and the end
\* mark of the packet that PacketizeSegment (src/packet.c) makes of that number.
THEOREM PaksAreThePackets == StartsAtZero /\ PacketsSpec => []SamePayload
<1>1. PacketsInv => SamePayload
  <2> SUFFICES ASSUME PacketsInv, Fits
               PROVE  /\ pak.num < packet
                      /\ pak.from = PacketOffset(pak.num) /\ pak.offset = PacketOffset(pak.num)
                      /\ pak.size = PayloadSize(pak.num, sz)
                      /\ EndMark(pak.type) <=> LastPacket(pak.num, sz)
    BY DEF SamePayload
  <2>1. packet \in Nat /\ packet # 0 /\ PakOf(packet - 1, pak, sz)
    BY DEF Fits, PacketsInv, PaksInv, CutInv
  <2>2. packet - 1 \in Nat /\ (packet - 1) * MAXPAYLOAD < sz /\ sz \in Nat
    BY <2>1 DEF PacketsInv, CutInv
  <2>3. sz \in 1 .. MAXSEGMENTSIZE - 1
    <3>1. \A k, x \in Nat : k < x => x >= 1
      OBVIOUS
    <3>2. (packet - 1) * MAXPAYLOAD \in Nat /\ MAXSEGMENTSIZE \in Nat
      BY <2>2, ToolSizes
    <3>3. sz >= 1 /\ sz \in Nat
      BY <2>2, <3>1, <3>2
    <3>4. sz < MAXSEGMENTSIZE
      BY DEF Fits
    <3> QED BY <3>2, <3>3, <3>4
  <2>4. pak.num = packet - 1
    BY <2>1 DEF PakOf
  <2> QED BY <2>1, <2>2, <2>3, <2>4, PakIsPacket
<1> QED BY <1>1, PacketsAlways, PTL

\* The tool cuts the whole file, in numbers that fit the two digits of a name.
THEOREM ToolCutsAll == StartsAtZero /\ PacketsSpec => []AllCut
<1>1. PacketsInv => AllCut
  <2> SUFFICES ASSUME PacketsInv, i >= sz
               PROVE  i = sz /\ packet <= 256 /\ sz <= packet * MAXPAYLOAD
    BY DEF AllCut
  <2>1. packet \in Nat /\ (packet = 0 \/ (packet - 1) * 991 < 65536)
    BY ToolSizes, SMT DEF PacketsInv, CutInv
  <2>2. packet <= 256
    BY <2>1, SMT
  <2> QED BY <2>2 DEF PacketsInv, CutInv
<1> QED BY <1>1, PacketsAlways, PTL

\* A load from .pak files is a load of the segment: the safety part of SameLoad.
THEOREM PaksLoadTheSegment ==
  StartsAtZero /\ PacketsSpec => LoadStart /\ [][LoadNext]_load_vars
<1>1. PacketsStart => LoadStart
  BY DEF PacketsStart
<1>2. PacketsInv /\ [PacketsNext]_packets_vars => [LoadNext]_load_vars
  BY FromPaksIsDeliver
     DEF PacketsNext, Cut, FromSegment, LoadAgain, LoadNext, packets_vars
<1> QED BY <1>1, <1>2, PacketsAlways, PTL DEF PacketsSpec

-----------------------------------------------------------------------------
\* A word is a set of bits, so a shift stays one, and it distributes over the
\* exclusive or: that is what lets a table of one byte's shifts stand for all.
LEMMA ShiftOnceWord ==
  ASSUME NEW r \in Words
  PROVE  ShiftOnce(r) \in Words
BY DEF ShiftOnce, Words, SymDiff, Generator

LEMMA ShiftOnceLinear ==
  ASSUME NEW x \in Words, NEW y \in Words
  PROVE  ShiftOnce(SymDiff(x, y)) = SymDiff(ShiftOnce(x), ShiftOnce(y))
BY DEF ShiftOnce, Words, SymDiff, Generator

LEMMA SymDiffWord ==
  ASSUME NEW x \in Words, NEW y \in Words
  PROVE  SymDiff(x, y) \in Words
BY DEF Words, SymDiff

LEMMA RaisedWord ==
  ASSUME NEW a
  PROVE  Raised(a) \in Words
BY DEF Words, Raised

LEMMA ShiftByteWord ==
  ASSUME NEW r \in Words
  PROVE  ShiftByte(r) \in Words
<1>1. \A x \in Words : ShiftTwice(x) \in Words
  BY ShiftOnceWord DEF ShiftTwice
<1> QED
  BY <1>1 DEF ShiftByte

LEMMA ShiftByteLinear ==
  ASSUME NEW x \in Words, NEW y \in Words
  PROVE  ShiftByte(SymDiff(x, y)) = SymDiff(ShiftByte(x), ShiftByte(y))
<1>1. \A u, v \in Words : ShiftTwice(SymDiff(u, v)) = SymDiff(ShiftTwice(u), ShiftTwice(v))
  BY ShiftOnceLinear, ShiftOnceWord DEF ShiftTwice
<1>2. \A u \in Words : ShiftTwice(u) \in Words
  BY ShiftOnceWord DEF ShiftTwice
<1> QED
  BY <1>1, <1>2 DEF ShiftByte

\* A byte in the lower half, shifted n times to the left.
Moved(r, n) == {k \in 0 .. 15 : k - n \in r}

LEMMA MovedOnce ==
  ASSUME NEW r \in Octets, NEW n \in 0 .. 7
  PROVE  ShiftOnce(Moved(r, n)) = Moved(r, n + 1)
<1>1. \A k \in r : k \in 0 .. 7
  BY DEF Octets
<1>2. 15 \notin Moved(r, n)
  BY <1>1 DEF Moved
<1>3. {k \in 1 .. 15 : k - 1 \in Moved(r, n)} = Moved(r, n + 1)
  <2>1. \A k \in 1 .. 15 : (k - 1) - n = k - (n + 1)
    OBVIOUS
  <2>2. ASSUME NEW k \in 1 .. 15
        PROVE  k - 1 \in Moved(r, n) <=> k - (n + 1) \in r
    BY <2>1 DEF Moved
  <2>3. 0 - (n + 1) \notin r
    BY <1>1
  <2> QED
    BY <2>2, <2>3 DEF Moved
<1> QED
  BY <1>2, <1>3 DEF ShiftOnce

\* Without a bit in the upper byte the register only moves left.
LEMMA LowByteLeaves ==
  ASSUME NEW r \in Octets
  PROVE  ShiftByte(r) = Raised(r)
<1>0. r = Moved(r, 0)
  <2>1. \A k \in r : k \in 0 .. 15 /\ k - 0 = k
    BY DEF Octets
  <2>2. \A k \in 0 .. 15 : k - 0 = k
    OBVIOUS
  <2> QED
    BY <2>1, <2>2 DEF Moved
<1>1. \A n \in {0, 2, 4, 6} : ShiftTwice(Moved(r, n)) = Moved(r, n + 2)
  <2>1. \A n \in {0, 2, 4, 6} : (n + 1) + 1 = n + 2 /\ n \in 0 .. 7 /\ n + 1 \in 0 .. 7
    OBVIOUS
  <2> QED
    BY <2>1, MovedOnce DEF ShiftTwice
<1>2. ShiftByte(Moved(r, 0)) = Moved(r, 8)
  BY <1>1 DEF ShiftByte
<1>3. Moved(r, 8) = Raised(r)
  <2>1. \A k \in r : k \in 0 .. 7
    BY DEF Octets
  <2> QED
    BY <2>1 DEF Moved, Raised
<1> QED
  BY <1>0, <1>2, <1>3

\* What enters the register at the top selects the entry; the low byte moves up.
LEMMA SplitWord ==
  ASSUME NEW r \in Words, NEW a \in Octets
  PROVE  /\ SymDiff(r, Raised(a)) = SymDiff(Raised(SymDiff(High(r), a)), Low(r))
         /\ High(r) \in Octets /\ Low(r) \in Octets
         /\ SymDiff(High(r), a) \in Octets
<1>1. High(r) \in Octets /\ Low(r) \in Octets
  BY DEF Octets, High, Low
<1>2. SymDiff(High(r), a) \in Octets
  BY <1>1 DEF Octets, SymDiff
<1>3. ASSUME NEW k
      PROVE  k \in SymDiff(r, Raised(a)) <=> k \in SymDiff(Raised(SymDiff(High(r), a)), Low(r))
  <2>1. CASE k \in 0 .. 7
    <3>1. k \notin Raised(a) /\ k \notin Raised(SymDiff(High(r), a))
      BY <2>1 DEF Raised
    <3> QED
      BY <2>1, <3>1 DEF SymDiff, Low
  <2>2. CASE k \in 8 .. 15
    <3>1. k - 8 \in 0 .. 7 /\ (k - 8) + 8 = k /\ k \notin 0 .. 7
      BY <2>2
    <3>2. k \in Raised(a) <=> k - 8 \in a
      BY <2>2 DEF Raised
    <3>3. k \in Raised(SymDiff(High(r), a)) <=> k - 8 \in SymDiff(High(r), a)
      BY <2>2 DEF Raised
    <3>4. k - 8 \in High(r) <=> k \in r
      BY <3>1 DEF High
    <3> QED
      BY <3>1, <3>2, <3>3, <3>4 DEF SymDiff, Low
  <2>3. CASE k \notin 0 .. 15
    <3>1. (0 .. 7) \subseteq 0 .. 15 /\ (8 .. 15) \subseteq 0 .. 15
      OBVIOUS
    <3>2. k \notin r /\ k \notin 0 .. 7 /\ k \notin 8 .. 15
      BY <2>3, <3>1 DEF Words
    <3> QED
      BY <3>2 DEF SymDiff, Low, Raised
  <2> QED
    BY <2>1, <2>2, <2>3
<1> QED
  BY <1>1, <1>2, <1>3

LEMMA Commutes ==
  ASSUME NEW x, NEW y
  PROVE  SymDiff(x, y) = SymDiff(y, x)
BY DEF SymDiff

\* crc_update is the reference's eight shifts, from every word.
LEMMA UpdateIsShift ==
  ASSUME NEW r \in Words, NEW a \in Octets
  PROVE  crc_update(r, a) = Shift(r, a)
<1> DEFINE bc == SymDiff(High(r), a)
<1>1. bc \in Octets /\ Low(r) \in Octets /\ Low(r) \in Words /\ Raised(bc) \in Words
  BY SplitWord, RaisedWord DEF Octets, Words
<1>2. Shift(r, a) = ShiftByte(SymDiff(Raised(bc), Low(r)))
  BY SplitWord DEF Shift
<1> HIDE DEF bc
<1>3. Shift(r, a) = SymDiff(ShiftByte(Raised(bc)), ShiftByte(Low(r)))
  BY <1>1, <1>2, ShiftByteLinear
<1>4. ShiftByte(Low(r)) = Raised(Low(r))
  BY <1>1, LowByteLeaves
<1>5. Raised(Low(r)) = Raised(r)
  BY DEF Raised, Low
<1>6. SymDiff({}, Raised(bc)) = Raised(bc)
  BY DEF SymDiff
<1>7. Word(crc_table[Number(bc) + 1]) = ShiftByte(Raised(bc))
  BY <1>1, <1>6, TableAssumption DEF Shift
<1>8. crc_update(r, a) = SymDiff(Raised(r), Word(crc_table[Number(bc) + 1]))
  BY DEF crc_update, bc
<1> QED
  BY <1>3, <1>4, <1>5, <1>7, <1>8, Commutes

\* The shifts of 0xff00, and of what then meets 0xff00 again.
LEMMA ShiftOnes == ShiftByte({8, 9, 10, 11, 12, 13, 14, 15}) = {4, 5, 6, 7, 9, 10, 11, 12}
<1>1. ShiftOnce({8, 9, 10, 11, 12, 13, 14, 15}) = {0, 5, 9, 10, 11, 13, 14, 15}
  BY DEF ShiftOnce, SymDiff, Generator
<1>2. ShiftOnce({0, 5, 9, 10, 11, 13, 14, 15}) = {0, 1, 5, 6, 10, 11, 14, 15}
  BY DEF ShiftOnce, SymDiff, Generator
<1>3. ShiftOnce({0, 1, 5, 6, 10, 11, 14, 15}) = {0, 1, 2, 5, 6, 7, 11, 15}
  BY DEF ShiftOnce, SymDiff, Generator
<1>4. ShiftOnce({0, 1, 2, 5, 6, 7, 11, 15}) = {0, 1, 2, 3, 5, 6, 7, 8}
  BY DEF ShiftOnce, SymDiff, Generator
<1>5. ShiftOnce({0, 1, 2, 3, 5, 6, 7, 8}) = {1, 2, 3, 4, 6, 7, 8, 9}
  BY DEF ShiftOnce, SymDiff, Generator
<1>6. ShiftOnce({1, 2, 3, 4, 6, 7, 8, 9}) = {2, 3, 4, 5, 7, 8, 9, 10}
  BY DEF ShiftOnce, SymDiff, Generator
<1>7. ShiftOnce({2, 3, 4, 5, 7, 8, 9, 10}) = {3, 4, 5, 6, 8, 9, 10, 11}
  BY DEF ShiftOnce, SymDiff, Generator
<1>8. ShiftOnce({3, 4, 5, 6, 8, 9, 10, 11}) = {4, 5, 6, 7, 9, 10, 11, 12}
  BY DEF ShiftOnce, SymDiff, Generator
<1>9. ShiftTwice({8, 9, 10, 11, 12, 13, 14, 15}) = {0, 1, 5, 6, 10, 11, 14, 15}
  BY <1>1, <1>2 DEF ShiftTwice
<1>10. ShiftTwice({0, 1, 5, 6, 10, 11, 14, 15}) = {0, 1, 2, 3, 5, 6, 7, 8}
  BY <1>3, <1>4 DEF ShiftTwice
<1>11. ShiftTwice({0, 1, 2, 3, 5, 6, 7, 8}) = {2, 3, 4, 5, 7, 8, 9, 10}
  BY <1>5, <1>6 DEF ShiftTwice
<1>12. ShiftTwice({2, 3, 4, 5, 7, 8, 9, 10}) = {4, 5, 6, 7, 9, 10, 11, 12}
  BY <1>7, <1>8 DEF ShiftTwice
<1> QED
  BY <1>9, <1>10, <1>11, <1>12 DEF ShiftByte

LEMMA ShiftOnesAgain == ShiftByte({4, 5, 6, 7, 8, 13, 14, 15}) = {0, 1, 2, 3, 8, 10, 11, 12}
<1>1. ShiftOnce({4, 5, 6, 7, 8, 13, 14, 15}) = {0, 6, 7, 8, 9, 12, 14, 15}
  BY DEF ShiftOnce, SymDiff, Generator
<1>2. ShiftOnce({0, 6, 7, 8, 9, 12, 14, 15}) = {0, 1, 5, 7, 8, 9, 10, 12, 13, 15}
  BY DEF ShiftOnce, SymDiff, Generator
<1>3. ShiftOnce({0, 1, 5, 7, 8, 9, 10, 12, 13, 15}) = {0, 1, 2, 5, 6, 8, 9, 10, 11, 12, 13, 14}
  BY DEF ShiftOnce, SymDiff, Generator
<1>4. ShiftOnce({0, 1, 2, 5, 6, 8, 9, 10, 11, 12, 13, 14}) = {1, 2, 3, 6, 7, 9, 10, 11, 12, 13, 14, 15}
  BY DEF ShiftOnce, SymDiff, Generator
<1>5. ShiftOnce({1, 2, 3, 6, 7, 9, 10, 11, 12, 13, 14, 15}) = {0, 2, 3, 4, 5, 7, 8, 10, 11, 13, 14, 15}
  BY DEF ShiftOnce, SymDiff, Generator
<1>6. ShiftOnce({0, 2, 3, 4, 5, 7, 8, 10, 11, 13, 14, 15}) = {0, 1, 3, 4, 6, 8, 9, 11, 14, 15}
  BY DEF ShiftOnce, SymDiff, Generator
<1>7. ShiftOnce({0, 1, 3, 4, 6, 8, 9, 11, 14, 15}) = {0, 1, 2, 4, 7, 9, 10, 15}
  BY DEF ShiftOnce, SymDiff, Generator
<1>8. ShiftOnce({0, 1, 2, 4, 7, 9, 10, 15}) = {0, 1, 2, 3, 8, 10, 11, 12}
  BY DEF ShiftOnce, SymDiff, Generator
<1>9. ShiftTwice({4, 5, 6, 7, 8, 13, 14, 15}) = {0, 1, 5, 7, 8, 9, 10, 12, 13, 15}
  BY <1>1, <1>2 DEF ShiftTwice
<1>10. ShiftTwice({0, 1, 5, 7, 8, 9, 10, 12, 13, 15}) = {1, 2, 3, 6, 7, 9, 10, 11, 12, 13, 14, 15}
  BY <1>3, <1>4 DEF ShiftTwice
<1>11. ShiftTwice({1, 2, 3, 6, 7, 9, 10, 11, 12, 13, 14, 15}) = {0, 1, 3, 4, 6, 8, 9, 11, 14, 15}
  BY <1>5, <1>6 DEF ShiftTwice
<1>12. ShiftTwice({0, 1, 3, 4, 6, 8, 9, 11, 14, 15}) = {0, 1, 2, 3, 8, 10, 11, 12}
  BY <1>7, <1>8 DEF ShiftTwice
<1> QED
  BY <1>9, <1>10, <1>11, <1>12 DEF ShiftByte

\* The check bytes lead every word to 0x1D0F.
LEMMA CheckBytesLead ==
  ASSUME NEW r \in Words
  PROVE  Shift(Shift(r, (0 .. 7) \ High(r)), (0 .. 7) \ Low(r)) = FixedResidue
<1> DEFINE c1 == (0 .. 7) \ High(r)
           c2 == (0 .. 7) \ Low(r)
           Ones == {8, 9, 10, 11, 12, 13, 14, 15}
           Mid == {4, 5, 6, 7, 9, 10, 11, 12}
<1>1. c1 \in Octets /\ c2 \in Octets /\ Low(r) \in Octets /\ Low(r) \in Words
  BY DEF Octets, Words, Low
<1>2. SymDiff(High(r), c1) = 0 .. 7
  BY DEF SymDiff, High
<1>3. Raised(0 .. 7) = Ones /\ Ones \in Words /\ Mid \in Words
  BY DEF Raised, Words
<1>4. Shift(r, c1) = ShiftByte(SymDiff(Ones, Low(r)))
  <2> HIDE DEF c1, Ones
  <2>1. SymDiff(r, Raised(c1)) = SymDiff(Raised(SymDiff(High(r), c1)), Low(r))
    BY <1>1, SplitWord
  <2> QED
    BY <1>2, <1>3, <2>1 DEF Shift
<1>5. Shift(r, c1) = SymDiff(Mid, Raised(Low(r)))
  <2>1. ShiftByte(SymDiff(Ones, Low(r))) = SymDiff(ShiftByte(Ones), ShiftByte(Low(r)))
    BY <1>1, <1>3, ShiftByteLinear
  <2>2. ShiftByte(Low(r)) = Raised(Low(r))
    BY <1>1, LowByteLeaves
  <2> QED
    BY <1>4, <2>1, <2>2, ShiftOnes
<1>6. SymDiff(SymDiff(Mid, Raised(Low(r))), Raised(c2)) = {4, 5, 6, 7, 8, 13, 14, 15}
  <2>1. SymDiff(SymDiff(Mid, Raised(Low(r))), Raised(c2))
          = SymDiff(Mid, SymDiff(Raised(Low(r)), Raised(c2)))
    BY DEF SymDiff
  <2>2. SymDiff(Raised(Low(r)), Raised(c2)) = Ones
    BY DEF SymDiff, Raised, Low
  <2>3. SymDiff(Mid, Ones) = {4, 5, 6, 7, 8, 13, 14, 15}
    BY DEF SymDiff
  <2> QED
    BY <2>1, <2>2, <2>3
<1> QED
  BY <1>5, <1>6, ShiftOnesAgain DEF Shift, FixedResidue

\* The inductive invariant: both are the same 16 bits.
CrcInv == crc \in Words /\ register = crc

LEMMA CrcInvStart == CrcStart => CrcInv
BY DEF CrcStart, CrcInv, Words

LEMMA CrcInvStep == CrcInv /\ [CrcNext]_crc_vars => CrcInv'
<1> SUFFICES ASSUME CrcInv, [CrcNext]_crc_vars PROVE CrcInv'
  OBVIOUS
<1>1. ASSUME NEW a \in First \cup Others, Feed(a)
      PROVE  CrcInv'
  <2>1. a \in Octets
    BY CrcAssumption
  <2>2. crc' = crc_update(crc, a) /\ register' = Shift(register, a) /\ register = crc
    BY <1>1 DEF Feed, CrcInv
  <2>3. crc' = register'
    BY <2>1, <2>2, UpdateIsShift DEF CrcInv
  <2>4. Shift(crc, a) \in Words
    BY RaisedWord, SymDiffWord, ShiftByteWord DEF Shift, CrcInv
  <2> QED
    BY <2>2, <2>3, <2>4 DEF CrcInv
<1>2. CASE UNCHANGED crc_vars
  BY <1>2 DEF CrcInv, crc_vars
<1> QED
  BY <1>1, <1>2 DEF CrcNext

LEMMA CrcInvAlways == CrcSpec => []CrcInv
BY CrcInvStart, CrcInvStep, PTL DEF CrcSpec

\* crc_update, with its table, computes the CRC of the generator 0x1021 for a
\* message of any length.
THEOREM CodeIsCrc == CrcSpec => []SameRemainder
<1>1. CrcInv => SameRemainder
  BY DEF CrcInv, SameRemainder
<1> QED
  BY <1>1, CrcInvAlways, PTL

\* Whatever was sent, a receiver that goes on over the check bytes ends at the
\* residue.
THEOREM ReceiverEndsAtResidue == CrcSpec => []Residue
<1>1. CrcInv => Residue
  <2> SUFFICES ASSUME CrcInv PROVE Residue
    OBVIOUS
  <2>1. CheckBytes(crc)[1] = (0 .. 7) \ High(crc) /\ CheckBytes(crc)[2] = (0 .. 7) \ Low(crc)
    BY DEF CheckBytes
  <2> QED
    BY <2>1, CheckBytesLead DEF Residue, CrcInv, FixedResidue
<1> QED
  BY <1>1, CrcInvAlways, PTL

-----------------------------------------------------------------------------
\* Nothing is lost in the register: each shift can be undone.
LEMMA ShiftOnceInjective ==
  ASSUME NEW x \in Words, NEW y \in Words, ShiftOnce(x) = ShiftOnce(y)
  PROVE  x = y
<1>1. 0 \in ShiftOnce(x) <=> 15 \in x
  BY DEF ShiftOnce, SymDiff, Generator
<1>2. 0 \in ShiftOnce(y) <=> 15 \in y
  BY DEF ShiftOnce, SymDiff, Generator
<1>3. 15 \in x <=> 15 \in y
  BY <1>1, <1>2
<1>4. {k \in 1 .. 15 : k - 1 \in x} = {k \in 1 .. 15 : k - 1 \in y}
  BY <1>3 DEF ShiftOnce, SymDiff
<1>5. ASSUME NEW k \in 0 .. 14
      PROVE  k \in x <=> k \in y
  <2>1. k + 1 \in 1 .. 15 /\ (k + 1) - 1 = k
    OBVIOUS
  <2> QED
    BY <1>4, <2>1
<1>6. \A k \in 0 .. 15 : k \in 0 .. 14 \/ k = 15
  OBVIOUS
<1>7. \A k \in 0 .. 15 : k \in x <=> k \in y
  BY <1>3, <1>5, <1>6
<1> QED
  BY <1>7 DEF Words

LEMMA ShiftByteInjective ==
  ASSUME NEW x \in Words, NEW y \in Words, ShiftByte(x) = ShiftByte(y)
  PROVE  x = y
<1>1. \A u, v \in Words : ShiftTwice(u) = ShiftTwice(v) => u = v
  BY ShiftOnceInjective, ShiftOnceWord DEF ShiftTwice
<1>2. \A u \in Words : ShiftTwice(u) \in Words
  BY ShiftOnceWord DEF ShiftTwice
<1> QED
  BY <1>1, <1>2 DEF ShiftByte

LEMMA SameUntilEqual ==
  ASSUME NEW x, NEW y, SymDiff(x, y) = {}
  PROVE  x = y
BY DEF SymDiff

LEMMA OctetsAreWords == Octets \subseteq Words
BY DEF Octets, Words

\* Two pairs of octets that lead a word to the same place are the same pair.
LEMMA PairDecided ==
  ASSUME NEW r \in Words,
         NEW c1 \in Octets, NEW c2 \in Octets, NEW d1 \in Octets, NEW d2 \in Octets,
         Shift(Shift(r, d1), d2) = Shift(Shift(r, c1), c2)
  PROVE  d1 = c1 /\ d2 = c2
<1> DEFINE e1 == SymDiff(d1, c1)
           e2 == SymDiff(d2, c2)
<1>1. e1 \in Octets /\ e2 \in Octets
  BY DEF SymDiff, Octets
<1>2. \A a \in Octets : /\ Raised(a) \in Words /\ ShiftByte(Raised(a)) \in Words
                        /\ Shift(r, a) = SymDiff(ShiftByte(r), ShiftByte(Raised(a)))
                        /\ Shift(r, a) \in Words
  BY RaisedWord, ShiftByteWord, ShiftByteLinear, SymDiffWord DEF Shift
<1>3. SymDiff(Shift(r, d1), Raised(d2)) = SymDiff(Shift(r, c1), Raised(c2))
  BY <1>2, SymDiffWord, ShiftByteInjective DEF Shift
<1>4. SymDiff(Shift(r, d1), Shift(r, c1)) = SymDiff(Raised(d2), Raised(c2))
  BY <1>3 DEF SymDiff
<1>5. SymDiff(Shift(r, d1), Shift(r, c1)) = SymDiff(ShiftByte(Raised(d1)), ShiftByte(Raised(c1)))
  BY <1>2 DEF SymDiff
<1>6. \A a, b \in Octets : SymDiff(Raised(a), Raised(b)) = Raised(SymDiff(a, b))
  BY DEF SymDiff, Raised
<1>7. SymDiff(ShiftByte(Raised(d1)), ShiftByte(Raised(c1))) = ShiftByte(Raised(e1))
  BY <1>2, <1>6, ShiftByteLinear
<1>8. ShiftByte(e2) = Raised(e2)
  BY <1>1, LowByteLeaves
<1>9. ShiftByte(Raised(e1)) = ShiftByte(e2)
  BY <1>4, <1>5, <1>6, <1>7, <1>8
<1>10. Raised(e1) = e2
  BY <1>1, <1>9, ShiftByteInjective, OctetsAreWords, RaisedWord
<1> HIDE DEF e1, e2
<1>11. e2 = {}
  BY <1>1, <1>10 DEF Raised, Octets
<1>12. \A k \in e1 : k \in 0 .. 7 /\ k + 8 \in Raised(e1)
  BY <1>1 DEF Raised, Octets
<1>13. e1 = {}
  BY <1>10, <1>11, <1>12
<1> QED
  BY <1>11, <1>13, SameUntilEqual DEF e1, e2

\* A receiver that has taken what was sent ends at the residue with the check
\* bytes that PacketizeSegment appends and with no others.
THEOREM CheckBytesDecide ==
  ASSUME NEW r \in Words, NEW d1 \in Octets, NEW d2 \in Octets
  PROVE  Shift(Shift(r, d1), d2) = FixedResidue <=> <<d1, d2>> = CheckBytes(r)
<1> DEFINE c1 == (0 .. 7) \ High(r)
           c2 == (0 .. 7) \ Low(r)
<1>1. c1 \in Octets /\ c2 \in Octets
  BY DEF Octets
<1>2. Shift(Shift(r, c1), c2) = FixedResidue
  BY CheckBytesLead
<1>3. CheckBytes(r) = <<c1, c2>>
  BY DEF CheckBytes
<1> HIDE DEF c1, c2
<1>4. Shift(Shift(r, d1), d2) = FixedResidue => d1 = c1 /\ d2 = c2
  BY <1>1, <1>2, PairDecided
<1> QED
  BY <1>2, <1>3, <1>4
=============================================================================
