----------------------------- MODULE SegmentLoad -----------------------------
(***************************************************************************)
(* The NABU loading a whole segment: it asks for packets 0, 1, 2, ... (as  *)
(* the packet numbers of packetRequest and PacketizeSegment have it) until *)
(* one is marked as the end of the segment, asking again for a packet      *)
(* whose answer it missed.  The gateway's side is PacketizeSegment, on a   *)
(* segment of any size that fits SegmentWritePtr.                          *)
(***************************************************************************)
EXTENDS Packetizer

CONSTANT Sizes       \* the segment sizes considered
ASSUME SizesInRange == Sizes \subseteq 1 .. MAXSEGMENTSIZE - 1

VARIABLES
  size,      \* SegmentWritePtr
  num,       \* the packet the NABU asks for next
  loaded,    \* how many bytes of the segment it has
  complete   \* it has seen the end mark

load_vars == <<size, num, loaded, complete>>

LoadStart == size \in Sizes /\ num = 0 /\ loaded = 0 /\ complete = FALSE

\* With one segment loaded, the NABU goes on to another.
NextSegment ==
  /\ complete
  /\ size' \in Sizes /\ num' = 0 /\ loaded' = 0 /\ complete' = FALSE

\* The answer reaches the NABU, whose handshake PacketizeSegment waited for.
\* An empty packet is never sent: the code returns without a word.
Deliver ==
  /\ ~complete /\ Remaining(num, size) # 0
  /\ num' = num + 1
  /\ loaded' = loaded + PayloadSize(num, size)
  /\ complete' = EndMark(PacketType(num, LastPacket(num, size)))
  /\ UNCHANGED size

LoadNext == Deliver \/ NextSegment
LoadSpec == LoadStart /\ [][LoadNext]_load_vars /\ WF_load_vars(Deliver)

-----------------------------------------------------------------------------
\* Type invariant.
LoadTypeOK ==
  /\ size \in Sizes /\ num \in Nat /\ loaded \in Nat /\ complete \in BOOLEAN

\* The packets fit together: the next one starts in the buffer where those the
\* NABU has already end, and its offset needs no more than its 16 bits; while
\* the load goes on there is a byte left to send, so that it is never met with
\* PacketizeSegment's silence for an empty packet.
Contiguous ==
  ~complete =>
    /\ PacketOffset(num) = loaded
    /\ num * MAXPAYLOAD = loaded
    /\ Remaining(num, size) # 0

\* The end mark comes with the last byte, and only with it.
EndIsEnd == complete <=> loaded = size

\* A load that has begun ends.
LoadCompletes == ~complete ~> complete
=============================================================================
