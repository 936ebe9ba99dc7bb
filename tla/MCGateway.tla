----------------------------- MODULE MCGateway -----------------------------
(***************************************************************************)
(* Instances of Gateway for TLC.  The scale: blocks of 2 bytes (512 in the *)
(* code), payloads of 3 (991), a segment buffer of 8 (2^16), so that a     *)
(* packet is no whole number of blocks and a segment takes several.        *)
(***************************************************************************)
EXTENDS Gateway, TLC

\* Segment 1 takes two packets and three blocks; segment 2 has no .nabu, and a
\* .pak of one full block (hence two DATA datagrams) for its first packet only;
\* segment 3 is one short block.
MCStored ==
  Nabu(1) :> 5 @@ Pak([seg |-> 2, pkt |-> 0]) :> 2 @@ Nabu(3) :> 1

\* A segment that fills SegmentBuffer.
MCFilling == Nabu(1) :> 8

\* With a buffer of 2: a segment that fills it, in two blocks (the second
\* empty), beside a .pak; and a segment of one byte.
MCSmall == Nabu(1) :> 2 @@ Pak([seg |-> 1, pkt |-> 0]) :> 1 @@ Nabu(2) :> 1

\* Two segments.
MCTwo == Nabu(1) :> 1 @@ Nabu(2) :> 1
=============================================================================
