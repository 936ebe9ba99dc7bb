------------------------------- MODULE Packets -------------------------------
(***************************************************************************)
(* One program on both ways to the NABU: cut into .pak files by            *)
(* src/tools/packetize.c, or packetized on the fly by src/packet.c.  When  *)
(* the tool is done the NABU loads it, from the one or the other; a file   *)
(* that SegmentWritePtr cannot count is not loaded, another segment is.    *)
(***************************************************************************)
EXTENDS SegmentLoad, PacketizeTool

VARIABLES
  paks,      \* the .pak files, packet 0 first
  source     \* where the gateway finds the segment: "segment" or "paks"

packets_vars == <<load_vars, tool_vars, paks, source>>

Program(bytes, from) == IF sz \in Sizes THEN bytes = sz ELSE from = "segment"
Sources == {"segment", "paks"}

PacketsStart ==
  /\ ToolStart /\ paks = <<>>
  /\ LoadStart /\ source \in Sources /\ Program(size, source)

Cut ==
  /\ WritePak /\ paks' = Append(paks, pak')
  /\ UNCHANGED <<load_vars, source>>

FromSegment ==
  /\ i >= sz /\ source = "segment" /\ Deliver
  /\ UNCHANGED <<tool_vars, paks, source>>

\* The gateway passes on the .pak of the packet asked for (handleRequest's
\* second tftp_get), as it is.
FromPaks ==
  /\ i >= sz /\ source = "paks" /\ ~complete /\ num + 1 \in DOMAIN paks
  /\ num' = num + 1
  /\ loaded' = loaded + paks[num + 1].size
  /\ complete' = EndMark(paks[num + 1].type)
  /\ UNCHANGED <<size, tool_vars, paks, source>>

LoadAgain ==
  /\ NextSegment /\ source' \in Sources /\ Program(size', source')
  /\ UNCHANGED <<tool_vars, paks>>

PacketsNext == Cut \/ FromSegment \/ FromPaks \/ LoadAgain

PacketsSpec ==
  /\ PacketsStart /\ [][PacketsNext]_packets_vars
  /\ WF_packets_vars(Cut) /\ WF_packets_vars(FromSegment) /\ WF_packets_vars(FromPaks)

-----------------------------------------------------------------------------
\* Loading a program from .pak files is, packet by packet, loading the segment
\* they were cut from: each step that brings the NABU a .pak is PacketizeSegment's
\* for the same packet, and the load ends where that ends.  A refinement: every
\* behaviour is one of SegmentLoad, its fairness included.
SameLoad == LoadSpec
=============================================================================
