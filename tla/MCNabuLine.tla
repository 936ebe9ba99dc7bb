---------------------------- MODULE MCNabuLine ----------------------------
(***************************************************************************)
(* An instance of NabuLine for TLC.  Packets hold 0x10 and 0xE1, beside    *)
(* each other and across a cut; parameters look like commands and acks.    *)
(***************************************************************************)
EXTENDS NabuLine

MCBodies == {<<16, 225>>, <<16, 6, 228>>, <<7>>}
MCPaks == {<<7, 16, 225>>, <<>>}
MCRequests == {<<132, 133, 16, 6>>}
MCWords == {<<133, 132>>}
=============================================================================
