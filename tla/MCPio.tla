------------------------------- MODULE MCPio -------------------------------
(* An instance of Pio for TLC. *)
EXTENDS Pio

MCAnswers == {<<16, 228, 255, 0>>, <<255, 16, 6, 228>>, <<0, 131, 131, 1>>}
=============================================================================
