--------------------------- MODULE MCConfiguration ---------------------------
(***************************************************************************)
(* Configuration for TLC: the names of networks are interchangeable.       *)
(***************************************************************************)
EXTENDS Configuration, TLC

SsidSymmetry == Permutations(Ssids)
=============================================================================
