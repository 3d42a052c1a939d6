------------------------------- MODULE MCAmDmx -------------------------------
(* AmDmx for TLC: filter ids 1..FilterCount and a mask of MaskBits bits.     *)
EXTENDS AmDmx
=============================================================================
