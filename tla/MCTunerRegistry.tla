--------------------------- MODULE MCTunerRegistry ---------------------------
(* TunerRegistry for TLC: two interchangeable clients.                       *)
EXTENDS TunerRegistry, TLC

CONSTANTS c1, c2

ClientSymmetry == Permutations(Clients)
=============================================================================
