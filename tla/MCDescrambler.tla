---------------------------- MODULE MCDescrambler ----------------------------
(* Descrambler for TLC.                                                       *)
EXTENDS Descrambler

CONSTANTS d1, d2, p1, t1, t2
=============================================================================
