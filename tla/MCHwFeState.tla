----------------------------- MODULE MCHwFeState -----------------------------
(* HwFeState for TLC: its devices are d1 and d2 (digital) and a1 (analog).   *)
EXTENDS HwFeState

CONSTANTS d1, d2, a1
=============================================================================
