--------------------------- MODULE MCRecordStreams ---------------------------
(* RecordStreams for TLC.                                                     *)
EXTENDS RecordStreams

CONSTANTS p1, p2, t1
=============================================================================
