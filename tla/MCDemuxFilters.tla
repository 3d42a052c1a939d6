--------------------------- MODULE MCDemuxFilters ---------------------------
EXTENDS DemuxFilters

CONSTANTS s1, s2, r1        \* two section filters and a record filter
=============================================================================
