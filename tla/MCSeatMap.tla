----------------------------- MODULE MCSeatMap -----------------------------
EXTENDS SeatMap

CONSTANTS u1, u2, b1, s1, o1
=============================================================================
