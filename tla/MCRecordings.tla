---------------------------- MODULE MCRecordings ----------------------------
EXTENDS Recordings, TLC
CONSTANTS c1, c2, k1, k2
=============================================================================
