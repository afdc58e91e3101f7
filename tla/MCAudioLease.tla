---------------------------- MODULE MCAudioLease ----------------------------
EXTENDS AudioLease, TLC
CONSTANTS s1, s2
MCSymmetry == Permutations(Sockets)
=============================================================================
