--------------------------- MODULE MCBlinkSession ---------------------------
EXTENDS BlinkSession, TLC
CONSTANTS c1, c2
MCSymmetry == Permutations(Callers)
=============================================================================
