-------------------------- MODULE MCProviderState --------------------------
EXTENDS ProviderState, TLC
CONSTANTS n1, r1, r2, t1, t2
=============================================================================
