------------------------------ MODULE MCMotion ------------------------------
EXTENDS Motion, TLC
CONSTANTS c1
MCCameraOf == [e \in Events |-> c1]
=============================================================================
