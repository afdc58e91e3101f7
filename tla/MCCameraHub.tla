---------------------------- MODULE MCCameraHub ----------------------------
EXTENDS CameraHub, TLC
CONSTANTS v1, v2
=============================================================================
