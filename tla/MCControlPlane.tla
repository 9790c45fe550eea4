--------------------------- MODULE MCControlPlane ---------------------------
EXTENDS ControlPlane, TLC

CONSTANTS r1, s1, k1

MCRequests == {r1}
MCSessions == {s1}
MCCalls == {k1}
MCEvents == {r1, s1, k1}
=============================================================================
