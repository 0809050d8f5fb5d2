------------------------------ MODULE MCSession ------------------------------
\* The session with one account, one other client and two regions.
EXTENDS Session

CONSTANTS z1, z2

MCZones == {z1, z2}
=============================================================================
