---------------------------- MODULE MCWorkPool -----------------------------
EXTENDS WorkPool

CONSTANTS i1, i2, i3, i4, w1, w2, w3
=============================================================================
