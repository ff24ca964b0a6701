---------------------------- MODULE MCLeafCapacity ----------------------------
\* LeafCapacity at a small word width; the constants are given in the cfgs.
EXTENDS LeafCapacity
=============================================================================
