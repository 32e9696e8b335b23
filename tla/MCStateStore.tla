---------------------------- MODULE MCStateStore ----------------------------
EXTENDS StateStore, TLC
CONSTANTS s0, s1, s2, b1, b2
MCSize == (b1 :> 1) @@ (b2 :> 2)
=============================================================================
