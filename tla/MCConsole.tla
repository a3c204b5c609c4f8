----------------------------- MODULE MCConsole -----------------------------
\* Instance of Console for TLC: two tabs, which are symmetric, one target and room
\* for another.
EXTENDS Console, TLC

CONSTANTS t1, t2, i1, i2, u, v

MCSymmetry == Permutations(Tabs)
=============================================================================
