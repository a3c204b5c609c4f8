-------------------------- MODULE MCCallbackIntake --------------------------
\* Instances of CallbackIntake for TLC: two keys, two tokens, two saves, each
\* pair symmetric.
EXTENDS CallbackIntake, TLC

CONSTANTS s1, s2, k1, k2, t1, t2

MCSymmetry == Permutations(Saves) \cup Permutations(Keys) \cup Permutations(Tokens)
=============================================================================
