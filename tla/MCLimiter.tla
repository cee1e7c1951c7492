----------------------------- MODULE MCLimiter -----------------------------
EXTENDS Limiter, TLC

Symmetry == Permutations(Workers) \cup Permutations(Keys) \cup Permutations(Values)
=============================================================================
