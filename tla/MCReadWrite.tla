---------------------------- MODULE MCReadWrite ----------------------------
EXTENDS ReadWrite, TLC

Symmetry == Permutations(Readers)
=============================================================================
