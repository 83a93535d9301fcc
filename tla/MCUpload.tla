------------------------------ MODULE MCUpload ------------------------------
EXTENDS Upload, TLC
CONSTANTS c1, c2, c3
Symmetry == Permutations(Calls)
=============================================================================
