------------------------------ MODULE MCViews ------------------------------
EXTENDS Views, TLC

CONSTANTS k1, k2, r1, r2

Symmetry == Permutations({r1, r2})
=============================================================================
