----------------------------- MODULE MCSkipList -----------------------------
EXTENDS SkipList, TLC

Symmetry == Permutations(Proc)
=============================================================================
