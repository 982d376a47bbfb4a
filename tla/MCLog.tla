------------------------------- MODULE MCLog -------------------------------
EXTENDS Log, TLC

Symmetry == Permutations(Op) \cup Permutations(Block) \cup Permutations(Val)
=============================================================================
