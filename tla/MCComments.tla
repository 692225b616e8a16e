----------------------------- MODULE MCComments -----------------------------
EXTENDS Comments, TLC

Interchangeable == Permutations(Tx) \cup Permutations(User \ {Owner})
=============================================================================
