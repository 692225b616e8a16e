----------------------------- MODULE MCCatalog ------------------------------
EXTENDS Catalog, TLC

Interchangeable == Permutations(Tx) \cup Permutations(Name)

=============================================================================
