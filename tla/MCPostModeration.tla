-------------------------- MODULE MCPostModeration --------------------------
EXTENDS PostModeration, TLC

Interchangeable ==
    Permutations(Post) \cup Permutations(Image) \cup Permutations(Tx) \cup Permutations(Job)

=============================================================================
