---------------------------- MODULE MCImageAccess ----------------------------
(* Small instances of ImageAccess for TLC. *)
EXTENDS ImageAccess, TLC

Interchangeable == Permutations(Worker) \cup Permutations(Job)
=============================================================================
