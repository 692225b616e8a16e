------------------------- MODULE MCVerificationEmail -------------------------
(* Small instances of VerificationEmail for TLC. *)
EXTENDS VerificationEmail, TLC

Interchangeable == Permutations(Worker) \cup Permutations(Code)
=============================================================================
