----------------------------- MODULE MCAccounts -----------------------------
(***************************************************************************)
(* Accounts for TLC: two accounts, one of them an administrator, and two   *)
(* requests at a time.                                                      *)
(***************************************************************************)
EXTENDS Accounts

Interchangeable == Permutations(Tx) \cup Permutations(Name \ {AdminName})

=============================================================================
