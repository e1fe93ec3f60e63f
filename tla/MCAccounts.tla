------------------------------ MODULE MCAccounts ------------------------------
(* Instances of Accounts for TLC. *)
EXTENDS Accounts, TLC

Interchangeable == Permutations(Requests) \cup Permutations(Tokens)
=============================================================================
