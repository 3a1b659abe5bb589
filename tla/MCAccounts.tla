---------------------------- MODULE MCAccounts ----------------------------
(* Accounts with interchangeable requests.                               *)
EXTENDS Accounts, TLC

Symmetry == Permutations(Requests)
=============================================================================
