----------------------------- MODULE MCSignOn -----------------------------
(* SignOn with interchangeable requests.                                 *)
EXTENDS SignOn, TLC

Symmetry == Permutations(Workers)
=============================================================================
