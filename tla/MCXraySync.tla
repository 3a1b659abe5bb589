---------------------------- MODULE MCXraySync ----------------------------
(* XraySync with interchangeable goroutines.                             *)
EXTENDS XraySync, TLC

Symmetry == Permutations(Jobs)
=============================================================================
