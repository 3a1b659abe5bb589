------------------------------ MODULE MCXrayExt ------------------------------
(* One independent account on two inbounds, two operations at a time. *)
EXTENDS XrayExt, TLC

Symmetry == Permutations(Workers) \cup Permutations(Tags)
=============================================================================
