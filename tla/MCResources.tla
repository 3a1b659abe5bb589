---------------------------- MODULE MCResources ----------------------------
(* Two requests and one download at a time; two rows of each table but one share. *)
EXTENDS Resources, TLC

MCMaxRows == [platform |-> 2, subscription |-> 2, share |-> 1, rule |-> 2]

Symmetry == Permutations(Workers)
=============================================================================
