--------------------------- MODULE MCVersionStore ---------------------------
(* Instances of VersionStore for TLC. *)
EXTENDS VersionStore, TLC

AdminSymmetry == Permutations(Admins)
=============================================================================
