---------------------------- MODULE MCNodeLinks ----------------------------
(* The instance of NodeLinks that TLC checks. *)
EXTENDS NodeLinks
=============================================================================
