-------------------------- MODULE MCMailResultLog --------------------------
(* Instances of MailResultLog for TLC. *)
EXTENDS MailResultLog
=============================================================================
