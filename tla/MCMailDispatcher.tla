-------------------------- MODULE MCMailDispatcher --------------------------
(* Instances of MailDispatcher for TLC. *)
EXTENDS MailDispatcher
=============================================================================
