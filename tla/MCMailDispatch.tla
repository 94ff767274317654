--------------------------- MODULE MCMailDispatch ---------------------------
(* MailDispatch for TLC. *)
EXTENDS MailDispatch, TLC
=============================================================================
