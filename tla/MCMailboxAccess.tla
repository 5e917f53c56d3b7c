-------------------------- MODULE MCMailboxAccess --------------------------
(***************************************************************************)
(* MailboxAccess for TLC.                                                  *)
(***************************************************************************)
EXTENDS MailboxAccess
=============================================================================
