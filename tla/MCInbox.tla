------------------------------- MODULE MCInbox ------------------------------
(* The instance of Inbox for TLC; inbox.cfg gives the values.              *)
EXTENDS Inbox
=============================================================================
