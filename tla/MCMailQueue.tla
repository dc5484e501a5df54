---------------------------- MODULE MCMailQueue ----------------------------
(* MailQueue for TLC: two sessions, two workers, budgets that both sessions *)
(* together can exhaust in slots and in bytes.                              *)
EXTENDS MailQueue
=============================================================================
