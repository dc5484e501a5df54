----------------------------- MODULE MCMailStore -----------------------------
(* MailStore for TLC: the life of one message among all its competitors.    *)
EXTENDS MailStore
=============================================================================
