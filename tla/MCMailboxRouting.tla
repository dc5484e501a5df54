------------------------- MODULE MCMailboxRouting -------------------------
(* Model checking instances of MailboxRouting; the .cfg files give the constants. *)
EXTENDS MailboxRouting, TLC

Symmetry == Permutations(Messages)
=============================================================================
