----------------------------- MODULE MCMailSync -----------------------------
(* Small instances of MailSync. *)
EXTENDS MailSync

CONSTANTS r1, r2, p1

MCHostOf == [r \in Run |-> p1]
=============================================================================
