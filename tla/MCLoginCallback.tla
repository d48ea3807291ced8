---------------------------- MODULE MCLoginCallback ----------------------------
(* Callbacks of two login attempts, posted twice, by people whose emails change. *)
EXTENDS LoginCallback

CONSTANTS st1, st2, c1, c2, ann, bob, mail1, mail2, admin

MCEmailsOf == [p \in Person |-> IF p = ann THEN {mail1, mail2} ELSE {mail1, admin}]
=============================================================================
