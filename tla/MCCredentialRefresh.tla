------------------------ MODULE MCCredentialRefresh ------------------------
(* Small instances of CredentialRefresh. *)
EXTENDS CredentialRefresh

CONSTANTS f1, f2, p1

MCHostOf == [f \in Folder |-> p1]
=============================================================================
