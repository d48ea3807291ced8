-------------------------- MODULE MCRequestAdmission --------------------------
(* Requests of one session over one connection; the user's role is one of the *)
(* system's or one of the tenant's.                                           *)
EXTENDS RequestAdmission

CONSTANTS s1, q1, q2, viewer, auditor, read, contoso, fabrikam

MCSeeded == [r \in Role |-> IF r = viewer THEN {read} ELSE {}]
=============================================================================
