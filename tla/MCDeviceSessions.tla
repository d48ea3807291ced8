-------------------------- MODULE MCDeviceSessions --------------------------
(* Small instances of DeviceSessions. *)
EXTENDS DeviceSessions, TLC

CONSTANTS s1, s2, r1, r2

Interchangeable == Permutations({s1, s2}) \cup Permutations({r1, r2})

MCLifetimes == {1}
=============================================================================
