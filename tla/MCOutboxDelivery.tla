-------------------------- MODULE MCOutboxDelivery --------------------------
(* Small instances of OutboxDelivery. *)
EXTENDS OutboxDelivery

CONSTANTS j1, j2, p1

MCHostOf == [j \in Job |-> p1]
=============================================================================
