---------------------------- MODULE OutboxPromise ----------------------------
(***************************************************************************)
(* What the outbox promises about one message, without leases, jobs, ARQ   *)
(* or failures: changes of the message become events; the index holds the  *)
(* message as of some version, behind a fence that only moves forward; an  *)
(* event is done only when the fence has reached it.  The fence is not the *)
(* version held: it moves with each vector written, too, and a message     *)
(* that is behind it then does not get in.                                 *)
(***************************************************************************)
EXTENDS Naturals

CONSTANT Event   \* a prefix of the positive numbers: the versions of the message

VARIABLES
  source,   \* the message's version
  fence,    \* what is older than this the index refuses
  held,     \* the version the index holds
  vector,   \* the version its vector was made of; 0 if it has none
  outcome   \* of each event

Init ==
  /\ source = 0 /\ fence = 0 /\ held = 0 /\ vector = 0
  /\ outcome = [e \in Event |-> "absent"]

Produce ==
  /\ source + 1 \in Event
  /\ source' = source + 1
  /\ outcome' = [outcome EXCEPT ![source + 1] = "open"]
  /\ UNCHANGED <<fence, held, vector>>

\* For event e the index gets the message as of then or of later, without a vector.
Replace(e) ==
  /\ fence <= e /\ e <= source
  /\ fence' = e
  /\ held' \in e .. source
  /\ vector' = 0
  /\ UNCHANGED <<source, outcome>>

\* A vector of text that is not older than what the index holds.
Embed ==
  /\ fence > 0
  /\ fence' = fence + 1
  /\ vector' \in held .. source
  /\ UNCHANGED <<source, held, outcome>>

Deliver(e) ==
  /\ outcome[e] = "open"
  /\ fence >= e
  /\ outcome' = [outcome EXCEPT ![e] = "done"]
  /\ UNCHANGED <<source, fence, held, vector>>

Abandon(e) ==
  /\ outcome[e] = "open"
  /\ outcome' = [outcome EXCEPT ![e] = "dead"]
  /\ UNCHANGED <<source, fence, held, vector>>

Next ==
  \/ Produce
  \/ Embed
  \/ \E e \in Event : Replace(e) \/ Deliver(e) \/ Abandon(e)

Spec == Init /\ [][Next]_<<source, fence, held, vector, outcome>>
=============================================================================
