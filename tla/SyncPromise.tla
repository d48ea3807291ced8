------------------------------ MODULE SyncPromise ------------------------------
(***************************************************************************)
(* What synchronisation promises about the rows of one folder, without     *)
(* runs, leases, pages or failures: the rows of some messages become what  *)
(* the folder was at one moment, never an earlier one than before; every   *)
(* row that changes makes one version, and with it one event; and what the *)
(* provider will not send again is in the rows.                            *)
(***************************************************************************)
EXTENDS Integers

CONSTANTS
  Msg,
  MaxChange   \* bound: changes of the folder

VARIABLES
  head, folder,               \* the folder's changes, and what each of them led to
  content, member, version,   \* the rows of the messages
  latest,                     \* the last moment they were taken from
  reached                     \* the provider will only send what changed after this

rows == <<content, member, version, latest>>
vars == <<head, folder, rows, reached>>

Init ==
  /\ head = 0
  /\ folder = [n \in 0 .. MaxChange |-> [m \in Msg |-> [change |-> 0, present |-> FALSE]]]
  /\ content = [m \in Msg |-> 0]
  /\ member = [m \in Msg |-> FALSE]
  /\ version = [m \in Msg |-> 0]
  /\ latest = 0
  /\ reached = 0

\* A message arrives, is edited or moves away.
Change(m, here) ==
  /\ head < MaxChange
  /\ here \/ folder[head][m].present
  /\ head' = head + 1
  /\ folder' = [folder EXCEPT ![head + 1] =
                 [folder[head] EXCEPT ![m] = [change |-> head + 1, present |-> here]]]
  /\ UNCHANGED <<rows, reached>>

\* Whether the rows of a message show an entry of the folder.
Show(m, entry) ==
  IF entry.present THEN member[m] /\ content[m] = entry.change ELSE ~member[m]

\* The rows of some messages become what the folder was at a moment.
Refresh(some, at) ==
  /\ at \in latest .. head
  /\ latest' = at
  /\ content' = [m \in Msg |-> IF m \in some /\ folder[at][m].present
                                 THEN folder[at][m].change ELSE content[m]]
  /\ member' = [m \in Msg |-> IF m \in some THEN folder[at][m].present ELSE member[m]]
  /\ version' = [m \in Msg |-> IF content'[m] # content[m] \/ member'[m] # member[m]
                                 THEN version[m] + 1 ELSE version[m]]
  /\ reached' \in 0 .. at
  /\ \A m \in Msg : \E n \in reached' .. head : Show(m, folder[n][m])'
  /\ UNCHANGED <<head, folder>>

Next ==
  \/ \E m \in Msg, here \in BOOLEAN : Change(m, here)
  \/ \E some \in SUBSET Msg, at \in 0 .. head : Refresh(some, at)

Spec == Init /\ [][Next]_vars
=============================================================================
