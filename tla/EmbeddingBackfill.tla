-------------------------- MODULE EmbeddingBackfill --------------------------
(***************************************************************************)
(* The resumable embedding backfill of one tenant and model.               *)
(*                                                                         *)
(* A run walks the tenant's messages in the order of their ids, a batch at *)
(* a time: it asks the provider for the vectors of a batch, writes them    *)
(* one by one into the messages' documents and then commits the id it has  *)
(* reached, with its counters, to the progress row.  Nothing keeps a second*)
(* run out: the row has no lease.  A run works on the row as its session   *)
(* loaded it and a commit writes the columns it changed, whatever another  *)
(* run has made of them.  Mail sync and the outbox go on meanwhile.        *)
(***************************************************************************)
EXTENDS Integers, FiniteSets

CONSTANTS
  Run,          \* executions of backfill_tenant_embeddings_job
  MaxId,        \* bound: message ids, in their order
  BatchSize,
  Old,          \* the messages that are there, and indexed, when it begins
  MaxVersion,   \* bound: versions of a message
  MaxTouched,   \* bound: messages mail sync writes meanwhile
  MaxFaults     \* bound: dead runs, transient errors and cancellations

ASSUME BackfillBounds ==
  /\ MaxId \in Nat
  /\ BatchSize \in Nat \ {0}
  /\ Old \subseteq 1 .. MaxId
  /\ MaxVersion \in Nat \ {0}
  /\ MaxTouched \in Nat
  /\ MaxFaults \in Nat

Id == 1 .. MaxId

VARIABLES
  (* mail_messages and their documents *)
  version,    \* MailMessage.version; 0 before the message exists
  present,    \* the message exists and is not deleted
  doc,        \* the message version in the document, 0 for none, and its vector's
  (* embedding_backfill_progress *)
  row,
  (* locals of the runs *)
  pc,
  obj,        \* the progress object of the run's session
  base,       \* the same, as last loaded or flushed
  cursor,
  todo,       \* the ids of the batch whose vectors are still to be written
  read,       \* the versions the batch was loaded with
  last,       \* batch[-1].id
  (* history *)
  touched,    \* messages mail sync has written: they have outbox events of their own
  tried,      \* messages whose embedding a run has attempted
  overlapped, \* two runs have been under way at once
  faults

messages == <<version, present, touched>>
locals   == <<pc, obj, base, cursor, todo, read, last>>
vars     == <<messages, doc, row, locals, tried, overlapped, faults>>

Status == {"PENDING", "IN_PROGRESS", "COMPLETED", "FAILED", "CANCELLED"}
\* done stands for total_embedded and total_skipped, which are counted alike.
Progress == [status : Status, cursor : 0 .. MaxId, processed : Nat, done : Nat, failed : Nat]
Fresh == [status |-> "PENDING", cursor |-> 0, processed |-> 0, done |-> 0, failed |-> 0]
Absent == [Fresh EXCEPT !.status = "absent"]

MessageType ==
  /\ version \in [Id -> 0 .. MaxVersion]
  /\ present \in [Id -> BOOLEAN]
  /\ touched \subseteq Id

RunType ==
  /\ pc \in [Run -> {"idle", "create", "begin", "fetch", "embed", "write", "refresh",
                     "finish", "fail"}]
  /\ obj \in [Run -> Progress]
  /\ base \in [Run -> Progress]
  /\ cursor \in [Run -> 0 .. MaxId]
  /\ todo \in [Run -> SUBSET Id]
  /\ read \in [Run -> [Id -> 0 .. MaxVersion]]
  /\ last \in [Run -> 0 .. MaxId]

TypeOK ==
  /\ MessageType
  /\ doc \in [Id -> [src : 0 .. MaxVersion, emb : 0 .. MaxVersion]]
  /\ row \in Progress \cup {Absent}
  /\ RunType
  /\ tried \subseteq Id
  /\ overlapped \in BOOLEAN
  /\ faults \in 0 .. MaxFaults

NoVersions == [m \in Id |-> 0]

\* The old messages are there and indexed, and none has a vector.
Init ==
  /\ version = [m \in Id |-> IF m \in Old THEN 1 ELSE 0]
  /\ present = [m \in Id |-> m \in Old]
  /\ doc = [m \in Id |-> [src |-> version[m], emb |-> 0]]
  /\ touched = {}
  /\ row = Absent
  /\ pc = [r \in Run |-> "idle"]
  /\ obj = [r \in Run |-> Fresh]
  /\ base = [r \in Run |-> Fresh]
  /\ cursor = [r \in Run |-> 0]
  /\ todo = [r \in Run |-> {}]
  /\ read = [r \in Run |-> NoVersions]
  /\ last = [r \in Run |-> 0]
  /\ tried = {}
  /\ overlapped = FALSE
  /\ faults = 0

Fault == faults < MaxFaults /\ faults' = faults + 1
Goto(r, step) == pc' = [pc EXCEPT ![r] = step]

-----------------------------------------------------------------------------
(* What goes on beside the backfill. *)

\* A page writes the message (or its deletion) and an event for it.
MessageChanges(m) ==
  /\ version[m] < MaxVersion
  /\ Cardinality(touched \cup {m}) <= MaxTouched
  /\ version' = [version EXCEPT ![m] = @ + 1]
  /\ \E there \in BOOLEAN : present' = [present EXCEPT ![m] = there]
  /\ touched' = touched \cup {m}
  /\ UNCHANGED <<doc, row, locals, tried, overlapped, faults>>

\* The outbox PUTs the message as it is, without a vector.  Which PUTs the index refuses,
\* and so when this does not happen, is OutboxDelivery's matter.
Indexed(m) ==
  /\ version[m] > doc[m].src
  /\ doc' = [doc EXCEPT ![m] = [src |-> version[m], emb |-> 0]]
  /\ UNCHANGED <<messages, row, locals, tried, overlapped, faults>>

\* An operator sets CANCELLED: the code reads that status and never writes it.
Cancelled ==
  /\ row.status \in {"PENDING", "IN_PROGRESS", "FAILED"}
  /\ Fault
  /\ row' = [row EXCEPT !.status = "CANCELLED"]
  /\ UNCHANGED <<messages, doc, locals, tried, overlapped>>

-----------------------------------------------------------------------------
(* A run. *)

\* commit(): the columns that differ from what the session has loaded are written.
Flush(r, new) == row' = [f \in DOMAIN row |-> IF new[f] # base[r][f] THEN new[f] ELSE row[f]]

Commit(r, new) ==
  /\ Flush(r, new)
  /\ obj' = [obj EXCEPT ![r] = new]
  /\ base' = [base EXCEPT ![r] = new]

\* The job returns or raises, and its session is closed.
Leave(r) ==
  /\ Goto(r, "idle")
  /\ obj' = [obj EXCEPT ![r] = Fresh]
  /\ base' = [base EXCEPT ![r] = Fresh]
  /\ cursor' = [cursor EXCEPT ![r] = 0]
  /\ todo' = [todo EXCEPT ![r] = {}]
  /\ read' = [read EXCEPT ![r] = NoVersions]
  /\ last' = [last EXCEPT ![r] = 0]

Load(r) ==
  /\ obj' = [obj EXCEPT ![r] = row]
  /\ base' = [base EXCEPT ![r] = row]

\* _get_or_create_progress: the row is selected; a run that finds it COMPLETED or
\* CANCELLED returns at once.
Start(r) ==
  /\ pc[r] = "idle"
  /\ overlapped' = (overlapped \/ \E s \in Run \ {r} : pc[s] # "idle")
  /\ \/ /\ row.status = "absent"
        /\ Goto(r, "create")
        /\ UNCHANGED <<obj, base>>
     \/ /\ row.status \in {"PENDING", "IN_PROGRESS", "FAILED"}
        /\ Goto(r, "begin")
        /\ Load(r)
  /\ UNCHANGED <<messages, doc, row, cursor, todo, read, last, tried, faults>>

\* The row is inserted; the second of two inserts violates uq_ebp_tenant_model and
\* ends its run.
Create(r) ==
  /\ pc[r] = "create"
  /\ \/ /\ row.status = "absent"
        /\ row' = Fresh
        /\ obj' = [obj EXCEPT ![r] = Fresh]
        /\ base' = [base EXCEPT ![r] = Fresh]
        /\ Goto(r, "begin")
        /\ UNCHANGED <<cursor, todo, read, last>>
     \/ /\ row.status # "absent"
        /\ Leave(r)
        /\ UNCHANGED row
  /\ UNCHANGED <<messages, doc, tried, overlapped, faults>>

Begin(r) ==
  /\ pc[r] = "begin"
  /\ Commit(r, [obj[r] EXCEPT !.status = "IN_PROGRESS"])
  /\ cursor' = [cursor EXCEPT ![r] = obj[r].cursor]
  /\ Goto(r, "fetch")
  /\ UNCHANGED <<messages, doc, todo, read, last, tried, overlapped, faults>>

\* Mutant: the keyset skips one id.
AheadOfNext(r) == {m \in Id : present[m] /\ m > cursor[r] + 1}

\* What the query of _fetch_batch selects, but for its limit.
Ahead(r) == {m \in Id : present[m] /\ m > cursor[r]}

\* _fetch_batch: the first batch_size messages beyond the cursor.
Fetch(r) ==
  /\ pc[r] = "fetch"
  /\ \/ /\ Ahead(r) = {}
        /\ Goto(r, "finish")
        /\ UNCHANGED <<todo, read, last>>
     \/ \E batch \in SUBSET Ahead(r) :
          /\ \A m \in batch, n \in Ahead(r) \ batch : m < n
          /\ \/ Cardinality(batch) = BatchSize
             \/ Cardinality(batch) < BatchSize /\ batch = Ahead(r) /\ batch # {}
          /\ todo' = [todo EXCEPT ![r] = batch]
          /\ \E m \in batch : /\ \A n \in batch : n <= m
                              /\ last' = [last EXCEPT ![r] = m]
          /\ read' = [read EXCEPT ![r] = [m \in Id |-> IF m \in batch THEN version[m] ELSE 0]]
          /\ Goto(r, "embed")
  /\ UNCHANGED <<messages, doc, row, obj, base, cursor, tried, overlapped, faults>>

\* n messages with one outcome, "done" or "failed".
Count(p, n, outcome) == [[p EXCEPT !.processed = @ + n] EXCEPT ![outcome] = @ + n]

\* The provider answers with vectors, or refuses the batch for good: its messages are
\* counted as failed and the run goes on.
Embed(r) ==
  /\ pc[r] = "embed"
  /\ Goto(r, "write")
  /\ \/ UNCHANGED <<obj, todo, tried>>
     \/ /\ obj' = [obj EXCEPT ![r] = Count(@, Cardinality(todo[r]), "failed")]
        /\ tried' = tried \cup todo[r]
        /\ todo' = [todo EXCEPT ![r] = {}]
  /\ UNCHANGED <<messages, doc, row, base, cursor, read, last, overlapped, faults>>

\* Mutant: the batch is counted before its vectors are there.
EmbedFailsCounted(r) ==
  /\ pc[r] = "embed"
  /\ Fault
  /\ obj' = [obj EXCEPT ![r] = Count(@, Cardinality(todo[r]), "failed")]
  /\ tried' = tried \cup todo[r]
  /\ Goto(r, "fail")
  /\ UNCHANGED <<messages, doc, row, base, cursor, todo, read, last, overlapped>>

\* A transient error of the provider.
EmbedFails(r) ==
  /\ pc[r] = "embed"
  /\ Fault
  /\ Goto(r, "fail")
  /\ UNCHANGED <<messages, doc, row, obj, base, cursor, todo, read, last, tried, overlapped>>

\* Mutant: the script does not look at the document's version.
WriteVectorUnguarded(d, v) ==
  [d EXCEPT !.emb = v]

\* update_embeddings' script, for a document that exists.
WriteVector(d, v) ==
  IF d.src > v THEN d ELSE [d EXCEPT !.emb = v]

\* One message of the batch.  A missing document and a conflict are skipped; an _update
\* that failed, though perhaps only its answer is lost, and a vector missing from the
\* provider's answer are failed.
Write(r) ==
  /\ pc[r] = "write"
  /\ \E m \in todo[r] :
       /\ \A n \in todo[r] : m <= n
       /\ \E outcome \in {"done", "failed"}, written \in BOOLEAN :
            /\ written => doc[m].src > 0
            /\ doc' = IF written THEN [doc EXCEPT ![m] = WriteVector(@, read[r][m])] ELSE doc
            /\ obj' = [obj EXCEPT ![r] = Count(@, 1, outcome)]
       /\ tried' = tried \cup {m}
       /\ todo' = [todo EXCEPT ![r] = @ \ {m}]
  /\ UNCHANGED <<messages, row, pc, base, cursor, read, last, overlapped, faults>>

\* Mutant: the checkpoint is made as soon as the batch is fetched.
CheckpointEarly(r) ==
  /\ pc[r] \in {"embed", "write"}
  /\ cursor' = [cursor EXCEPT ![r] = last[r]]
  /\ Commit(r, [obj[r] EXCEPT !.cursor = last[r]])
  /\ pc' = [pc EXCEPT ![r] = IF todo[r] = {} THEN "refresh" ELSE @]
  /\ UNCHANGED <<messages, doc, todo, read, last, tried, overlapped, faults>>

\* The batch is done: the cursor moves and is committed with the counters.
Checkpoint(r) ==
  /\ pc[r] = "write"
  /\ todo[r] = {}
  /\ cursor' = [cursor EXCEPT ![r] = last[r]]
  /\ Commit(r, [obj[r] EXCEPT !.cursor = last[r]])
  /\ read' = [read EXCEPT ![r] = NoVersions]
  /\ Goto(r, "refresh")
  /\ UNCHANGED <<messages, doc, todo, last, tried, overlapped, faults>>

\* The row is read again; the local cursor stays where it is.
Refresh(r) ==
  /\ pc[r] = "refresh"
  /\ \/ /\ row.status = "CANCELLED"
        /\ Leave(r)
     \/ /\ row.status # "CANCELLED"
        /\ Load(r)
        /\ Goto(r, "fetch")
        /\ UNCHANGED <<cursor, todo, read, last>>
  /\ UNCHANGED <<messages, doc, row, tried, overlapped, faults>>

Finish(r) ==
  /\ pc[r] = "finish"
  /\ Flush(r, [obj[r] EXCEPT !.status = "COMPLETED"])
  /\ Leave(r)
  /\ UNCHANGED <<messages, doc, tried, overlapped, faults>>

\* The handler of run(): what has been counted is committed with FAILED.
Fail(r) ==
  /\ pc[r] = "fail"
  /\ Flush(r, [obj[r] EXCEPT !.status = "FAILED"])
  /\ Leave(r)
  /\ UNCHANGED <<messages, doc, tried, overlapped, faults>>

\* The worker dies, ARQ cancels the job at its timeout, or a commit fails.
RunDies(r) ==
  /\ pc[r] # "idle"
  /\ Fault
  /\ Leave(r)
  /\ UNCHANGED <<messages, doc, row, tried, overlapped>>

RunStep(r) ==
  \/ Create(r) \/ Begin(r) \/ Fetch(r) \/ Embed(r) \/ Write(r) \/ Checkpoint(r)
  \/ Refresh(r) \/ Finish(r) \/ Fail(r)

Next ==
  \/ \E m \in Id : MessageChanges(m) \/ Indexed(m)
  \/ Cancelled
  \/ \E r \in Run : Start(r) \/ RunStep(r) \/ EmbedFails(r) \/ RunDies(r)

Spec == Init /\ [][Next]_vars

-----------------------------------------------------------------------------
(* Properties. *)

\* What only the backfill can embed: messages mail sync has not written since it began.
Owed == {m \in Id : present[m] /\ m \notin touched}
Covered(c) == \A m \in Owed : m <= c => m \in tried

\* The stored cursor has passed no message whose embedding was never attempted, and a
\* backfill that reads COMPLETED has left none out: a resumed run skips what lies below
\* the cursor (backfill.py:75,84), and so do two runs that overwrite each other's cursor.
CheckpointIsSound ==
  /\ Covered(row.cursor)
  /\ row.status = "COMPLETED" => Owed \subseteq tried

\* As long as runs do not overlap, no message is counted twice, however often a run dies
\* or is resumed, and the outcomes add up to what was processed (backfill.py:197-225).
NothingCountedTwice ==
  ~overlapped =>
    /\ row.processed = row.done + row.failed
    /\ row.processed <= Cardinality(tried)

\* A vector is never older than the text beside it, whatever the outbox indexes while a
\* batch waits for its vectors (es_adapter.py:177).
VectorNotOlder == \A m \in Id : doc[m].emb = 0 \/ doc[m].emb >= doc[m].src

\* The strengthening of CheckpointIsSound: each run's own cursors are sound, and what is
\* missing up to the end of its batch is still to be written.
CursorInv ==
  /\ TypeOK
  /\ CheckpointIsSound
  /\ VectorNotOlder
  /\ \A r \in Run :
       /\ Covered(obj[r].cursor)
       /\ Covered(base[r].cursor)
       /\ Covered(cursor[r])
       /\ obj[r].status = "COMPLETED" => Owed \subseteq tried
       /\ base[r].status = "COMPLETED" => Owed \subseteq tried
       /\ pc[r] \in {"embed", "write"} =>
            \A m \in Owed : m <= last[r] => m \in tried \/ m \in todo[r]
       /\ pc[r] = "finish" => Owed \subseteq tried
       /\ pc[r] \notin {"idle", "create"} => row.status # "absent"

\* The messages tried up to a cursor: what a run resumed there may have counted.
TriedUpTo(c) == {m \in tried : m <= c}
SameCounters(p, q) ==
  /\ p.cursor = q.cursor
  /\ p.processed = q.processed /\ p.done = q.done /\ p.failed = q.failed

\* The strengthening of NothingCountedTwice: a run alone works on the counters the row has,
\* and what it has counted since lies between its cursor and the end of its batch.
CountInv ==
  ~overlapped =>
    /\ row.processed = row.done + row.failed
    /\ row.processed <= Cardinality(TriedUpTo(row.cursor))
    /\ \A r, s \in Run : pc[r] # "idle" /\ pc[s] # "idle" => r = s
    /\ \A r \in Run : pc[r] \notin {"idle", "create"} =>
         /\ SameCounters(base[r], row)
         /\ obj[r].cursor = row.cursor
         /\ obj[r].processed = obj[r].done + obj[r].failed
         /\ pc[r] \in {"fetch", "embed", "write", "refresh"} => cursor[r] = row.cursor
         /\ pc[r] # "write" => obj[r].processed <= Cardinality(TriedUpTo(row.cursor))
         /\ pc[r] = "write" => obj[r].processed <= Cardinality(TriedUpTo(last[r]) \ todo[r])
         /\ pc[r] \in {"embed", "write"} =>
              cursor[r] < last[r] /\ \A m \in todo[r] : cursor[r] < m /\ m <= last[r]

BackfillInv == CursorInv /\ CountInv
=============================================================================
