---------------------- MODULE EmbeddingBackfill_proofs ----------------------
(* Proofs about EmbeddingBackfill: its invariant, and with it the soundness *)
(* of the checkpoint and of the vectors, for any number of runs, messages,  *)
(* versions and faults and any batch size.                                  *)
EXTENDS EmbeddingBackfill, FiniteSetTheorems, TLAPS

\* Count keeps a progress row one, and touches only its counters (backfill.py:183-225).
LEMMA CountIsProgress ==
  ASSUME NEW p \in Progress, NEW n \in Nat, NEW outcome \in {"done", "failed"}
  PROVE  /\ Count(p, n, outcome) \in Progress
         /\ Count(p, n, outcome).cursor = p.cursor
         /\ Count(p, n, outcome).status = p.status
  <1> DEFINE q == [p EXCEPT !.processed = @ + n]
  <1>1. q \in Progress /\ q.cursor = p.cursor /\ q.status = p.status
    BY DEF Progress
  <1> HIDE DEF q
  <1>2. CASE outcome = "done"
    <2>1. Count(p, n, outcome) = [q EXCEPT !.done = @ + n]
      BY <1>2 DEF Count, q
    <2> QED BY <1>1, <2>1 DEF Progress
  <1>3. CASE outcome = "failed"
    <2>1. Count(p, n, outcome) = [q EXCEPT !.failed = @ + n]
      BY <1>3 DEF Count, q
    <2> QED BY <1>1, <2>1 DEF Progress
  <1> QED BY <1>2, <1>3

\* A row that is not there is not one of the rows of the table.
LEMMA AbsentIsNoRow ==
  /\ Fresh \in Progress /\ Fresh.cursor = 0 /\ Fresh.status = "PENDING"
  /\ Absent.status = "absent" /\ Absent.cursor = 0
  <1>1. Fresh.cursor = 0 /\ Fresh.status = "PENDING"
    BY DEF Fresh
  <1>2. Fresh \in Progress
    BY BackfillBounds DEF Fresh, Progress, Status
  <1> QED BY <1>1, <1>2 DEF Absent, Fresh

\* The size of a batch is a number.
LEMMA BatchIsFinite ==
  ASSUME NEW s \in SUBSET Id
  PROVE  Cardinality(s) \in Nat
  <1>1. IsFiniteSet(Id)
    BY FS_Interval, BackfillBounds DEF Id
  <1>2. IsFiniteSet(s)
    BY <1>1, FS_Subset
  <1> QED BY <1>2, FS_CardinalityType

\* A commit leaves each column as it was or as the session has it (the ORM's UPDATE of
\* changed columns).
LEMMA FlushMixes ==
  ASSUME NEW r \in Run, NEW new \in Progress, TypeOK, row.status # "absent", Flush(r, new)
  PROVE  /\ row' \in Progress
         /\ row'.cursor \in {row.cursor, new.cursor}
         /\ row'.status \in {row.status, new.status}
  <1>1. row \in Progress /\ base[r] \in Progress
    BY AbsentIsNoRow DEF TypeOK, RunType
  <1>2. row' = [f \in {"status", "cursor", "processed", "done", "failed"} |->
                  IF new[f] # base[r][f] THEN new[f] ELSE row[f]]
    BY <1>1 DEF Flush, Progress
  <1>3. row' = [status |-> row'.status, cursor |-> row'.cursor, processed |-> row'.processed,
                done |-> row'.done, failed |-> row'.failed]
    BY <1>2
  <1>4. /\ row'.status \in {row.status, new.status}
        /\ row'.cursor \in {row.cursor, new.cursor}
        /\ row'.processed \in {row.processed, new.processed}
        /\ row'.done \in {row.done, new.done}
        /\ row'.failed \in {row.failed, new.failed}
    BY <1>2
  <1> QED BY <1>1, <1>3, <1>4 DEF Progress
-----------------------------------------------------------------------------
(* Each action keeps the invariant. *)

\* The cursor is right at the start.
LEMMA InvariantHoldsInitially == Init => CursorInv
  <1> SUFFICES ASSUME Init PROVE CursorInv
    OBVIOUS
  <1> USE BackfillBounds
  <1>1. Fresh \in Progress
    BY AbsentIsNoRow
  <1>2. TypeOK
    <2>1. MessageType
      BY DEF Init, MessageType, Id
    <2>2. RunType
      BY <1>1 DEF Init, RunType, Id, NoVersions
    <2>3. doc \in [Id -> [src : 0 .. MaxVersion, emb : 0 .. MaxVersion]]
      BY <2>1 DEF Init, MessageType
    <2>4. row \in Progress \cup {Absent} /\ tried \subseteq Id
      BY DEF Init
    <2>5. overlapped \in BOOLEAN
      BY DEF Init
    <2>6. faults \in 0 .. MaxFaults
      BY DEF Init
    <2> QED BY <2>1, <2>2, <2>3, <2>4, <2>5, <2>6 DEF TypeOK
  <1>3. Covered(0)
    BY DEF Covered, Owed, Id
  <1>4. row.cursor = 0 /\ row.status # "COMPLETED"
    BY DEF Init, Absent, Fresh
  <1>5. CheckpointIsSound
    BY <1>3, <1>4 DEF CheckpointIsSound
  <1>6. VectorNotOlder
    BY DEF Init, VectorNotOlder
  <1> QED BY <1>1, <1>2, <1>3, <1>5, <1>6 DEF Init, CursorInv, Fresh

\* Mail sync may only take messages off what the backfill owes.
LEMMA MessageChangesKeeps ==
  ASSUME CursorInv, NEW m \in Id, MessageChanges(m)
  PROVE  CursorInv'
  <1> USE BackfillBounds
  <1>1. TypeOK'
    <2>1. MessageType'
      BY DEF CursorInv, TypeOK, MessageType, MessageChanges
    <2> QED BY <2>1 DEF CursorInv, TypeOK, RunType, MessageChanges, locals
  <1>2. Owed' \subseteq Owed
    <2>1. touched' = touched \cup {m} /\ \A n \in Id : n # m => present'[n] = present[n]
      BY DEF MessageChanges, CursorInv, TypeOK, MessageType
    <2> QED BY <2>1 DEF Owed
  <1>3. VectorNotOlder'
    BY DEF CursorInv, VectorNotOlder, MessageChanges
  <1> QED BY <1>1, <1>2, <1>3 DEF CursorInv, CheckpointIsSound, Covered, MessageChanges, locals

\* A document that the outbox PUTs leaves the cursor right.
LEMMA IndexedKeeps ==
  ASSUME CursorInv, NEW m \in Id, Indexed(m)
  PROVE  CursorInv'
  <1>1. TypeOK'
    <2>1. [src |-> version[m], emb |-> 0] \in [src : 0 .. MaxVersion, emb : 0 .. MaxVersion]
      BY BackfillBounds DEF CursorInv, TypeOK, MessageType
    <2>2. doc' \in [Id -> [src : 0 .. MaxVersion, emb : 0 .. MaxVersion]]
      BY <2>1 DEF CursorInv, TypeOK, Indexed
    <2>3. RunType' /\ MessageType'
      BY DEF CursorInv, TypeOK, MessageType, RunType, Indexed, locals, messages
    <2> QED BY <2>2, <2>3 DEF CursorInv, TypeOK, Indexed
  <1>2. VectorNotOlder'
    BY DEF CursorInv, VectorNotOlder, Indexed, TypeOK
  <1>3. Owed' = Owed
    BY DEF Owed, Indexed, messages
  <1> QED BY <1>1, <1>2, <1>3 DEF CursorInv, CheckpointIsSound, Covered, Indexed, locals, messages

\* So does an operator who cancels the backfill.
LEMMA CancelledKeeps ==
  ASSUME CursorInv, Cancelled
  PROVE  CursorInv'
  <1>1. row \in Progress
    BY AbsentIsNoRow DEF Cancelled, CursorInv, TypeOK
  <1>2. /\ row' \in Progress
        /\ row'.cursor = row.cursor
        /\ row'.status = "CANCELLED"
    BY <1>1 DEF Cancelled, Progress, Status
  <1>3. TypeOK'
    <2>1. RunType' /\ MessageType'
      BY DEF CursorInv, TypeOK, MessageType, RunType, Cancelled, locals, messages
    <2> QED BY <1>2, <2>1, BackfillBounds DEF CursorInv, TypeOK, Cancelled, Fault
  <1>4. Owed' = Owed
    BY DEF Owed, Cancelled, messages
  <1>5. VectorNotOlder'
    BY DEF CursorInv, VectorNotOlder, Cancelled
  <1> QED BY <1>2, <1>3, <1>4, <1>5
          DEF CursorInv, CheckpointIsSound, Covered, Cancelled, locals, messages

\* So does a job that returns or raises, for the steps of a run that end with it.
LEMMA LeaveKeeps ==
  ASSUME CursorInv, NEW r \in Run, Leave(r), UNCHANGED <<messages, doc, tried>>,
         overlapped' \in BOOLEAN, faults' \in 0 .. MaxFaults,
         row' \in Progress \cup {Absent}, CheckpointIsSound',
         \A s \in Run \ {r} : pc[s] \notin {"idle", "create"} => row'.status # "absent"
  PROVE  CursorInv'
  <1> USE BackfillBounds
  <1>1. Fresh \in Progress /\ Fresh.cursor = 0 /\ Fresh.status = "PENDING"
    BY AbsentIsNoRow
  <1>2. TypeOK'
    <2>1. RunType'
      BY <1>1 DEF CursorInv, TypeOK, RunType, Leave, Goto, NoVersions, Id
    <2>2. MessageType'
      BY DEF CursorInv, TypeOK, MessageType, messages
    <2> QED BY <2>1, <2>2 DEF CursorInv, TypeOK
  <1>3. Owed' = Owed
    BY DEF Owed, messages
  <1>4. Covered(0)
    BY DEF Covered, Owed, Id
  <1>5. VectorNotOlder'
    BY DEF CursorInv, VectorNotOlder
  <1>6. ASSUME NEW s \in Run
        PROVE  /\ Covered(obj[s].cursor)'
               /\ Covered(base[s].cursor)'
               /\ Covered(cursor[s])'
               /\ (obj[s].status = "COMPLETED" => Owed \subseteq tried)'
               /\ (base[s].status = "COMPLETED" => Owed \subseteq tried)'
               /\ (pc[s] \in {"embed", "write"} =>
                    \A m \in Owed : m <= last[s] => m \in tried \/ m \in todo[s])'
               /\ (pc[s] = "finish" => Owed \subseteq tried)'
               /\ (pc[s] \notin {"idle", "create"} => row.status # "absent")'
    <2>1. CASE s = r
      BY <2>1, <1>1, <1>3, <1>4 DEF CursorInv, TypeOK, RunType, Leave, Goto, Covered
    <2>2. CASE s # r
      BY <2>2, <1>3 DEF CursorInv, TypeOK, RunType, Leave, Goto, Covered
    <2> QED BY <2>1, <2>2
  <1> QED BY <1>2, <1>5, <1>6 DEF CursorInv

\* So does the start of a run.
LEMMA StartKeeps ==
  ASSUME CursorInv, NEW r \in Run, Start(r)
  PROVE  CursorInv'
  <1>1. Owed' = Owed /\ VectorNotOlder'
    BY DEF Start, messages, Owed, CursorInv, VectorNotOlder
  <1>2. CASE row.status = "absent" /\ Goto(r, "create") /\ UNCHANGED <<obj, base>>
    <2>1. TypeOK'
      <3>1. RunType'
        BY <1>2 DEF Start, Goto, CursorInv, TypeOK, RunType
      <3>2. overlapped' \in BOOLEAN
        BY DEF Start
      <3> QED BY <3>1, <3>2 DEF Start, CursorInv, TypeOK, MessageType, messages
    <2> QED BY <2>1, <1>1, <1>2
            DEF Start, Goto, CursorInv, TypeOK, RunType, CheckpointIsSound, Covered
  <1>3. CASE /\ row.status \in {"PENDING", "IN_PROGRESS", "FAILED"}
             /\ Goto(r, "begin")
             /\ Load(r)
    <2>1. row \in Progress
      BY <1>3, AbsentIsNoRow DEF CursorInv, TypeOK
    <2>2. TypeOK'
      <3>1. RunType'
        BY <1>3, <2>1 DEF Start, Goto, Load, CursorInv, TypeOK, RunType
      <3>2. overlapped' \in BOOLEAN
        BY DEF Start
      <3> QED BY <3>1, <3>2 DEF Start, CursorInv, TypeOK, MessageType, messages
    <2>3. row' = row /\ tried' = tried
      BY DEF Start
    <2>4. CheckpointIsSound'
      BY <2>3, <1>1 DEF CursorInv, CheckpointIsSound, Covered
    <2> QED BY <2>2, <2>3, <2>4, <1>1, <1>3
            DEF Start, Goto, Load, CursorInv, TypeOK, RunType, CheckpointIsSound, Covered
  <1> QED BY <1>2, <1>3 DEF Start

\* So does the insert of the row, also the second one, which fails.
LEMMA CreateKeeps ==
  ASSUME CursorInv, NEW r \in Run, Create(r)
  PROVE  CursorInv'
  <1>1. Owed' = Owed /\ VectorNotOlder'
    BY DEF Create, messages, Owed, CursorInv, VectorNotOlder
  <1>2. CASE row.status # "absent" /\ Leave(r) /\ UNCHANGED row
    <2>1. CheckpointIsSound'
      BY <1>1, <1>2 DEF Create, CursorInv, CheckpointIsSound, Covered
    <2> QED BY <2>1, <1>2, LeaveKeeps DEF Create, CursorInv, TypeOK
  <1>3. CASE /\ row.status = "absent"
             /\ row' = Fresh
             /\ obj' = [obj EXCEPT ![r] = Fresh]
             /\ base' = [base EXCEPT ![r] = Fresh]
             /\ Goto(r, "begin")
             /\ UNCHANGED <<cursor, todo, read, last>>
    <2>1. TypeOK'
      <3>1. RunType'
        BY <1>3, AbsentIsNoRow DEF Goto, CursorInv, TypeOK, RunType
      <3> QED BY <3>1, <1>3, AbsentIsNoRow DEF Create, CursorInv, TypeOK, MessageType, messages
    <2>2. Covered(0)'
      BY DEF Covered, Owed, Id
    <2>3. CheckpointIsSound'
      BY <2>2, <1>3, AbsentIsNoRow DEF CheckpointIsSound
    <2> QED BY <2>1, <2>2, <2>3, <1>1, <1>3, AbsentIsNoRow
            DEF Create, Goto, CursorInv, TypeOK, RunType, Covered
  <1> QED BY <1>2, <1>3 DEF Create

\* What a run holds when it keeps its place: the conjuncts of the invariant about a run.
RunInv(r) ==
  /\ Covered(obj[r].cursor)
  /\ Covered(base[r].cursor)
  /\ Covered(cursor[r])
  /\ obj[r].status = "COMPLETED" => Owed \subseteq tried
  /\ base[r].status = "COMPLETED" => Owed \subseteq tried
  /\ pc[r] \in {"embed", "write"} =>
       \A m \in Owed : m <= last[r] => m \in tried \/ m \in todo[r]
  /\ pc[r] = "finish" => Owed \subseteq tried
  /\ pc[r] \notin {"idle", "create"} => row.status # "absent"

\* A step of one run leaves the others' conjuncts alone, if it tries no less and does not
\* take the row away.
LEMMA OthersKeep ==
  ASSUME CursorInv, NEW r \in Run, NEW s \in Run, s # r, Owed' = Owed, tried \subseteq tried',
         row.status # "absent" => row'.status # "absent",
         pc'[s] = pc[s], obj'[s] = obj[s], base'[s] = base[s], cursor'[s] = cursor[s],
         todo'[s] = todo[s], last'[s] = last[s]
  PROVE  RunInv(s)'
  BY DEF CursorInv, RunInv, Covered

\* So does a run that begins with the row it has loaded.
LEMMA BeginKeeps ==
  ASSUME CursorInv, NEW r \in Run, Begin(r)
  PROVE  CursorInv'
  <1> DEFINE new == [obj[r] EXCEPT !.status = "IN_PROGRESS"]
  <1>1. Owed' = Owed /\ VectorNotOlder' /\ tried' = tried
    BY DEF Begin, messages, Owed, CursorInv, VectorNotOlder
  <1>2. obj[r] \in Progress
    BY DEF CursorInv, TypeOK, RunType
  <1>3. new \in Progress /\ new.cursor = obj[r].cursor /\ new.status = "IN_PROGRESS"
    BY <1>2 DEF Progress, Status
  <1>4. row.status # "absent"
    BY DEF Begin, CursorInv
  <1>5. Flush(r, new) /\ obj' = [obj EXCEPT ![r] = new] /\ base' = [base EXCEPT ![r] = new]
    BY DEF Begin, Commit
  <1> HIDE DEF new
  <1>6. /\ row' \in Progress
        /\ row'.cursor \in {row.cursor, new.cursor}
        /\ row'.status \in {row.status, new.status}
    BY <1>3, <1>4, <1>5, FlushMixes DEF CursorInv
  <1>7. TypeOK'
    <2>1. cursor' \in [Run -> 0 .. MaxId]
      BY <1>2 DEF Begin, CursorInv, TypeOK, RunType, Progress
    <2>2. RunType'
      BY <1>3, <1>5, <2>1 DEF Begin, Goto, CursorInv, TypeOK, RunType
    <2> QED BY <1>6, <2>2 DEF Begin, CursorInv, TypeOK, MessageType, messages
  <1>8. CheckpointIsSound'
    BY <1>1, <1>3, <1>6 DEF CursorInv, CheckpointIsSound, Covered
  <1>9. RunInv(r)'
    BY <1>1, <1>3, <1>4, <1>5, <1>6
       DEF Begin, Goto, CursorInv, TypeOK, RunType, RunInv, Covered
  <1>10. ASSUME NEW s \in Run, s # r PROVE RunInv(s)'
    BY <1>1, <1>3, <1>4, <1>5, <1>6, <1>10, OthersKeep
       DEF Begin, Goto, CursorInv, TypeOK, RunType
  <1> QED BY <1>1, <1>7, <1>8, <1>9, <1>10 DEF CursorInv, RunInv

\* The heart of the checkpoint: all that is owed up to the end of the batch lies below the
\* cursor or in the batch.
LEMMA FetchKeeps ==
  ASSUME CursorInv, NEW r \in Run, Fetch(r)
  PROVE  CursorInv'
  <1> USE BackfillBounds
  <1>1. Owed' = Owed /\ VectorNotOlder' /\ tried' = tried /\ row' = row
    BY DEF Fetch, messages, Owed, CursorInv, VectorNotOlder
  <1>2. CheckpointIsSound'
    BY <1>1 DEF CursorInv, CheckpointIsSound, Covered
  <1>3. row.status # "absent"
    BY DEF Fetch, CursorInv
  <1>4. \A m \in Owed : m \in tried \/ m \in Ahead(r)
    <2>1. cursor[r] \in Int
      BY DEF CursorInv, TypeOK, RunType
    <2> QED BY <2>1 DEF CursorInv, Covered, Owed, Ahead, Id
  <1>5. CASE Ahead(r) = {} /\ Goto(r, "finish") /\ UNCHANGED <<todo, read, last>>
    <2>1. TypeOK'
      BY <1>5 DEF Fetch, Goto, CursorInv, TypeOK, MessageType, RunType, messages
    <2>2. RunInv(r)'
      BY <1>1, <1>3, <1>4, <1>5
         DEF Fetch, Goto, CursorInv, TypeOK, RunType, RunInv, Covered
    <2>3. ASSUME NEW s \in Run, s # r PROVE RunInv(s)'
      BY <1>1, <1>5, <2>3, OthersKeep DEF Fetch, Goto, CursorInv, TypeOK, RunType
    <2> QED BY <1>1, <1>2, <2>1, <2>2, <2>3 DEF CursorInv, RunInv
  <1>6. ASSUME NEW batch \in SUBSET Ahead(r), NEW e \in batch,
               \A m \in batch, n \in Ahead(r) \ batch : m < n,
               \A n \in batch : n <= e,
               todo' = [todo EXCEPT ![r] = batch],
               last' = [last EXCEPT ![r] = e],
               read' = [read EXCEPT ![r] = [m \in Id |-> IF m \in batch THEN version[m] ELSE 0]],
               Goto(r, "embed")
        PROVE  CursorInv'
    <2>1. batch \subseteq Id
      BY DEF Ahead
    <2>2. TypeOK'
      <3>1. [m \in Id |-> IF m \in batch THEN version[m] ELSE 0] \in [Id -> 0 .. MaxVersion]
        BY DEF CursorInv, TypeOK, MessageType
      <3>2. e \in 0 .. MaxId
        BY <2>1 DEF Id
      <3>3. RunType'
        BY <1>6, <2>1, <3>1, <3>2 DEF Fetch, Goto, CursorInv, TypeOK, RunType
      <3> QED BY <3>3 DEF Fetch, CursorInv, TypeOK, MessageType, messages
    <2>3. \A m \in Owed : m <= e => m \in tried \/ m \in batch
      <3> SUFFICES ASSUME NEW m \in Owed, m <= e, m \notin tried, m \notin batch PROVE FALSE
        OBVIOUS
      <3>1. m \in Ahead(r) \ batch
        BY <1>4
      <3>2. e < m
        BY <1>6, <3>1
      <3> QED BY <3>2, <2>1, <3>1 DEF Id, Ahead
    <2>4. RunInv(r)'
      BY <1>1, <1>3, <1>6, <2>3
         DEF Fetch, Goto, CursorInv, TypeOK, RunType, RunInv, Covered
    <2>5. ASSUME NEW s \in Run, s # r PROVE RunInv(s)'
      BY <1>1, <1>6, <2>5, OthersKeep DEF Fetch, Goto, CursorInv, TypeOK, RunType
    <2> QED BY <1>1, <1>2, <2>2, <2>4, <2>5 DEF CursorInv, RunInv
  <1> QED BY <1>5, <1>6 DEF Fetch

\* So does a batch that is embedded.
LEMMA EmbedKeeps ==
  ASSUME CursorInv, NEW r \in Run, Embed(r)
  PROVE  CursorInv'
  <1>1. Owed' = Owed /\ VectorNotOlder' /\ tried \subseteq tried' /\ row' = row
    BY DEF Embed, messages, Owed, CursorInv, VectorNotOlder
  <1>2. CheckpointIsSound'
    BY <1>1 DEF CursorInv, CheckpointIsSound, Covered
  <1>3. row.status # "absent"
    BY DEF Embed, CursorInv
  <1>4. ASSUME NEW s \in Run, s # r PROVE RunInv(s)'
    <2>1. /\ pc'[s] = pc[s] /\ obj'[s] = obj[s] /\ base'[s] = base[s]
          /\ cursor'[s] = cursor[s] /\ todo'[s] = todo[s] /\ last'[s] = last[s]
      BY <1>4 DEF Embed, Goto, CursorInv, TypeOK, RunType
    <2> QED BY <1>1, <1>4, <2>1, OthersKeep
  <1>5. CASE UNCHANGED <<obj, todo, tried>>
    <2>1. TypeOK'
      BY <1>5 DEF Embed, Goto, CursorInv, TypeOK, MessageType, RunType, messages
    <2>2. RunInv(r)'
      BY <1>1, <1>3, <1>5 DEF Embed, Goto, CursorInv, TypeOK, RunType, RunInv, Covered
    <2> QED BY <1>1, <1>2, <1>4, <2>1, <2>2 DEF CursorInv, RunInv
  <1>6. CASE /\ obj' = [obj EXCEPT ![r] = Count(@, Cardinality(todo[r]), "failed")]
             /\ tried' = tried \cup todo[r]
             /\ todo' = [todo EXCEPT ![r] = {}]
    <2>1. obj[r] \in Progress /\ Cardinality(todo[r]) \in Nat /\ todo[r] \subseteq Id
      BY BatchIsFinite DEF CursorInv, TypeOK, RunType
    <2> DEFINE new == Count(obj[r], Cardinality(todo[r]), "failed")
    <2>2. new \in Progress /\ new.cursor = obj[r].cursor /\ new.status = obj[r].status
      BY <2>1, CountIsProgress
    <2>3. obj' = [obj EXCEPT ![r] = new]
      BY <1>6
    <2> HIDE DEF new
    <2>4. TypeOK'
      <3>1. RunType'
        BY <1>6, <2>2, <2>3 DEF Embed, Goto, CursorInv, TypeOK, RunType
      <3> QED BY <3>1, <1>6, <2>1 DEF Embed, CursorInv, TypeOK, MessageType, messages
    <2>5. RunInv(r)'
      BY <1>1, <1>3, <1>6, <2>2, <2>3
         DEF Embed, Goto, CursorInv, TypeOK, RunType, RunInv, Covered
    <2> QED BY <1>1, <1>2, <1>4, <2>4, <2>5 DEF CursorInv, RunInv
  <1> QED BY <1>5, <1>6 DEF Embed

\* So does a transient error of the provider.
LEMMA EmbedFailsKeeps ==
  ASSUME CursorInv, NEW r \in Run, EmbedFails(r)
  PROVE  CursorInv'
  <1>1. Owed' = Owed /\ VectorNotOlder' /\ tried' = tried /\ row' = row
    BY DEF EmbedFails, messages, Owed, CursorInv, VectorNotOlder
  <1>2. CheckpointIsSound'
    BY <1>1 DEF CursorInv, CheckpointIsSound, Covered
  <1>3. TypeOK'
    BY BackfillBounds
       DEF EmbedFails, Fault, Goto, CursorInv, TypeOK, MessageType, RunType, messages
  <1>4. RunInv(r)'
    BY <1>1 DEF EmbedFails, Goto, CursorInv, TypeOK, RunType, RunInv, Covered
  <1>5. ASSUME NEW s \in Run, s # r PROVE RunInv(s)'
    BY <1>1, <1>5, OthersKeep DEF EmbedFails, Goto, CursorInv, TypeOK, RunType
  <1> QED BY <1>1, <1>2, <1>3, <1>4, <1>5 DEF CursorInv, RunInv

\* The script's guard: a vector older than the document's text is not written.
LEMMA WriteKeeps ==
  ASSUME CursorInv, NEW r \in Run, Write(r)
  PROVE  CursorInv'
  <1>1. PICK m \in todo[r], outcome \in {"done", "failed"}, written \in BOOLEAN :
          /\ doc' = IF written THEN [doc EXCEPT ![m] = WriteVector(@, read[r][m])] ELSE doc
          /\ obj' = [obj EXCEPT ![r] = Count(@, 1, outcome)]
          /\ tried' = tried \cup {m}
          /\ todo' = [todo EXCEPT ![r] = @ \ {m}]
    BY DEF Write
  <1>2. m \in Id /\ obj[r] \in Progress
    BY DEF CursorInv, TypeOK, RunType
  <1> DEFINE new == Count(obj[r], 1, outcome)
  <1>3. new \in Progress /\ new.cursor = obj[r].cursor /\ new.status = obj[r].status
    BY <1>2, CountIsProgress
  <1>4. obj' = [obj EXCEPT ![r] = new]
    BY <1>1
  <1> HIDE DEF new
  <1>5. Owed' = Owed /\ tried \subseteq tried' /\ row' = row
    BY <1>1 DEF Write, messages, Owed
  <1>6. CheckpointIsSound'
    BY <1>5 DEF CursorInv, CheckpointIsSound, Covered
  <1>7. doc' \in [Id -> [src : 0 .. MaxVersion, emb : 0 .. MaxVersion]] /\ VectorNotOlder'
    <2>1. CASE ~written
      BY <1>1, <2>1 DEF CursorInv, TypeOK, VectorNotOlder
    <2>2. CASE written
      <3> DEFINE d == WriteVector(doc[m], read[r][m])
      <3>1. /\ doc[m] \in [src : 0 .. MaxVersion, emb : 0 .. MaxVersion]
            /\ read[r][m] \in 0 .. MaxVersion
            /\ doc[m].emb = 0 \/ doc[m].emb >= doc[m].src
        BY <1>2 DEF CursorInv, TypeOK, RunType, VectorNotOlder
      <3>2. d \in [src : 0 .. MaxVersion, emb : 0 .. MaxVersion] /\ (d.emb = 0 \/ d.emb >= d.src)
        BY <3>1, BackfillBounds DEF WriteVector
      <3>3. doc' = [doc EXCEPT ![m] = d]
        BY <1>1, <2>2
      <3> HIDE DEF d
      <3> QED BY <3>2, <3>3, <1>2 DEF CursorInv, TypeOK, VectorNotOlder
    <2> QED BY <2>1, <2>2
  <1>8. TypeOK'
    <2>1. RunType'
      BY <1>1, <1>3, <1>4 DEF Write, CursorInv, TypeOK, RunType
    <2> QED BY <2>1, <1>1, <1>2, <1>7 DEF Write, CursorInv, TypeOK, MessageType, messages
  <1>9. RunInv(r)'
    BY <1>1, <1>3, <1>4, <1>5 DEF Write, CursorInv, TypeOK, RunType, RunInv, Covered
  <1>10. ASSUME NEW s \in Run, s # r PROVE RunInv(s)'
    <2>1. /\ pc'[s] = pc[s] /\ obj'[s] = obj[s] /\ base'[s] = base[s]
          /\ cursor'[s] = cursor[s] /\ todo'[s] = todo[s] /\ last'[s] = last[s]
      BY <1>1, <1>10 DEF Write, CursorInv, TypeOK, RunType
    <2> QED BY <1>5, <1>10, <2>1, OthersKeep
  <1> QED BY <1>6, <1>7, <1>8, <1>9, <1>10 DEF CursorInv, RunInv

\* So does the commit at the end of a batch.
LEMMA CheckpointKeeps ==
  ASSUME CursorInv, NEW r \in Run, Checkpoint(r)
  PROVE  CursorInv'
  <1> DEFINE new == [obj[r] EXCEPT !.cursor = last[r]]
  <1>1. Owed' = Owed /\ VectorNotOlder' /\ tried' = tried
    BY DEF Checkpoint, messages, Owed, CursorInv, VectorNotOlder
  <1>2. obj[r] \in Progress /\ last[r] \in 0 .. MaxId
    BY DEF CursorInv, TypeOK, RunType
  <1>3. new \in Progress /\ new.cursor = last[r] /\ new.status = obj[r].status
    BY <1>2 DEF Progress
  <1>4. row.status # "absent" /\ Covered(last[r])
    BY DEF Checkpoint, CursorInv, Covered
  <1>5. Flush(r, new) /\ obj' = [obj EXCEPT ![r] = new] /\ base' = [base EXCEPT ![r] = new]
    BY DEF Checkpoint, Commit
  <1> HIDE DEF new
  <1>6. /\ row' \in Progress
        /\ row'.cursor \in {row.cursor, new.cursor}
        /\ row'.status \in {row.status, new.status}
    BY <1>3, <1>4, <1>5, FlushMixes DEF CursorInv
  <1>7. TypeOK'
    <2>1. [m \in Id |-> 0] \in [Id -> 0 .. MaxVersion]
      BY BackfillBounds
    <2>2. RunType'
      BY <1>2, <1>3, <1>5, <2>1 DEF Checkpoint, Goto, CursorInv, TypeOK, RunType, NoVersions
    <2> QED BY <1>6, <2>2 DEF Checkpoint, CursorInv, TypeOK, MessageType, messages
  <1>8. CheckpointIsSound'
    BY <1>1, <1>3, <1>4, <1>6 DEF CursorInv, CheckpointIsSound, Covered
  <1>9. RunInv(r)'
    BY <1>1, <1>3, <1>4, <1>5, <1>6, AbsentIsNoRow
       DEF Checkpoint, Goto, CursorInv, TypeOK, RunType, RunInv, Covered, Progress, Status
  <1>10. ASSUME NEW s \in Run, s # r PROVE RunInv(s)'
    <2>1. /\ pc'[s] = pc[s] /\ obj'[s] = obj[s] /\ base'[s] = base[s]
          /\ cursor'[s] = cursor[s] /\ todo'[s] = todo[s] /\ last'[s] = last[s]
      BY <1>5, <1>10 DEF Checkpoint, Goto, CursorInv, TypeOK, RunType
    <2>2. row'.status # "absent"
      BY <1>6 DEF Progress, Status
    <2> QED BY <1>1, <1>10, <2>1, <2>2, OthersKeep
  <1> QED BY <1>1, <1>7, <1>8, <1>9, <1>10 DEF CursorInv, RunInv

\* So does reading the row again for the next batch.
LEMMA RefreshKeeps ==
  ASSUME CursorInv, NEW r \in Run, Refresh(r)
  PROVE  CursorInv'
  <1>1. Owed' = Owed /\ VectorNotOlder' /\ tried' = tried /\ row' = row
    BY DEF Refresh, messages, Owed, CursorInv, VectorNotOlder
  <1>2. CheckpointIsSound'
    BY <1>1 DEF CursorInv, CheckpointIsSound, Covered
  <1>3. row.status # "absent" /\ row \in Progress
    BY AbsentIsNoRow DEF Refresh, CursorInv, TypeOK
  <1>4. CASE Leave(r)
    BY <1>1, <1>2, <1>3, <1>4, LeaveKeeps DEF Refresh, CursorInv, TypeOK
  <1>5. CASE Load(r) /\ Goto(r, "fetch") /\ UNCHANGED <<cursor, todo, read, last>>
    <2>1. TypeOK'
      <3>1. RunType'
        BY <1>3, <1>5 DEF Load, Goto, CursorInv, TypeOK, RunType
      <3> QED BY <3>1 DEF Refresh, CursorInv, TypeOK, MessageType, messages
    <2>2. RunInv(r)'
      BY <1>1, <1>2, <1>3, <1>5
         DEF Load, Goto, CursorInv, TypeOK, RunType, RunInv, Covered, CheckpointIsSound
    <2>3. ASSUME NEW s \in Run, s # r PROVE RunInv(s)'
      BY <1>1, <1>5, <2>3, OthersKeep DEF Load, Goto, CursorInv, TypeOK, RunType
    <2> QED BY <1>1, <1>2, <2>1, <2>2, <2>3 DEF CursorInv, RunInv
  <1> QED BY <1>4, <1>5 DEF Refresh

\* A run ends by a commit of its status, COMPLETED or FAILED.
LEMMA EndKeeps ==
  ASSUME CursorInv, NEW r \in Run, NEW status \in {"COMPLETED", "FAILED"},
         pc[r] \in {"finish", "fail"}, status = "COMPLETED" => pc[r] = "finish",
         Flush(r, [obj[r] EXCEPT !.status = status]), Leave(r),
         UNCHANGED <<messages, doc, tried, overlapped, faults>>
  PROVE  CursorInv'
  <1> DEFINE new == [obj[r] EXCEPT !.status = status]
  <1>1. Owed' = Owed
    BY DEF messages, Owed
  <1>2. obj[r] \in Progress
    BY DEF CursorInv, TypeOK, RunType
  <1>3. new \in Progress /\ new.cursor = obj[r].cursor /\ new.status = status
    BY <1>2 DEF Progress, Status
  <1>4. row.status # "absent" /\ (status = "COMPLETED" => Owed \subseteq tried)
    BY DEF CursorInv
  <1> HIDE DEF new
  <1>5. /\ row' \in Progress
        /\ row'.cursor \in {row.cursor, new.cursor}
        /\ row'.status \in {row.status, new.status}
    BY <1>3, <1>4, FlushMixes DEF CursorInv, new
  <1>6. CheckpointIsSound'
    BY <1>1, <1>3, <1>4, <1>5 DEF CursorInv, CheckpointIsSound, Covered
  <1>7. row'.status # "absent"
    BY <1>5 DEF Progress, Status
  <1> QED BY <1>5, <1>6, <1>7, LeaveKeeps DEF CursorInv, TypeOK

\* A run dies: its row is as it was committed last.
LEMMA RunDiesKeeps ==
  ASSUME CursorInv, NEW r \in Run, RunDies(r)
  PROVE  CursorInv'
  <1>1. Owed' = Owed
    BY DEF RunDies, messages, Owed
  <1>2. CheckpointIsSound'
    BY <1>1 DEF RunDies, CursorInv, CheckpointIsSound, Covered
  <1>3. faults' \in 0 .. MaxFaults
    BY BackfillBounds DEF RunDies, Fault, CursorInv, TypeOK
  <1> QED BY <1>2, <1>3, LeaveKeeps DEF RunDies, CursorInv, TypeOK

\* Every step of every actor leaves the cursor right.
LEMMA StepKeepsInvariant == CursorInv /\ [Next]_vars => CursorInv'
  <1> SUFFICES ASSUME CursorInv, [Next]_vars PROVE CursorInv'
    OBVIOUS
  <1>1. CASE UNCHANGED vars
    BY <1>1 DEF vars, messages, locals, CursorInv, TypeOK, MessageType, RunType,
                CheckpointIsSound, Covered, Owed, VectorNotOlder
  <1>2. ASSUME NEW m \in Id, MessageChanges(m) \/ Indexed(m) PROVE CursorInv'
    BY <1>2, MessageChangesKeeps, IndexedKeeps
  <1>3. ASSUME NEW r \in Run, RunStep(r) PROVE CursorInv'
    <2>1. CASE Finish(r)
      BY <2>1, EndKeeps DEF Finish
    <2>2. CASE Fail(r)
      BY <2>2, EndKeeps DEF Fail
    <2> QED BY <1>3, <2>1, <2>2, CreateKeeps, BeginKeeps, FetchKeeps, EmbedKeeps, WriteKeeps,
               CheckpointKeeps, RefreshKeeps DEF RunStep
  <1>4. ASSUME NEW r \in Run, Start(r) \/ EmbedFails(r) \/ RunDies(r) PROVE CursorInv'
    BY <1>4, StartKeeps, EmbedFailsKeeps, RunDiesKeeps
  <1> QED BY <1>1, <1>2, <1>3, <1>4, CancelledKeeps DEF Next
-----------------------------------------------------------------------------
(* The counters: each action keeps CountInv, given CursorInv. *)

\* The conjuncts of CountInv about the row, and about a run under way.
RowCounts ==
  /\ row.processed = row.done + row.failed
  /\ row.processed <= Cardinality(TriedUpTo(row.cursor))

RunCounts(r) ==
  /\ SameCounters(base[r], row)
  /\ obj[r].cursor = row.cursor
  /\ obj[r].processed = obj[r].done + obj[r].failed
  /\ pc[r] \in {"fetch", "embed", "write", "refresh"} => cursor[r] = row.cursor
  /\ pc[r] # "write" => obj[r].processed <= Cardinality(TriedUpTo(row.cursor))
  /\ pc[r] = "write" => obj[r].processed <= Cardinality(TriedUpTo(last[r]) \ todo[r])
  /\ pc[r] \in {"embed", "write"} =>
       cursor[r] < last[r] /\ \A m \in todo[r] : cursor[r] < m /\ m <= last[r]

\* A larger set of messages counts for more.
LEMMA MoreCountsMore ==
  ASSUME NEW s \in SUBSET Id, NEW t \in SUBSET s
  PROVE  /\ IsFiniteSet(s) /\ IsFiniteSet(t)
         /\ Cardinality(s) \in Nat /\ Cardinality(t) \in Nat
         /\ Cardinality(t) <= Cardinality(s)
  <1>1. IsFiniteSet(Id)
    BY FS_Interval, BackfillBounds DEF Id
  <1>2. IsFiniteSet(s)
    BY <1>1, FS_Subset
  <1> QED BY <1>2, FS_Subset, FS_CardinalityType

\* Counting n messages adds n to what was processed and to one of the outcomes.
LEMMA CountAddsUp ==
  ASSUME NEW p \in Progress, NEW n \in Nat, NEW outcome \in {"done", "failed"},
         p.processed = p.done + p.failed
  PROVE  LET c == Count(p, n, outcome)
         IN  c.processed = p.processed + n /\ c.processed = c.done + c.failed
  <1> DEFINE q == [p EXCEPT !.processed = @ + n]
  <1>1. /\ q \in Progress
        /\ q.processed = p.processed + n /\ q.done = p.done /\ q.failed = p.failed
    BY DEF Progress
  <1>2. p.processed \in Nat /\ p.done \in Nat /\ p.failed \in Nat
    BY DEF Progress
  <1> HIDE DEF q
  <1>3. CASE outcome = "done"
    <2>1. Count(p, n, outcome) = [q EXCEPT !.done = @ + n]
      BY <1>3 DEF Count, q
    <2>2. /\ Count(p, n, outcome).processed = q.processed
          /\ Count(p, n, outcome).done = q.done + n
          /\ Count(p, n, outcome).failed = q.failed
      BY <1>1, <2>1 DEF Progress
    <2> QED BY <1>1, <1>2, <2>2
  <1>4. CASE outcome = "failed"
    <2>1. Count(p, n, outcome) = [q EXCEPT !.failed = @ + n]
      BY <1>4 DEF Count, q
    <2>2. /\ Count(p, n, outcome).processed = q.processed
          /\ Count(p, n, outcome).done = q.done
          /\ Count(p, n, outcome).failed = q.failed + n
      BY <1>1, <2>1 DEF Progress
    <2> QED BY <1>1, <1>2, <2>2
  <1> QED BY <1>3, <1>4

\* The commit of a run that has the row's counters stores its own.
LEMMA FlushStoresCounters ==
  ASSUME NEW r \in Run, NEW new \in Progress, TypeOK, row.status # "absent", Flush(r, new),
         SameCounters(base[r], row)
  PROVE  SameCounters(new, row')
  <1>1. row \in Progress /\ base[r] \in Progress
    BY AbsentIsNoRow DEF TypeOK, RunType
  <1>2. row' = [f \in {"status", "cursor", "processed", "done", "failed"} |->
                  IF new[f] # base[r][f] THEN new[f] ELSE row[f]]
    BY <1>1 DEF Flush, Progress
  <1> QED BY <1>2 DEF SameCounters

\* While runs have not overlapped, a run under way is the only one.
LEMMA AloneKeeps ==
  ASSUME CountInv, NEW r \in Run, pc[r] # "idle",
         \A s \in Run \ {r} : pc'[s] = pc[s],
         overlapped' = overlapped,
         ~overlapped => RowCounts' /\ (pc'[r] \notin {"idle", "create"} => RunCounts(r)')
  PROVE  CountInv'
  <1> SUFFICES ASSUME ~overlapped PROVE CountInv'
    BY DEF CountInv
  <1>1. \A s \in Run : pc'[s] # "idle" => s = r
    BY DEF CountInv
  <1> QED BY <1>1 DEF CountInv, RowCounts, RunCounts

\* What a run that leaves behind it owes the row is the row's own counters.
LEMMA LeaveCounts ==
  ASSUME CursorInv, CountInv, NEW r \in Run, pc[r] # "idle", Leave(r), overlapped' = overlapped,
         ~overlapped => RowCounts'
  PROVE  CountInv'
  <1>1. pc'[r] = "idle" /\ \A s \in Run \ {r} : pc'[s] = pc[s]
    BY DEF CursorInv, TypeOK, RunType, Leave, Goto
  <1> QED BY <1>1, AloneKeeps

\* The counters of a row that stays, when no less has been tried.
LEMMA RowCountsStay ==
  ASSUME TypeOK, TypeOK', RowCounts, tried \subseteq tried', SameCounters(row, row')
  PROVE  RowCounts'
  <1>1. TriedUpTo(row.cursor)' \in SUBSET Id /\ TriedUpTo(row.cursor) \subseteq TriedUpTo(row.cursor)'
    BY DEF TriedUpTo, SameCounters, TypeOK
  <1>2. /\ Cardinality(TriedUpTo(row.cursor)') \in Nat
        /\ Cardinality(TriedUpTo(row.cursor)) \in Nat
        /\ Cardinality(TriedUpTo(row.cursor)) <= Cardinality(TriedUpTo(row.cursor)')
    BY <1>1, MoreCountsMore
  <1>3. row.processed \in Nat /\ row'.processed = row.processed
    BY AbsentIsNoRow DEF TypeOK, Progress, Absent, Fresh, SameCounters
  <1>4. row'.processed = row'.done + row'.failed
    BY DEF RowCounts, SameCounters
  <1>5. Cardinality(TriedUpTo(row.cursor)') = Cardinality(TriedUpTo(row.cursor))'
    OBVIOUS
  <1> QED BY <1>2, <1>3, <1>4, <1>5 DEF RowCounts

\* Nothing is counted at the start.
LEMMA CountsHoldInitially == Init => CountInv
  <1> SUFFICES ASSUME Init PROVE CountInv
    OBVIOUS
  <1>1. TriedUpTo(row.cursor) = {}
    BY DEF Init, TriedUpTo
  <1>2. row.processed = 0 /\ row.done = 0 /\ row.failed = 0
    BY DEF Init, Absent, Fresh
  <1>3. RowCounts
    BY <1>1, <1>2, FS_EmptySet DEF RowCounts
  <1>4. \A r \in Run : pc[r] = "idle"
    BY DEF Init
  <1> QED BY <1>3, <1>4 DEF CountInv, RowCounts

\* Mail sync, the outbox and the operator leave the counters alone.
LEMMA OutsideCounts ==
  ASSUME CursorInv, CountInv, UNCHANGED <<locals, tried, overlapped>>,
         SameCounters(row, row')
  PROVE  CountInv'
  <1> SUFFICES ASSUME ~overlapped PROVE CountInv'
    BY DEF CountInv
  <1>1. TriedUpTo(row.cursor)' = TriedUpTo(row.cursor)
    BY DEF TriedUpTo, SameCounters
  <1>2. \A r \in Run : (TriedUpTo(last[r]) \ todo[r])' = TriedUpTo(last[r]) \ todo[r]
    BY DEF TriedUpTo, locals
  <1>3. RowCounts'
    BY <1>1 DEF CountInv, RowCounts, SameCounters
  <1>4. ASSUME NEW r \in Run, pc[r] \notin {"idle", "create"} PROVE RunCounts(r)'
    BY <1>1, <1>2, <1>4 DEF CountInv, RunCounts, SameCounters, locals
  <1> QED BY <1>3, <1>4 DEF CountInv, RowCounts, RunCounts, locals

\* A run that starts has the counters of the row.
LEMMA StartCounts ==
  ASSUME CursorInv, CountInv, NEW r \in Run, Start(r)
  PROVE  CountInv'
  <1> SUFFICES ASSUME ~overlapped' PROVE CountInv'
    BY DEF CountInv
  <1>1. ~overlapped /\ \A s \in Run \ {r} : pc[s] = "idle"
    BY DEF Start
  <1>2. row' = row /\ tried' = tried
    BY DEF Start
  <1>3. RowCounts /\ RowCounts'
    BY <1>1, <1>2 DEF CountInv, RowCounts, TriedUpTo
  <1>4. \A s \in Run \ {r} : pc'[s] = "idle"
    BY <1>1 DEF Start, Goto, CursorInv, TypeOK, RunType
  <1>5. pc'[r] \notin {"idle", "create"} => RunCounts(r)'
    <2>1. pc'[r] \in {"create", "begin"}
      BY DEF Start, Goto, CursorInv, TypeOK, RunType
    <2>2. pc'[r] = "begin" => obj'[r] = row /\ base'[r] = row
      BY DEF Start, Goto, Load, CursorInv, TypeOK, RunType
    <2> QED BY <1>2, <1>3, <2>1, <2>2 DEF RunCounts, RowCounts, SameCounters, TriedUpTo
  <1> QED BY <1>3, <1>4, <1>5 DEF CountInv, RowCounts, RunCounts

\* A new checkpoint has counted nothing.
LEMMA CreateCounts ==
  ASSUME CursorInv, CountInv, NEW r \in Run, Create(r)
  PROVE  CountInv'
  <1>1. CASE Leave(r) /\ UNCHANGED row
    BY <1>1, LeaveCounts DEF Create, CountInv, RowCounts, TriedUpTo
  <1>2. CASE /\ row' = Fresh
             /\ obj' = [obj EXCEPT ![r] = Fresh]
             /\ base' = [base EXCEPT ![r] = Fresh]
             /\ Goto(r, "begin")
    <2>1. Cardinality(TriedUpTo(0)') \in Nat
      BY MoreCountsMore DEF TriedUpTo, Create, CursorInv, TypeOK
    <2>2. RowCounts'
      BY <1>2, <2>1 DEF RowCounts, Fresh
    <2>3. /\ pc' = [pc EXCEPT ![r] = "begin"] /\ pc'[r] = "begin"
          /\ obj'[r] = Fresh /\ base'[r] = Fresh
      BY <1>2 DEF Goto, CursorInv, TypeOK, RunType
    <2>4. RunCounts(r)'
      BY <1>2, <2>1, <2>3 DEF RunCounts, SameCounters, Fresh
    <2>5. \A s \in Run \ {r} : pc'[s] = pc[s]
      BY <2>3 DEF CursorInv, TypeOK, RunType
    <2>6. pc[r] # "idle" /\ overlapped' = overlapped
      BY DEF Create
    <2> QED BY <2>2, <2>4, <2>5, <2>6, AloneKeeps
  <1> QED BY <1>1, <1>2 DEF Create

\* A run that begins leaves them.
LEMMA BeginCounts ==
  ASSUME CursorInv, CountInv, NEW r \in Run, Begin(r)
  PROVE  CountInv'
  <1> DEFINE new == [obj[r] EXCEPT !.status = "IN_PROGRESS"]
  <1>1. /\ Flush(r, new)
        /\ obj' = [obj EXCEPT ![r] = new] /\ base' = [base EXCEPT ![r] = new]
        /\ cursor' = [cursor EXCEPT ![r] = obj[r].cursor]
        /\ pc[r] = "begin" /\ pc' = [pc EXCEPT ![r] = "fetch"]
        /\ tried' = tried /\ overlapped' = overlapped
    BY DEF Begin, Commit, Goto
  <1>2. obj[r] \in Progress
    BY DEF CursorInv, TypeOK, RunType
  <1>3. new \in Progress /\ SameCounters(obj[r], new)
    BY <1>2 DEF Progress, Status, SameCounters
  <1>4. TypeOK /\ row.status # "absent"
    BY <1>1 DEF CursorInv
  <1> HIDE DEF new
  <1>5. /\ obj'[r] = new /\ base'[r] = new /\ cursor'[r] = obj[r].cursor /\ pc'[r] = "fetch"
        /\ \A s \in Run \ {r} : pc'[s] = pc[s]
    BY <1>1, <1>4 DEF TypeOK, RunType
  <1>6. ASSUME ~overlapped PROVE RowCounts' /\ RunCounts(r)'
    <2>1. RunCounts(r)
      BY <1>1, <1>6 DEF CountInv, RunCounts
    <2>2. SameCounters(new, row')
      BY <1>1, <1>3, <1>4, <2>1, FlushStoresCounters DEF RunCounts
    <2>3. /\ obj[r].cursor = row'.cursor /\ row'.cursor = row.cursor
          /\ row'.processed = obj[r].processed /\ row'.done = obj[r].done
          /\ row'.failed = obj[r].failed
      BY <1>3, <2>1, <2>2 DEF SameCounters, RunCounts
    <2>4. obj[r].processed <= Cardinality(TriedUpTo(row'.cursor))
      BY <1>1, <2>1, <2>3 DEF RunCounts
    <2>5. RowCounts'
      BY <1>1, <2>1, <2>3, <2>4 DEF RowCounts, RunCounts, TriedUpTo
    <2> QED BY <1>5, <2>2, <2>3, <2>5 DEF RowCounts, RunCounts, SameCounters
  <1> QED BY <1>1, <1>5, <1>6, AloneKeeps

\* Fetching a batch counts nothing.
LEMMA FetchCounts ==
  ASSUME CursorInv, CountInv, NEW r \in Run, Fetch(r)
  PROVE  CountInv'
  <1>1. /\ pc[r] = "fetch"
        /\ row' = row /\ obj' = obj /\ base' = base /\ cursor' = cursor
        /\ tried' = tried /\ overlapped' = overlapped
    BY DEF Fetch
  <1>2. \A s \in Run \ {r} : pc'[s] = pc[s]
    BY DEF Fetch, Goto, CursorInv, TypeOK, RunType
  <1>3. \/ pc'[r] = "finish"
        \/ /\ pc'[r] = "embed" /\ cursor[r] < last'[r]
           /\ \A m \in todo'[r] : cursor[r] < m /\ m <= last'[r]
    <2>1. CASE Ahead(r) = {} /\ Goto(r, "finish")
      BY <2>1 DEF Goto, CursorInv, TypeOK, RunType
    <2>2. ASSUME NEW batch \in SUBSET Ahead(r), NEW e \in batch, \A n \in batch : n <= e,
                 todo' = [todo EXCEPT ![r] = batch], last' = [last EXCEPT ![r] = e],
                 Goto(r, "embed")
          PROVE  <1>3!2
      BY <2>2 DEF Goto, CursorInv, TypeOK, RunType, Ahead, Id
    <2> QED BY <2>1, <2>2 DEF Fetch
  <1>4. ASSUME ~overlapped PROVE RowCounts' /\ RunCounts(r)'
    <2>1. RunCounts(r) /\ RowCounts
      BY <1>1, <1>4 DEF CountInv, RunCounts, RowCounts
    <2>2. RowCounts'
      BY <1>1, <2>1 DEF RowCounts, TriedUpTo
    <2>3. RunCounts(r)'
      BY <1>1, <1>3, <2>1 DEF RunCounts, TriedUpTo, SameCounters
    <2> QED BY <2>2, <2>3
  <1> QED BY <1>1, <1>2, <1>4, AloneKeeps

\* A transient error counts nothing yet.
LEMMA EmbedFailsCounts ==
  ASSUME CursorInv, CountInv, NEW r \in Run, EmbedFails(r)
  PROVE  CountInv'
  <1>1. /\ pc[r] = "embed" /\ pc' = [pc EXCEPT ![r] = "fail"]
        /\ row' = row /\ obj' = obj /\ base' = base /\ cursor' = cursor
        /\ tried' = tried /\ overlapped' = overlapped
    BY DEF EmbedFails, Goto
  <1>2. pc'[r] = "fail" /\ \A s \in Run \ {r} : pc'[s] = pc[s]
    BY <1>1 DEF CursorInv, TypeOK, RunType
  <1>3. ASSUME ~overlapped PROVE RowCounts' /\ RunCounts(r)'
    <2>1. RunCounts(r) /\ RowCounts
      BY <1>1, <1>3 DEF CountInv, RunCounts, RowCounts
    <2> QED BY <1>1, <1>2, <2>1 DEF RowCounts, RunCounts, TriedUpTo, SameCounters
  <1> QED BY <1>1, <1>2, <1>3, AloneKeeps

\* What a run may have counted in a batch: the tried messages up to its end but for those
\* still to be written.
LEMMA BatchCounts ==
  ASSUME TypeOK, NEW r \in Run, cursor[r] < last[r],
         \A m \in todo[r] : cursor[r] < m /\ m <= last[r]
  PROVE  /\ TriedUpTo(cursor[r]) \in SUBSET (TriedUpTo(last[r]) \ todo[r])
         /\ TriedUpTo(last[r]) \ todo[r] \in SUBSET Id
         /\ Cardinality(TriedUpTo(cursor[r])) <= Cardinality(TriedUpTo(last[r]) \ todo[r])
  <1>1. cursor[r] \in Int /\ last[r] \in Int /\ todo[r] \subseteq Id /\ tried \subseteq Id
    BY DEF TypeOK, RunType
  <1>2. /\ TriedUpTo(cursor[r]) \in SUBSET (TriedUpTo(last[r]) \ todo[r])
        /\ TriedUpTo(last[r]) \ todo[r] \in SUBSET Id
    <2>1. \A m \in TriedUpTo(cursor[r]) : m \in tried /\ m \in Int /\ m <= cursor[r]
      BY <1>1 DEF TriedUpTo, Id
    <2>2. \A m \in TriedUpTo(cursor[r]) : m <= last[r] /\ m \notin todo[r]
      BY <1>1, <2>1
    <2> QED BY <1>1, <2>1, <2>2 DEF TriedUpTo
  <1> QED BY <1>2, MoreCountsMore

\* A refused batch counts its messages, none of which lies below the cursor.
LEMMA EmbedCounts ==
  ASSUME CursorInv, CountInv, NEW r \in Run, Embed(r)
  PROVE  CountInv'
  <1>1. /\ pc[r] = "embed" /\ pc' = [pc EXCEPT ![r] = "write"]
        /\ row' = row /\ base' = base /\ cursor' = cursor /\ last' = last
        /\ tried \subseteq tried' /\ overlapped' = overlapped
    BY DEF Embed, Goto
  <1>2. TypeOK /\ TypeOK'
    BY EmbedKeeps DEF CursorInv
  <1>3. pc'[r] = "write" /\ \A s \in Run \ {r} : pc'[s] = pc[s]
    BY <1>1, <1>2 DEF TypeOK, RunType
  <1>4. ASSUME ~overlapped PROVE RowCounts' /\ RunCounts(r)'
    <2>1. RunCounts(r) /\ RowCounts
      BY <1>1, <1>4 DEF CountInv, RunCounts, RowCounts
    <2>2. RowCounts'
      BY <1>1, <1>2, <2>1, RowCountsStay DEF SameCounters
    <2>3. /\ cursor[r] = row.cursor /\ cursor[r] < last[r]
          /\ \A m \in todo[r] : cursor[r] < m /\ m <= last[r]
          /\ obj[r].processed <= Cardinality(TriedUpTo(cursor[r]))
          /\ obj[r].processed = obj[r].done + obj[r].failed
      BY <1>1, <2>1 DEF RunCounts
    <2>4. obj[r] \in Progress /\ obj[r].processed \in Nat
      BY <1>2 DEF TypeOK, RunType, Progress
    <2>5. CASE UNCHANGED <<obj, todo, tried>>
      <3>1. obj[r].processed <= Cardinality(TriedUpTo(last[r]) \ todo[r])
        <4>1. /\ Cardinality(TriedUpTo(cursor[r])) <= Cardinality(TriedUpTo(last[r]) \ todo[r])
              /\ TriedUpTo(cursor[r]) \in SUBSET (TriedUpTo(last[r]) \ todo[r])
              /\ TriedUpTo(last[r]) \ todo[r] \in SUBSET Id
          BY <1>2, <2>3, BatchCounts
        <4>2. /\ Cardinality(TriedUpTo(cursor[r])) \in Nat
              /\ Cardinality(TriedUpTo(last[r]) \ todo[r]) \in Nat
          BY <4>1, MoreCountsMore
        <4> QED BY <4>1, <4>2, <2>3, <2>4
      <3>2. (TriedUpTo(last[r]) \ todo[r])' = TriedUpTo(last[r]) \ todo[r]
        BY <1>1, <2>5 DEF TriedUpTo
      <3>3. RunCounts(r)'
        BY <1>1, <1>3, <2>1, <2>3, <2>5, <3>1, <3>2 DEF RunCounts, SameCounters
      <3> QED BY <2>2, <3>3
    <2>6. CASE /\ obj' = [obj EXCEPT ![r] = Count(@, Cardinality(todo[r]), "failed")]
               /\ tried' = tried \cup todo[r]
               /\ todo' = [todo EXCEPT ![r] = {}]
      <3> DEFINE n   == Cardinality(todo[r])
                 new == Count(obj[r], n, "failed")
                 old == TriedUpTo(cursor[r])
                 all == (TriedUpTo(last[r]) \ todo[r])'
      <3>1. todo[r] \in SUBSET Id /\ n \in Nat
        BY <1>2, BatchIsFinite DEF TypeOK, RunType
      <3>2. /\ new.cursor = obj[r].cursor
            /\ new.processed = obj[r].processed + n /\ new.processed = new.done + new.failed
        BY <2>3, <2>4, <3>1, CountIsProgress, CountAddsUp
      <3>3. obj'[r] = new /\ todo'[r] = {}
        BY <1>2, <2>6 DEF TypeOK, RunType
      <3>4. /\ old \cap todo[r] = {}
            /\ old \cup todo[r] \in SUBSET all
            /\ all \in SUBSET Id
        <4>1. cursor[r] \in Int /\ last[r] \in Int /\ tried \subseteq Id
          BY <1>2 DEF TypeOK, RunType
        <4>2. all = {m \in tried \cup todo[r] : m <= last[r]}
          BY <1>1, <2>6, <3>3 DEF TriedUpTo
        <4>3. \A m \in old : m \in tried /\ m \in Int /\ m <= cursor[r]
          BY <4>1 DEF TriedUpTo, Id
        <4> HIDE DEF all, old
        <4>4. \A m \in old : m <= last[r] /\ m \notin todo[r]
          BY <2>3, <4>1, <4>3
        <4>5. old \cap todo[r] = {}
          BY <4>4
        <4>6. old \cup todo[r] \in SUBSET all
          BY <2>3, <4>2, <4>3, <4>4
        <4>7. all \in SUBSET Id
          BY <3>1, <4>1, <4>2
        <4> QED BY <4>5, <4>6, <4>7
      <3>5. /\ IsFiniteSet(old) /\ IsFiniteSet(todo[r])
            /\ Cardinality(old) \in Nat /\ Cardinality(all) \in Nat
            /\ Cardinality(old \cup todo[r]) <= Cardinality(all)
        <4>1. old \in SUBSET Id
          BY <1>2 DEF TriedUpTo, TypeOK
        <4> HIDE DEF old, all
        <4> QED BY <3>1, <3>4, <4>1, MoreCountsMore
      <3>6. Cardinality(old \cup todo[r]) = Cardinality(old) + n
        <4> HIDE DEF old, all
        <4>1. Cardinality({}) = 0
          BY FS_EmptySet
        <4>2. Cardinality(old \cup todo[r])
                = Cardinality(old) + Cardinality(todo[r]) - Cardinality(old \cap todo[r])
          BY <3>5, FS_Union
        <4>3. Cardinality(old \cap todo[r]) = 0
          BY <3>4, <4>1
        <4> QED BY <3>1, <3>5, <4>2, <4>3
      <3>7. new.processed <= Cardinality(all)
        <4>1. obj[r].processed <= Cardinality(old)
          BY <2>3
        <4> HIDE DEF old, all, n, new
        <4> QED BY <2>4, <3>1, <3>2, <3>5, <3>6, <4>1
      <3>8. Cardinality(all) = Cardinality(TriedUpTo(last[r]) \ todo[r])'
        OBVIOUS
      <3> HIDE DEF all, new, n
      <3>9. RunCounts(r)'
        BY <1>1, <1>3, <2>1, <2>3, <3>2, <3>3, <3>7, <3>8 DEF RunCounts, SameCounters
      <3> QED BY <2>2, <3>9
    <2> QED BY <2>5, <2>6 DEF Embed
  <1> QED BY <1>1, <1>3, <1>4, AloneKeeps

\* A message written is tried, counted, and no longer waits: an earlier run may have tried it,
\* but no run that counted it in this row.
LEMMA WriteCounts ==
  ASSUME CursorInv, CountInv, NEW r \in Run, Write(r)
  PROVE  CountInv'
  <1>1. PICK m \in todo[r], outcome \in {"done", "failed"} :
          /\ obj' = [obj EXCEPT ![r] = Count(@, 1, outcome)]
          /\ tried' = tried \cup {m}
          /\ todo' = [todo EXCEPT ![r] = @ \ {m}]
    BY DEF Write
  <1>2. /\ pc[r] = "write" /\ pc' = pc /\ row' = row /\ base' = base /\ cursor' = cursor
        /\ last' = last /\ overlapped' = overlapped
    BY DEF Write
  <1>3. TypeOK /\ TypeOK'
    BY WriteKeeps DEF CursorInv
  <1>4. ASSUME ~overlapped PROVE RowCounts' /\ RunCounts(r)'
    <2> DEFINE new == Count(obj[r], 1, outcome)
               old == TriedUpTo(last[r]) \ todo[r]
               all == (TriedUpTo(last[r]) \ todo[r])'
    <2>1. RunCounts(r) /\ RowCounts
      BY <1>2, <1>4 DEF CountInv, RunCounts, RowCounts
    <2>2. RowCounts'
      BY <1>1, <1>2, <1>3, <2>1, RowCountsStay DEF SameCounters
    <2>3. /\ cursor[r] = row.cursor /\ cursor[r] < last[r]
          /\ \A n \in todo[r] : cursor[r] < n /\ n <= last[r]
          /\ obj[r].processed <= Cardinality(old)
          /\ obj[r].processed = obj[r].done + obj[r].failed
          /\ obj[r].cursor = row.cursor
      BY <1>2, <2>1 DEF RunCounts
    <2>4. obj[r] \in Progress /\ obj[r].processed \in Nat
      BY <1>3 DEF TypeOK, RunType, Progress
    <2>5. /\ new.cursor = obj[r].cursor
          /\ new.processed = obj[r].processed + 1 /\ new.processed = new.done + new.failed
      BY <2>3, <2>4, CountIsProgress, CountAddsUp
    <2>6. obj'[r] = new /\ todo'[r] = todo[r] \ {m}
      BY <1>1, <1>3 DEF TypeOK, RunType
    <2>7. old \in SUBSET Id /\ todo[r] \subseteq Id
      BY <1>3 DEF TriedUpTo, TypeOK, RunType
    <2>8. all = old \cup {m} /\ m \notin old
      <3>1. TriedUpTo(last[r])' = {n \in tried \cup {m} : n <= last[r]}
        BY <1>1, <1>2 DEF TriedUpTo
      <3>2. TriedUpTo(last[r])' = TriedUpTo(last[r]) \cup {m}
        BY <3>1, <2>3 DEF TriedUpTo
      <3> QED BY <2>6, <3>2
    <2> HIDE DEF new, old, all
    <2>9. IsFiniteSet(old) /\ Cardinality(old) \in Nat
      BY <2>7, MoreCountsMore
    <2>10. Cardinality(all) = Cardinality(old) + 1
      BY <2>8, <2>9, FS_AddElement
    <2>11. new.processed <= Cardinality(all)
      BY <2>3, <2>4, <2>5, <2>9, <2>10
    <2>12. Cardinality(all) = Cardinality(TriedUpTo(last[r]) \ todo[r])'
      BY DEF all
    <2>13. \A n \in todo'[r] : cursor[r] < n /\ n <= last[r]
      BY <2>3, <2>6
    <2>14. RunCounts(r)'
      BY <1>2, <2>1, <2>3, <2>5, <2>6, <2>11, <2>12, <2>13 DEF RunCounts, SameCounters
    <2> QED BY <2>2, <2>14
  <1> QED BY <1>2, <1>4, AloneKeeps

\* The cursor moves to the end of the batch, all of which has been counted.
LEMMA CheckpointCounts ==
  ASSUME CursorInv, CountInv, NEW r \in Run, Checkpoint(r)
  PROVE  CountInv'
  <1> DEFINE new == [obj[r] EXCEPT !.cursor = last[r]]
  <1>1. /\ Flush(r, new)
        /\ obj' = [obj EXCEPT ![r] = new] /\ base' = [base EXCEPT ![r] = new]
        /\ cursor' = [cursor EXCEPT ![r] = last[r]]
        /\ pc[r] = "write" /\ todo[r] = {} /\ pc' = [pc EXCEPT ![r] = "refresh"]
        /\ tried' = tried /\ overlapped' = overlapped
    BY DEF Checkpoint, Commit, Goto
  <1>2. obj[r] \in Progress /\ last[r] \in 0 .. MaxId
    BY DEF CursorInv, TypeOK, RunType
  <1>3. /\ new \in Progress /\ new.cursor = last[r]
        /\ new.processed = obj[r].processed /\ new.done = obj[r].done /\ new.failed = obj[r].failed
    BY <1>2 DEF Progress
  <1>4. TypeOK /\ row.status # "absent"
    BY <1>1 DEF CursorInv
  <1> HIDE DEF new
  <1>5. /\ obj'[r] = new /\ base'[r] = new /\ cursor'[r] = last[r] /\ pc'[r] = "refresh"
        /\ \A s \in Run \ {r} : pc'[s] = pc[s]
    BY <1>1, <1>4 DEF TypeOK, RunType
  <1>6. ASSUME ~overlapped PROVE RowCounts' /\ RunCounts(r)'
    <2>1. RunCounts(r)
      BY <1>1, <1>6 DEF CountInv, RunCounts
    <2>2. SameCounters(new, row')
      BY <1>1, <1>3, <1>4, <2>1, FlushStoresCounters DEF RunCounts
    <2>3. TriedUpTo(last[r]) \ todo[r] = TriedUpTo(last[r])
      BY <1>1
    <2>4. new.processed = new.done + new.failed /\ new.processed <= Cardinality(TriedUpTo(last[r]))
      BY <1>1, <1>3, <2>1, <2>3 DEF RunCounts
    <2>5. /\ row'.cursor = last[r] /\ row'.processed = new.processed
          /\ row'.done = new.done /\ row'.failed = new.failed
      BY <1>3, <2>2 DEF SameCounters
    <2>6. TriedUpTo(row.cursor)' = TriedUpTo(last[r])
      BY <1>1, <2>5 DEF TriedUpTo
    <2>7. RowCounts'
      BY <2>4, <2>5, <2>6 DEF RowCounts
    <2> QED BY <1>3, <1>5, <2>2, <2>4, <2>5, <2>6, <2>7 DEF RunCounts
  <1> QED BY <1>1, <1>5, <1>6, AloneKeeps

\* Reading the row again changes no counter while runs do not overlap.
LEMMA RefreshCounts ==
  ASSUME CursorInv, CountInv, NEW r \in Run, Refresh(r)
  PROVE  CountInv'
  <1>1. /\ pc[r] = "refresh" /\ row' = row /\ tried' = tried /\ overlapped' = overlapped
    BY DEF Refresh
  <1>2. ~overlapped => RowCounts /\ RowCounts'
    BY <1>1 DEF CountInv, RowCounts, TriedUpTo
  <1>3. CASE Leave(r)
    BY <1>1, <1>2, <1>3, LeaveCounts
  <1>4. CASE Load(r) /\ Goto(r, "fetch") /\ UNCHANGED <<cursor, todo, read, last>>
    <2>1. /\ pc'[r] = "fetch" /\ obj'[r] = row /\ base'[r] = row /\ cursor' = cursor
          /\ \A s \in Run \ {r} : pc'[s] = pc[s]
      BY <1>4 DEF Load, Goto, CursorInv, TypeOK, RunType
    <2>2. ~overlapped => cursor[r] = row.cursor
      BY <1>1 DEF CountInv
    <2>3. ~overlapped => RunCounts(r)'
      BY <1>1, <1>2, <2>1, <2>2 DEF RunCounts, RowCounts, SameCounters, TriedUpTo
    <2> QED BY <1>1, <1>2, <2>1, <2>3, AloneKeeps
  <1> QED BY <1>3, <1>4 DEF Refresh

\* The last commit of a run, COMPLETED or FAILED, stores what it has counted.
LEMMA EndCounts ==
  ASSUME CursorInv, CountInv, NEW r \in Run, NEW status \in Status,
         pc[r] \in {"finish", "fail"}, Flush(r, [obj[r] EXCEPT !.status = status]), Leave(r),
         UNCHANGED <<tried, overlapped>>
  PROVE  CountInv'
  <1> DEFINE new == [obj[r] EXCEPT !.status = status]
  <1>1. TypeOK /\ row.status # "absent" /\ obj[r] \in Progress
    BY DEF CursorInv, TypeOK, RunType
  <1>2. new \in Progress /\ SameCounters(obj[r], new)
    BY <1>1 DEF Progress, SameCounters
  <1>3. Flush(r, new)
    OBVIOUS
  <1> HIDE DEF new
  <1>4. ASSUME ~overlapped PROVE RowCounts'
    <2>1. RunCounts(r)
      BY <1>4 DEF CountInv, RunCounts
    <2>2. SameCounters(new, row')
      BY <1>1, <1>2, <1>3, <2>1, FlushStoresCounters DEF RunCounts
    <2>3. /\ row'.cursor = row.cursor /\ row'.processed = obj[r].processed
          /\ row'.done = obj[r].done /\ row'.failed = obj[r].failed
      BY <1>2, <2>1, <2>2 DEF SameCounters, RunCounts
    <2>4. TriedUpTo(row.cursor)' = TriedUpTo(row.cursor)
      BY <2>3 DEF TriedUpTo
    <2> QED BY <2>1, <2>3, <2>4 DEF RowCounts, RunCounts
  <1> QED BY <1>4, LeaveCounts

\* A run that dies leaves the stored counters.
LEMMA RunDiesCounts ==
  ASSUME CursorInv, CountInv, NEW r \in Run, RunDies(r)
  PROVE  CountInv'
  <1>1. UNCHANGED <<row, tried, overlapped>>
    BY DEF RunDies
  <1>2. ~overlapped => RowCounts'
    BY <1>1 DEF CountInv, RowCounts, TriedUpTo
  <1> QED BY <1>1, <1>2, LeaveCounts DEF RunDies

\* Every step of every actor leaves the counters covered by the messages tried.
LEMMA StepKeepsCounts == CursorInv /\ CountInv /\ [Next]_vars => CountInv'
  <1> SUFFICES ASSUME CursorInv, CountInv, [Next]_vars PROVE CountInv'
    OBVIOUS
  <1>1. CASE UNCHANGED vars
    BY <1>1, OutsideCounts DEF vars, locals, SameCounters
  <1>2. ASSUME NEW m \in Id, MessageChanges(m) \/ Indexed(m) PROVE CountInv'
    BY <1>2, OutsideCounts DEF MessageChanges, Indexed, locals, SameCounters
  <1>3. CASE Cancelled
    <2>1. row \in Progress
      BY <1>3, AbsentIsNoRow DEF Cancelled, CursorInv, TypeOK
    <2>2. SameCounters(row, row')
      BY <1>3, <2>1 DEF Cancelled, SameCounters, Progress
    <2> QED BY <1>3, <2>2, OutsideCounts DEF Cancelled, locals
  <1>4. ASSUME NEW r \in Run, RunStep(r) PROVE CountInv'
    <2>1. CASE Finish(r)
      BY <2>1, EndCounts DEF Finish, Status
    <2>2. CASE Fail(r)
      BY <2>2, EndCounts DEF Fail, Status
    <2> QED BY <1>4, <2>1, <2>2, CreateCounts, BeginCounts, FetchCounts, EmbedCounts, WriteCounts,
               CheckpointCounts, RefreshCounts DEF RunStep
  <1>5. ASSUME NEW r \in Run, Start(r) \/ EmbedFails(r) \/ RunDies(r) PROVE CountInv'
    BY <1>5, StartCounts, EmbedFailsCounts, RunDiesCounts
  <1> QED BY <1>1, <1>2, <1>3, <1>4, <1>5 DEF Next
-----------------------------------------------------------------------------
(* Results. *)

\* The two strengthenings hold of every reachable state (backfill.py:55-115).
THEOREM BackfillInvariant == Spec => []BackfillInv
  <1>1. Init => BackfillInv
    BY InvariantHoldsInitially, CountsHoldInitially DEF BackfillInv
  <1>2. BackfillInv /\ [Next]_vars => BackfillInv'
    BY StepKeepsInvariant, StepKeepsCounts DEF BackfillInv
  <1> QED BY <1>1, <1>2, PTL DEF Spec

\* The stored cursor never passes a message nobody has tried, and COMPLETED leaves none out
\* (backfill.py:75,84,93).
THEOREM CheckpointSound == Spec => []CheckpointIsSound
  <1>1. BackfillInv => CheckpointIsSound
    BY DEF BackfillInv, CursorInv
  <1> QED BY <1>1, BackfillInvariant, PTL

\* A vector is never older than the text beside it (es_adapter.py:177).
THEOREM VectorsNotOlder == Spec => []VectorNotOlder
  <1>1. BackfillInv => VectorNotOlder
    BY DEF BackfillInv, CursorInv
  <1> QED BY <1>1, BackfillInvariant, PTL

\* Runs that do not overlap count no message twice, whatever dies between them, and their
\* outcomes add up (backfill.py:197-225).
THEOREM CountedOnce == Spec => []NothingCountedTwice
  <1>1. BackfillInv => NothingCountedTwice
    <2> SUFFICES ASSUME BackfillInv, ~overlapped
                 PROVE  /\ row.processed = row.done + row.failed
                        /\ row.processed <= Cardinality(tried)
      BY DEF NothingCountedTwice
    <2>1. TypeOK /\ RowCounts
      BY DEF BackfillInv, CursorInv, CountInv, RowCounts
    <2>2. tried \in SUBSET Id /\ TriedUpTo(row.cursor) \in SUBSET tried
      BY <2>1 DEF TypeOK, TriedUpTo
    <2>3. /\ Cardinality(tried) \in Nat /\ Cardinality(TriedUpTo(row.cursor)) \in Nat
          /\ Cardinality(TriedUpTo(row.cursor)) <= Cardinality(tried)
      BY <2>2, MoreCountsMore
    <2>4. row.processed \in Nat
      BY <2>1, AbsentIsNoRow DEF TypeOK, Progress, Absent, Fresh
    <2> QED BY <2>1, <2>3, <2>4 DEF RowCounts
  <1> QED BY <1>1, BackfillInvariant, PTL
=============================================================================
