------------------------ MODULE OutboxDelivery_proofs ------------------------
(***************************************************************************)
(* Proofs about OutboxDelivery, for any number of jobs, processes,         *)
(* versions, attempts and faults.  Each conjunct of the inductive invariant*)
(* OutboxInv has a lemma that Next preserves it, with one step per action; *)
(* the refinement of OutboxPromise follows at the end.                     *)
(***************************************************************************)
EXTENDS OutboxDelivery, TLAPS

\* The initial states satisfy the invariant.
LEMMA InitInv == Init => OutboxInv
<1>1. Init => TypeOK
  BY BoundsAreNaturals, JobsHaveHosts DEF Init, TypeOK, RowType, JobType, ArqType,
                                      Event, Steps, Open, PutRequest
<1>2. Init => RowInv
  BY BoundsAreNaturals DEF Init, RowInv, RowOK, Event, Open
<1>3. Init => JobInv /\ LeasesDiffer /\ IndexInv
  BY BoundsAreNaturals DEF Init, JobInv, JobOK, LeasesDiffer, IndexInv, Busy
<1> QED BY <1>1, <1>2, <1>3 DEF OutboxInv

(* What the two writes of the index do to the document. *)

DocType == [ver : Nat, src : 0 .. MaxVersion, emb : 0 .. MaxVersion]

\* A put leaves the document alone or replaces it, and never lowers its _version.
LEMMA PutFacts ==
  ASSUME NEW v \in Event, NEW s \in Event, doc \in DocType, Put(v, s)
  PROVE  /\ doc' \in DocType
         /\ doc'.ver >= doc.ver /\ doc'.ver >= v
         /\ doc' = doc \/ (doc'.ver = v /\ doc'.src = s /\ doc'.emb = 0)
  BY BoundsAreNaturals DEF Put, DocType, Event

\* Writing a vector changes nothing but the vector, and advances _version by one.
LEMMA WriteVectorFacts ==
  ASSUME NEW v \in Event, doc \in DocType, WriteVector(v)
  PROVE  /\ doc' \in DocType
         /\ doc'.ver >= doc.ver
         /\ doc'.src = doc.src
         /\ doc' = doc \/ (doc'.emb = v /\ doc.src <= v /\ doc.ver > 0 /\ doc'.ver = doc.ver + 1)
<1>1. CASE doc.ver = 0 \/ doc.src > v
  BY <1>1 DEF WriteVector, DocType
<1>2. CASE ~(doc.ver = 0 \/ doc.src > v)
  <2>1. doc' = [doc EXCEPT !.emb = v, !.ver = @ + 1]
    BY <1>2 DEF WriteVector
  <2>2. doc' = [ver |-> doc.ver + 1, src |-> doc.src, emb |-> v]
    BY <2>1 DEF DocType
  <2> QED BY <1>2, <2>2, BoundsAreNaturals DEF DocType, Event
<1> QED BY <1>1, <1>2

(* Type correctness.  A job's locals are positive while it runs: JobInv. *)

\* Deciding an event keeps its row well-formed.
LEMMA DecideType ==
  ASSUME NEW e \in Event, NEW new \in {"DONE", "PENDING", "DEAD_LETTER"},
         RowType, Decide(e, new), leaseVersion' \in [Event -> Nat]
  PROVE  RowType'
<1>1. attempts' \in [Event -> Nat]
  BY DEF RowType, Decide
<1>2. due' \in [Event -> BOOLEAN]
  <2>1. CASE new = "PENDING"
    BY <2>1 DEF RowType, Decide
  <2>2. CASE new # "PENDING"
    BY <2>2 DEF RowType, Decide
  <2> QED BY <2>1, <2>2
<1>3. status' \in [Event -> Open \cup {"absent", "DONE", "DEAD_LETTER"}]
  BY DEF RowType, Decide, Open
<1> QED BY <1>1, <1>2, <1>3 DEF RowType, Decide

\* After a failure an event is PENDING or DEAD_LETTER.
LEMMA AfterFailureType ==
  ASSUME NEW n \in Nat
  PROVE  AfterFailure(n) \in {"PENDING", "DEAD_LETTER"}
  BY DEF AfterFailure

\* A job that ends keeps well-formed locals.
LEMMA LeaveType ==
  ASSUME NEW j \in Job, JobType, Leave(j)
  PROVE  JobType'
  BY BoundsAreNaturals DEF JobType, Leave, Steps

\* So does a job that goes on to another step of its code.
LEMMA GotoType ==
  ASSUME NEW j \in Job, NEW step \in Steps, JobType, Goto(j, step)
  PROVE  JobType'
  BY DEF JobType, Goto, locals

\* The locals of a running job name an event and the version it read.
LEMMA RunningJob ==
  ASSUME TypeOK, JobInv, NEW j \in Job, pc[j] # "idle"
  PROVE  jobEvent[j] \in Event /\ jobRead[j] \in Event /\ jobLease[j] \in Nat
  BY BoundsAreNaturals DEF TypeOK, JobType, JobInv, JobOK, Busy, Event

\* Every step keeps every variable in its type.
LEMMA TypeStep == TypeOK /\ JobInv /\ [Next]_vars => TypeOK'
<1> SUFFICES ASSUME TypeOK, JobInv, [Next]_vars PROVE TypeOK'
  OBVIOUS
<1> USE BoundsAreNaturals, JobsHaveHosts
<1> USE DEF row, arq
<1>1. CASE Mutate
  BY <1>1 DEF Mutate, TypeOK, RowType, JobType, ArqType, Open, Event, locals
<1>2. ASSUME NEW j \in Job, NEW e \in Event, Claim(j, e) PROVE TypeOK'
  <2>1. RowType'
    BY <1>2 DEF Claim, TypeOK, RowType, Open
  <2>2. JobType'
    BY <1>2 DEF Claim, TypeOK, RowType, JobType, Steps, Event
  <2> QED BY <1>2, <2>1, <2>2 DEF Claim, TypeOK, ArqType
<1>3. ASSUME NEW j \in Job, NEW e \in Event, ClaimAndDecide(j, e) PROVE TypeOK'
  <2>1. RowType'
    <3>1. leaseVersion' \in [Event -> Nat]
      BY <1>3 DEF ClaimAndDecide, TypeOK, RowType
    <3>2. AfterFailure(attempts[e]) \in {"PENDING", "DEAD_LETTER"}
      BY AfterFailureType DEF TypeOK, RowType
    <3> QED BY <1>3, <3>1, <3>2, DecideType DEF ClaimAndDecide, TypeOK
  <2> QED BY <1>3, <2>1 DEF ClaimAndDecide, TypeOK, JobType, ArqType, locals
<1>4. ASSUME NEW e \in Event, LeaseExpires(e) PROVE TypeOK'
  BY <1>4 DEF LeaseExpires, Fault, TypeOK, RowType, JobType, ArqType, locals
<1>5. ASSUME NEW e \in Event, BackoffElapses(e) PROVE TypeOK'
  BY <1>5 DEF BackoffElapses, TypeOK, RowType, JobType, ArqType, locals
<1>6. ASSUME NEW j \in Job, JobStep(j) PROVE TypeOK'
  <2>1. jobEvent[j] \in Event /\ jobRead[j] \in Event
    BY <1>6, RunningJob
       DEF JobStep, IndexSucceeds, IndexFails, IndexRejected, IndexTimesOut,
           EnqueueEmbedding, EnqueueFails, Finish, JobDies
  <2>2. CASE IndexSucceeds(j)
    BY <2>1, <2>2, PutFacts, GotoType
       DEF IndexSucceeds, TypeOK, DocType, RowType, ArqType, Steps
  <2>3. CASE IndexFails(j)
    BY <2>3, GotoType DEF IndexFails, TypeOK, RowType, ArqType, Steps
  <2>4. CASE IndexRejected(j)
    BY <2>4, GotoType DEF IndexRejected, TypeOK, RowType, ArqType, Steps
  <2>5. CASE IndexTimesOut(j)
    BY <2>1, <2>5, GotoType
       DEF IndexTimesOut, Fault, TypeOK, RowType, ArqType, Steps, PutRequest
  <2>6. CASE EnqueueEmbedding(j)
    BY <2>6, GotoType DEF EnqueueEmbedding, TypeOK, RowType, ArqType, Steps
  <2>7. CASE EnqueueFails(j)
    BY <2>7, GotoType DEF EnqueueFails, TypeOK, RowType, ArqType, Steps
  <2>8. CASE Finish(j)
    <3>1. JobType'
      BY <2>8, LeaveType DEF Finish, TypeOK
    <3>2. RowType'
      <4>1. CASE Holds(j)
        <5>1. Verdict(j) \in {"DONE", "PENDING", "DEAD_LETTER"}
          BY <2>8, AfterFailureType DEF Finish, Verdict, TypeOK, JobType
        <5> QED BY <2>1, <2>8, <4>1, <5>1, DecideType DEF Finish, TypeOK, RowType
      <4>2. CASE ~Holds(j)
        BY <2>8, <4>2 DEF Finish, TypeOK, RowType
      <4> QED BY <4>1, <4>2
    <3> QED BY <2>8, <3>1, <3>2 DEF Finish, TypeOK, ArqType
  <2>9. CASE JobDies(j)
    BY <2>1, <2>9, LeaveType DEF JobDies, Fault, TypeOK, RowType, ArqType, PutRequest
  <2> QED BY <1>6, <2>2, <2>3, <2>4, <2>5, <2>6, <2>7, <2>8, <2>9 DEF JobStep
<1>7. ASSUME NEW r \in strayed, StrayedPutArrives(r) PROVE TypeOK'
  <2>1. r.ver \in Event /\ r.src \in Event
    BY DEF TypeOK, PutRequest
  <2> QED BY <1>7, <2>1, PutFacts
          DEF StrayedPutArrives, TypeOK, DocType, RowType, JobType, ArqType, locals
<1>8. ASSUME NEW v \in Event, EmbedStep(v) PROVE TypeOK'
  <2>1. doc' \in DocType
    BY <1>8, WriteVectorFacts
       DEF EmbedStep, EmbedSucceeds, EmbedFails, EmbedGivesUp, ResultExpires, TypeOK,
           DocType
  <2>2. ArqType'
    BY <1>8 DEF EmbedStep, EmbedSucceeds, EmbedFails, EmbedGivesUp, ResultExpires,
                Retry, Fault, TypeOK, ArqType
  <2>3. UNCHANGED <<version, row, pc, locals, strayed>>
    BY <1>8 DEF EmbedStep, EmbedSucceeds, EmbedFails, EmbedGivesUp, ResultExpires
  <2> QED BY <2>1, <2>2, <2>3 DEF TypeOK, DocType, RowType, JobType, locals
<1>9. CASE UNCHANGED vars
  BY <1>9 DEF vars, locals, TypeOK, RowType, JobType, ArqType
<1> QED BY <1>1, <1>2, <1>3, <1>4, <1>5, <1>6, <1>7, <1>8, <1>9 DEF Next

(* The document never loses its place: its _version only grows. *)

\* No step lowers the _version of the document.
LEMMA DocStep == TypeOK /\ JobInv /\ [Next]_vars => doc'.ver >= doc.ver
<1> SUFFICES ASSUME TypeOK, JobInv, [Next]_vars PROVE doc'.ver >= doc.ver
  OBVIOUS
<1>0. doc \in DocType
  BY DEF TypeOK, DocType
<1>1. CASE UNCHANGED doc
  BY <1>0, <1>1 DEF DocType
<1>2. ASSUME NEW j \in Job, IndexSucceeds(j) PROVE doc'.ver >= doc.ver
  BY <1>0, <1>2, RunningJob, PutFacts DEF IndexSucceeds
<1>3. ASSUME NEW r \in strayed, StrayedPutArrives(r) PROVE doc'.ver >= doc.ver
  BY <1>0, <1>3, PutFacts DEF StrayedPutArrives, TypeOK, PutRequest
<1>4. ASSUME NEW v \in Event, WriteVector(v) PROVE doc'.ver >= doc.ver
  BY <1>0, <1>4, WriteVectorFacts
<1> QED BY <1>1, <1>2, <1>3, <1>4
        DEF Next, vars, Mutate, Claim, ClaimAndDecide, LeaseExpires, BackoffElapses,
            JobStep, IndexFails, IndexRejected, IndexTimesOut, EnqueueEmbedding,
            EnqueueFails, Finish, JobDies, EmbedStep, EmbedSucceeds, EmbedFails,
            EmbedGivesUp, ResultExpires

(* The rows. *)

\* Every step keeps the invariant of the rows.
LEMMA RowStep == TypeOK /\ RowInv /\ JobInv /\ [Next]_vars => RowInv'
<1> SUFFICES ASSUME TypeOK, RowInv, JobInv, [Next]_vars PROVE RowInv'
  OBVIOUS
<1>0. doc'.ver >= doc.ver /\ doc.ver \in Nat /\ doc'.ver \in Nat
  BY DocStep, TypeStep DEF TypeOK
<1> USE BoundsAreNaturals
<1>1. CASE Mutate
  <2> SUFFICES ASSUME NEW x \in Event PROVE RowOK(x)'
    BY DEF RowInv
  <2>1. version + 1 \in Event /\ version \in Nat
    BY <1>1 DEF Mutate, TypeOK, Event
  <2>2. CASE x = version + 1
    BY <1>0, <1>1, <2>1, <2>2 DEF Mutate, TypeOK, RowType, RowInv, RowOK, Open, Event
  <2>3. CASE x # version + 1
    BY <1>0, <1>1, <2>1, <2>3 DEF Mutate, TypeOK, RowType, RowInv, RowOK, Open, Event
  <2> QED BY <2>2, <2>3
<1>2. ASSUME NEW j \in Job, NEW e \in Event, Claim(j, e) PROVE RowInv'
  <2> SUFFICES ASSUME NEW x \in Event PROVE RowOK(x)'
    BY DEF RowInv
  <2>1. CASE x = e
    BY <1>0, <1>2, <2>1, JobsHaveHosts
       DEF Claim, Eligible, TypeOK, RowType, RowInv, RowOK, Open
  <2>2. CASE x # e
    BY <1>0, <1>2, <2>2 DEF Claim, TypeOK, RowType, RowInv, RowOK, Event
  <2> QED BY <2>1, <2>2
<1>3. ASSUME NEW e \in Event, NEW new \in {"PENDING", "DEAD_LETTER"}, Decide(e, new),
             UNCHANGED version, status[e] \in Open,
             new = "PENDING" => attempts[e] + 1 < MaxAttempts
      PROVE  RowInv'
  <2> SUFFICES ASSUME NEW x \in Event PROVE RowOK(x)'
    BY DEF RowInv
  <2>1. CASE x = e
    BY <1>0, <1>3, <2>1 DEF Decide, TypeOK, RowType, RowInv, RowOK, Open
  <2>2. CASE x # e
    BY <1>0, <1>3, <2>2 DEF Decide, TypeOK, RowType, RowInv, RowOK, Event
  <2> QED BY <2>1, <2>2
<1>4. ASSUME NEW e \in Event, Decide(e, "DONE"), UNCHANGED version, status[e] \in Open,
             doc.ver >= e
      PROVE  RowInv'
  <2> SUFFICES ASSUME NEW x \in Event PROVE RowOK(x)'
    BY DEF RowInv
  <2>1. CASE x = e
    BY <1>0, <1>4, <2>1 DEF Decide, TypeOK, RowType, RowInv, RowOK, Open, Event
  <2>2. CASE x # e
    BY <1>0, <1>4, <2>2 DEF Decide, TypeOK, RowType, RowInv, RowOK, Event
  <2> QED BY <2>1, <2>2
<1>5. ASSUME NEW n \in Nat, AfterFailure(n) = "PENDING" PROVE n + 1 < MaxAttempts
  BY <1>5 DEF AfterFailure
<1>6. ASSUME NEW j \in Job, NEW e \in Event, ClaimAndDecide(j, e) PROVE RowInv'
  <2>1. attempts[e] \in Nat
    BY DEF TypeOK, RowType
  <2> QED BY <1>3, <1>5, <1>6, <2>1, AfterFailureType DEF ClaimAndDecide, Eligible
<1>7. ASSUME NEW j \in Job, Finish(j) PROVE RowInv'
  <2> DEFINE e == jobEvent[j]
  <2>1. e \in Event /\ jobAttempts[j] \in Nat
    BY <1>7, RunningJob DEF Finish, TypeOK, JobType
  <2>2. CASE Holds(j)
    <3>1. /\ status[e] \in Open
          /\ attempts[e] = jobAttempts[j]
          /\ pc[j] = "done" => doc.ver >= e
      BY <1>7, <2>2 DEF Finish, Holds, JobInv, JobOK, Busy, Open
    <3>2. Decide(e, Verdict(j)) /\ UNCHANGED version
      BY <1>7, <2>2 DEF Finish
    <3>3. CASE pc[j] = "done"
      BY <1>4, <2>1, <3>1, <3>2, <3>3 DEF Verdict
    <3>4. CASE pc[j] = "fail"
      <4>1. Verdict(j) = AfterFailure(jobAttempts[j])
        BY <3>4 DEF Verdict
      <4>2. Verdict(j) \in {"PENDING", "DEAD_LETTER"}
        BY <2>1, <4>1, AfterFailureType
      <4> QED BY <1>3, <1>5, <2>1, <3>1, <3>2, <4>1, <4>2
    <3>5. CASE pc[j] = "dead"
      BY <1>3, <2>1, <3>1, <3>2, <3>5 DEF Verdict
    <3> QED BY <1>7, <3>3, <3>4, <3>5 DEF Finish
  <2>3. CASE ~Holds(j)
    BY <1>0, <1>7, <2>3 DEF Finish, TypeOK, RowInv, RowOK, row, Event
  <2> QED BY <2>2, <2>3
<1>8. CASE UNCHANGED <<version, status, owner, attempts>>
  BY <1>0, <1>8 DEF RowInv, RowOK, Event
<1> QED BY <1>1, <1>2, <1>6, <1>7, <1>8
        DEF Next, vars, row, LeaseExpires, BackoffElapses, JobStep, IndexSucceeds,
            IndexFails, IndexRejected, IndexTimesOut, EnqueueEmbedding, EnqueueFails,
            JobDies, StrayedPutArrives, EmbedStep, EmbedSucceeds, EmbedFails,
            EmbedGivesUp, ResultExpires

(* The running jobs.  What the others do to the row of a job's event either leaves
   the row alone or makes the job's lease an old one. *)

\* A job whose event is left alone, or given to somebody else, stays as it should be.
LEMMA JobKept ==
  ASSUME TypeOK, JobInv, NEW i \in Job, Busy(i),
         pc'[i] = pc[i], UNCHANGED <<jobEvent[i], jobLease[i], jobRead[i], jobAttempts[i]>>,
         version' \in Nat, version' >= version,
         doc.ver \in Nat, doc'.ver \in Nat, doc'.ver >= doc.ver,
         \/ /\ leaseVersion'[jobEvent[i]] = leaseVersion[jobEvent[i]]
            /\ jobLease[i] = leaseVersion[jobEvent[i]] =>
                 UNCHANGED <<status[jobEvent[i]], owner[jobEvent[i]], attempts[jobEvent[i]]>>
         \/ leaseVersion'[jobEvent[i]] = leaseVersion[jobEvent[i]] + 1
  PROVE  JobOK(i)'
<1>1. /\ jobEvent[i] \in Event
      /\ jobLease[i] \in Nat
      /\ leaseVersion[jobEvent[i]] \in Nat
      /\ jobRead[i] \in Nat
      /\ version \in Nat
      /\ jobEvent[i] \in Nat
      /\ JobOK(i)
  BY BoundsAreNaturals DEF TypeOK, RowType, JobType, JobInv, JobOK, Event
<1> QED BY <1>1 DEF JobOK

\* Every step keeps the invariant of the jobs.
LEMMA JobInvStep ==
  TypeOK /\ RowInv /\ JobInv /\ LeasesDiffer /\ [Next]_vars => JobInv'
<1> SUFFICES ASSUME TypeOK, RowInv, JobInv, LeasesDiffer, [Next]_vars,
                    NEW i \in Job, Busy(i)'
             PROVE  JobOK(i)'
  BY DEF JobInv
<1>0. /\ doc'.ver >= doc.ver /\ doc.ver \in Nat /\ doc'.ver \in Nat
      /\ version \in Nat /\ version' \in Nat
      /\ TypeOK'
  BY DocStep, TypeStep, BoundsAreNaturals DEF TypeOK
<1>a. Busy(i) => /\ jobEvent[i] \in Event /\ jobLease[i] \in Nat
                 /\ JobOK(i)
                 /\ leaseVersion[jobEvent[i]] \in Nat
  BY BoundsAreNaturals DEF TypeOK, RowType, JobType, JobInv, JobOK, Busy, Event
<1>1. CASE Mutate
  <2>1. Busy(i)
    BY <1>1 DEF Mutate, Busy
  <2>2. jobEvent[i] # version + 1
    BY <1>0, <1>a, <2>1 DEF JobOK, TypeOK, JobType, Event
  <2>3. UNCHANGED status[jobEvent[i]] /\ version' >= version
    BY <1>0, <1>1, <1>a, <2>1, <2>2 DEF Mutate, TypeOK, RowType, locals
  <2> QED BY <1>0, <1>1, <2>1, <2>3, JobKept DEF Mutate, locals
<1>2. ASSUME NEW j \in Job, NEW e \in Event, Claim(j, e) PROVE JobOK(i)'
  <2>1. CASE i = j
    <3>1. e <= version
      BY <1>2 DEF Claim, Eligible, RowInv, RowOK, Open, TypeOK, Event
    <3>2. leaseVersion[e] \in Nat /\ HostOf[j] \in Process
      BY JobsHaveHosts DEF TypeOK, RowType
    <3> QED BY <1>0, <1>2, <2>1, <3>1, <3>2
            DEF Claim, JobOK, TypeOK, RowType, JobType, Event
  <2>2. CASE i # j
    <3>1. Busy(i) /\ UNCHANGED <<pc[i], jobEvent[i], jobLease[i], jobRead[i], jobAttempts[i]>>
      BY <1>2, <2>2 DEF Claim, Busy, TypeOK, JobType
    <3>2. \/ /\ jobEvent[i] = e
             /\ leaseVersion'[jobEvent[i]] = leaseVersion[jobEvent[i]] + 1
          \/ /\ jobEvent[i] # e
             /\ UNCHANGED <<leaseVersion[jobEvent[i]], status[jobEvent[i]],
                            owner[jobEvent[i]], attempts[jobEvent[i]]>>
      BY <1>2, <1>a, <3>1 DEF Claim, TypeOK, RowType
    <3> QED BY <1>0, <1>2, <3>1, <3>2, JobKept DEF Claim
  <2> QED BY <2>1, <2>2
<1>3. ASSUME NEW j \in Job, NEW e \in Event, ClaimAndDecide(j, e) PROVE JobOK(i)'
  <2>1. Busy(i) /\ UNCHANGED <<pc[i], jobEvent[i], jobLease[i], jobRead[i], jobAttempts[i]>>
    BY <1>3 DEF ClaimAndDecide, Busy, locals
  <2>2. \/ /\ jobEvent[i] = e
           /\ leaseVersion'[jobEvent[i]] = leaseVersion[jobEvent[i]] + 1
        \/ /\ jobEvent[i] # e
           /\ UNCHANGED <<leaseVersion[jobEvent[i]], status[jobEvent[i]],
                          owner[jobEvent[i]], attempts[jobEvent[i]]>>
    <3>1. CASE jobEvent[i] = e
      BY <1>3, <2>1, <3>1 DEF ClaimAndDecide, TypeOK, RowType
    <3>2. CASE jobEvent[i] # e
      <4>1. UNCHANGED leaseVersion[jobEvent[i]]
        BY <1>3, <1>a, <2>1, <3>2 DEF ClaimAndDecide, TypeOK, RowType
      <4>2. UNCHANGED <<status[jobEvent[i]], owner[jobEvent[i]], attempts[jobEvent[i]]>>
        <5>1. PICK new : Decide(e, new)
          BY <1>3 DEF ClaimAndDecide
        <5> QED BY <1>a, <2>1, <3>2, <5>1 DEF Decide, TypeOK, RowType
      <4> QED BY <3>2, <4>1, <4>2
    <3> QED BY <3>1, <3>2
  <2> QED BY <1>0, <1>3, <2>1, <2>2, JobKept DEF ClaimAndDecide
<1>4. ASSUME NEW j \in Job, NEW step \in {"enqueue", "done", "fail", "dead"},
             pc[j] # "idle", Goto(j, step), UNCHANGED <<version, row>>,
             step = "enqueue" => doc'.ver >= jobEvent[j],
             step = "done" => pc[j] = "enqueue"
      PROVE  JobOK(i)'
  <2>1. CASE i = j
    <3>1. Busy(i) /\ jobEvent[i] \in Nat
      BY <1>4, <2>1 DEF Busy, TypeOK, JobType
    <3>2. pc'[i] = step
      BY <1>4, <2>1 DEF Goto, TypeOK, JobType
    <3>3. step \in {"enqueue", "done"} => doc'.ver >= jobEvent[i]
      BY <1>0, <1>4, <1>a, <2>1, <3>1 DEF JobOK
    <3> QED BY <1>4, <1>a, <3>1, <3>2, <3>3 DEF JobOK, Goto, locals, row
  <2>2. CASE i # j
    BY <1>0, <1>4, <2>2, JobKept DEF Goto, locals, row, Busy, TypeOK, JobType
  <2> QED BY <2>1, <2>2
<1>5. ASSUME NEW j \in Job, Leave(j), UNCHANGED version, UNCHANGED row \/ Finish(j)
      PROVE  JobOK(i)'
  <2>1. i # j
    BY <1>5 DEF Leave, Busy, TypeOK, JobType
  <2>2. Busy(i) /\ UNCHANGED <<pc[i], jobEvent[i], jobLease[i], jobRead[i], jobAttempts[i]>>
    BY <1>5, <2>1 DEF Leave, Busy, TypeOK, JobType
  <2>3. CASE UNCHANGED row
    BY <1>0, <1>5, <2>2, <2>3, JobKept DEF row
  <2>4. CASE Finish(j) /\ Holds(j)
    <3>1. Busy(j) /\ jobEvent[j] \in Event
      BY <2>4, RunningJob DEF Finish, Busy
    <3>2. jobEvent[i] = jobEvent[j] => jobLease[i] # leaseVersion[jobEvent[i]]
      BY <2>1, <2>2, <2>4, <3>1 DEF Holds, LeasesDiffer
    <3>3. UNCHANGED leaseVersion
      BY <2>4 DEF Finish
    <3>4. jobEvent[i] # jobEvent[j] =>
            UNCHANGED <<status[jobEvent[i]], owner[jobEvent[i]], attempts[jobEvent[i]]>>
      BY <1>a, <2>2, <2>4, <3>1 DEF Finish, Decide, TypeOK, RowType
    <3> QED BY <1>0, <1>5, <2>2, <3>2, <3>3, <3>4, JobKept
  <2> QED BY <1>5, <2>3, <2>4 DEF Finish
<1>6. ASSUME NEW j \in Job, JobStep(j) PROVE JobOK(i)'
  <2>1. CASE IndexSucceeds(j)
    <3>1. doc'.ver >= jobEvent[j]
      BY <2>1, RunningJob, PutFacts DEF IndexSucceeds, TypeOK, DocType
    <3> QED BY <1>4, <2>1, <3>1 DEF IndexSucceeds
  <2>2. CASE Finish(j) \/ JobDies(j)
    BY <1>5, <2>2 DEF Finish, JobDies
  <2> QED BY <1>4, <1>6, <2>1, <2>2
          DEF JobStep, IndexFails, IndexRejected, IndexTimesOut, EnqueueEmbedding,
              EnqueueFails
<1>7. CASE UNCHANGED <<version, status, owner, leaseVersion, attempts, pc, locals>>
  <2>1. Busy(i)
    BY <1>7 DEF Busy
  <2> QED BY <1>0, <1>7, <2>1, JobKept DEF locals
<1> QED BY <1>1, <1>2, <1>3, <1>6, <1>7
        DEF Next, vars, row, LeaseExpires, BackoffElapses, StrayedPutArrives, EmbedStep,
            EmbedSucceeds, EmbedFails, EmbedGivesUp, ResultExpires

\* Every step keeps the leases of the running jobs of an event apart.
LEMMA LeasesStep == TypeOK /\ JobInv /\ LeasesDiffer /\ [Next]_vars => LeasesDiffer'
<1> SUFFICES ASSUME TypeOK, JobInv, LeasesDiffer, [Next]_vars PROVE LeasesDiffer'
  OBVIOUS
<1>1. ASSUME NEW j \in Job, NEW e \in Event, Claim(j, e) PROVE LeasesDiffer'
  <2>1. \A i \in Job : i # j /\ Busy(i)' =>
          /\ Busy(i)
          /\ UNCHANGED <<jobEvent[i], jobLease[i]>>
          /\ jobEvent[i] = e => jobLease[i] # leaseVersion[e] + 1
    BY <1>1, RunningJob DEF Claim, Busy, TypeOK, RowType, JobType, JobInv, JobOK
  <2>2. jobEvent'[j] = e /\ jobLease'[j] = leaseVersion[e] + 1
    BY <1>1 DEF Claim, TypeOK, JobType
  <2> QED BY <2>1, <2>2 DEF LeasesDiffer
<1>2. ASSUME NEW j \in Job, Leave(j) PROVE LeasesDiffer'
  BY <1>2 DEF Leave, LeasesDiffer, Busy, TypeOK, JobType
<1>3. ASSUME NEW j \in Job, NEW step \in Steps, Goto(j, step), pc[j] # "idle"
      PROVE  LeasesDiffer'
  BY <1>3 DEF Goto, LeasesDiffer, Busy, locals, TypeOK, JobType
<1>4. CASE UNCHANGED <<pc, locals>>
  BY <1>4 DEF LeasesDiffer, Busy, locals
<1> QED BY <1>1, <1>2, <1>3, <1>4
        DEF Next, vars, Steps, Mutate, ClaimAndDecide, LeaseExpires, BackoffElapses,
            JobStep, IndexSucceeds, IndexFails, IndexRejected, IndexTimesOut,
            EnqueueEmbedding, EnqueueFails, Finish, JobDies, StrayedPutArrives, EmbedStep,
            EmbedSucceeds, EmbedFails, EmbedGivesUp, ResultExpires

(* The index. *)

\* Every step keeps the invariant of the index.
LEMMA IndexStep == TypeOK /\ JobInv /\ IndexInv /\ [Next]_vars => IndexInv'
<1> SUFFICES ASSUME TypeOK, JobInv, IndexInv, [Next]_vars PROVE IndexInv'
  OBVIOUS
<1>0. /\ doc \in DocType
      /\ version \in Nat
      /\ \A r \in strayed : r.ver \in Event /\ r.src \in Event
      /\ \A r \in strayed' : r.ver \in Event /\ r.src \in Event
  BY TypeStep, BoundsAreNaturals DEF TypeOK, DocType, PutRequest
<1>8. \A v \in Event : embed'[v] # "none" => v <= version'
  <2> SUFFICES ASSUME NEW v \in Event, embed'[v] # "none" PROVE v <= version'
    OBVIOUS
  <2>1. version' \in Nat /\ version' >= version
    <3>1. version' = version \/ version' = version + 1
      BY DEF Next, vars, Mutate, Claim, ClaimAndDecide, LeaseExpires, BackoffElapses, JobStep,
             IndexSucceeds, IndexFails, IndexRejected, IndexTimesOut, EnqueueEmbedding,
             EnqueueFails, Finish, JobDies, StrayedPutArrives, EmbedStep, EmbedSucceeds,
             EmbedFails, EmbedGivesUp, ResultExpires
    <3> QED BY <1>0, <3>1
  <2>2. CASE embed[v] # "none"
    BY <1>0, <2>1, <2>2 DEF IndexInv, Event
  <2>3. CASE embed[v] = "none"
    <3>1. PICK j \in Job : EnqueueEmbedding(j) /\ jobRead[j] = v
      <4>1. embed' = embed
              \/ (\E j \in Job : EnqueueEmbedding(j))
              \/ (\E x \in Event : embed[x] # "none" /\ EmbedStep(x))
        BY DEF Next, vars, arq, Mutate, Claim, ClaimAndDecide, LeaseExpires, BackoffElapses,
               JobStep, IndexSucceeds, IndexFails, IndexRejected, IndexTimesOut, EnqueueFails,
               Finish, JobDies, StrayedPutArrives, EmbedStep, EmbedSucceeds, EmbedFails,
               EmbedGivesUp, ResultExpires
      <4>2. ASSUME NEW j \in Job, EnqueueEmbedding(j) PROVE jobRead[j] = v
        BY <2>3, <4>2 DEF EnqueueEmbedding, TypeOK, ArqType
      <4>3. ASSUME NEW x \in Event, embed[x] # "none", EmbedStep(x) PROVE FALSE
        BY <2>3, <4>3 DEF EmbedStep, EmbedSucceeds, EmbedFails, EmbedGivesUp, ResultExpires,
                          Retry, TypeOK, ArqType
      <4> QED BY <2>3, <4>1, <4>2, <4>3
    <3>2. jobRead[j] <= version
      BY <3>1 DEF EnqueueEmbedding, JobInv, JobOK, Busy
    <3> QED BY <1>0, <2>1, <3>1, <3>2 DEF Event
  <2> QED BY <2>2, <2>3
<1>1. ASSUME UNCHANGED doc, version' \in Nat, version' >= version,
             \A r \in strayed' : r \in strayed \/ (r.ver <= r.src /\ r.src <= version)
      PROVE  IndexInv'
  BY <1>0, <1>1, <1>8, BoundsAreNaturals DEF IndexInv, DocType, Event
<1>2. ASSUME NEW v \in Event, NEW s \in Event, Put(v, s), v <= s, s <= version,
             UNCHANGED version, strayed' \subseteq strayed
      PROVE  IndexInv'
  <2>1. doc' = doc \/ (doc'.ver = v /\ doc'.src = s /\ doc'.emb = 0)
    BY <1>0, <1>2, PutFacts
  <2> QED BY <1>0, <1>2, <1>8, <2>1, BoundsAreNaturals DEF IndexInv, DocType, Event
<1>3. ASSUME NEW v \in Event, WriteVector(v), UNCHANGED <<version, strayed>>
      PROVE  IndexInv'
  BY <1>0, <1>3, <1>8, WriteVectorFacts, BoundsAreNaturals DEF IndexInv, DocType, Event
<1>4. CASE Mutate
  BY <1>0, <1>1, <1>4 DEF Mutate
<1>5. ASSUME NEW j \in Job, JobStep(j) PROVE IndexInv'
  <2>1. /\ jobEvent[j] \in Event /\ jobRead[j] \in Event
        /\ jobEvent[j] <= jobRead[j] /\ jobRead[j] <= version
    BY <1>5, RunningJob
       DEF JobInv, JobOK, Busy, JobStep, IndexSucceeds, IndexFails, IndexRejected,
           IndexTimesOut, EnqueueEmbedding, EnqueueFails, Finish, JobDies
  <2>2. CASE IndexSucceeds(j)
    BY <1>2, <2>1, <2>2 DEF IndexSucceeds
  <2>3. CASE IndexTimesOut(j) \/ JobDies(j)
    BY <1>0, <1>1, <2>1, <2>3 DEF IndexTimesOut, JobDies
  <2> QED BY <1>0, <1>1, <1>5, <2>2, <2>3
          DEF JobStep, IndexFails, IndexRejected, EnqueueEmbedding, EnqueueFails, Finish
<1>6. ASSUME NEW r \in strayed, StrayedPutArrives(r) PROVE IndexInv'
  BY <1>0, <1>2, <1>6 DEF StrayedPutArrives, IndexInv
<1>7. ASSUME NEW v \in Event, EmbedStep(v) PROVE IndexInv'
  BY <1>0, <1>1, <1>3, <1>7
     DEF EmbedStep, EmbedSucceeds, EmbedFails, EmbedGivesUp, ResultExpires
<1> QED BY <1>0, <1>1, <1>4, <1>5, <1>6, <1>7
        DEF Next, vars, Claim, ClaimAndDecide, LeaseExpires, BackoffElapses

-----------------------------------------------------------------------------
(* The theorems. *)

\* OutboxInv is an invariant: everything below follows from it.
THEOREM OutboxInvariant == Spec => []OutboxInv
<1>1. OutboxInv /\ [Next]_vars => OutboxInv'
  BY TypeStep, RowStep, JobInvStep, LeasesStep, IndexStep DEF OutboxInv
<1> QED BY InitInv, <1>1, PTL DEF Spec

\* The state stays of its type, for any constants.
THEOREM TypeCorrect == Spec => []TypeOK
<1>1. OutboxInv => TypeOK
  BY DEF OutboxInv
<1> QED BY OutboxInvariant, <1>1, PTL

\* No two running jobs can both pass the compare-and-set of one event.
THEOREM AtMostOneHolder == Spec => []SingleHolder
<1>1. OutboxInv => SingleHolder
  BY DEF OutboxInv, LeasesDiffer, SingleHolder, Holds
<1> QED BY OutboxInvariant, <1>1, PTL

\* No event is tried more often than max_attempts.
THEOREM BudgetKept == Spec => []AttemptBudget
<1>1. OutboxInv => AttemptBudget
  BY DEF OutboxInv, RowInv, RowOK, AttemptBudget
<1> QED BY OutboxInvariant, <1>1, PTL

\* An event that is DONE has fenced off every older document.
THEOREM DoneFences == Spec => []DoneIsFenced
<1>1. OutboxInv => DoneIsFenced
  BY DEF OutboxInv, RowInv, RowOK, DoneIsFenced
<1> QED BY OutboxInvariant, <1>1, PTL

\* No vector in the index is older than the text beside it.
THEOREM VectorsNotOlder == Spec => []VectorNotOlder
<1>1. OutboxInv => VectorNotOlder
  BY DEF OutboxInv, IndexInv, VectorNotOlder
<1> QED BY OutboxInvariant, <1>1, PTL

\* A DONE event is in the index, or was overtaken by a vector: an older document is behind it
\* only if a vector was written into that.  Without the exception the run outbox_stale_index
\* shows the statement violated.
THEOREM DoneIndexes == Spec => []DoneIsIndexedOrEmbedded
<1>1. OutboxInv => DoneIsIndexedOrEmbedded
  <2> SUFFICES ASSUME OutboxInv, NEW e \in Event, status[e] = "DONE", doc.emb = 0
               PROVE  doc.src >= e
    BY DEF DoneIsIndexedOrEmbedded
  <2> QED BY BoundsAreNaturals
          DEF OutboxInv, TypeOK, RowInv, RowOK, IndexInv, Event
<1> QED BY OutboxInvariant, <1>1, PTL

\* What Finish does when the compare-and-set matches: the event was in flight and the
\* job asks for DONE only after the index has reached the event.
LEMMA FinishFacts ==
  ASSUME OutboxInv, NEW j \in Job, Finish(j), Holds(j)
  PROVE  /\ jobEvent[j] \in Event
         /\ Decide(jobEvent[j], Verdict(j))
         /\ status[jobEvent[j]] = "IN_FLIGHT"
         /\ Verdict(j) \in {"DONE", "PENDING", "DEAD_LETTER"}
         /\ Verdict(j) = "DONE" => doc.ver >= jobEvent[j]
<1>1. jobEvent[j] \in Event /\ jobAttempts[j] \in Nat
  BY RunningJob DEF OutboxInv, Finish, TypeOK, JobType
<1>2. JobOK(j)
  BY DEF OutboxInv, JobInv, Busy, Finish
<1>3. AfterFailure(jobAttempts[j]) \in {"PENDING", "DEAD_LETTER"}
  BY <1>1, AfterFailureType
<1>4. /\ Verdict(j) \in {"DONE", "PENDING", "DEAD_LETTER"}
      /\ Verdict(j) = "DONE" => pc[j] = "done"
  BY <1>3 DEF Finish, Verdict
<1> QED BY <1>1, <1>2, <1>4 DEF Finish, Holds, JobOK

\* Every step outside Mutate, Claim, ClaimAndDecide and a matching Finish leaves these
\* columns alone.
LEMMA RowsKept ==
  ASSUME [Next]_vars
  PROVE  \/ Mutate
         \/ \E j \in Job, e \in Event : Claim(j, e) \/ ClaimAndDecide(j, e)
         \/ \E j \in Job : Finish(j) /\ Holds(j)
         \/ UNCHANGED <<version, status, leaseVersion, attempts>>
  BY DEF Next, vars, row, LeaseExpires, BackoffElapses, JobStep, IndexSucceeds,
         IndexFails, IndexRejected, IndexTimesOut, EnqueueEmbedding, EnqueueFails,
         Finish, JobDies, StrayedPutArrives, EmbedStep, EmbedSucceeds, EmbedFails,
         EmbedGivesUp, ResultExpires

\* A decided event stays as it was decided.
THEOREM DecidedStaysDecided == Spec => DecidedForGood
<1>1. ASSUME OutboxInv, [Next]_vars, NEW e \in Event,
             status[e] \in {"DONE", "DEAD_LETTER"}
      PROVE  /\ status'[e] = status[e]
             /\ leaseVersion'[e] = leaseVersion[e]
             /\ attempts'[e] = attempts[e]
  <2>1. CASE Mutate
    BY <1>1, <2>1 DEF Mutate, OutboxInv, TypeOK, RowType, RowInv, RowOK, Event
  <2>2. ASSUME NEW j \in Job, NEW x \in Event, Claim(j, x) \/ ClaimAndDecide(j, x)
        PROVE  e # x /\ UNCHANGED <<status[e], leaseVersion[e], attempts[e]>>
    <3>1. e # x
      BY <1>1, <2>2 DEF Claim, ClaimAndDecide, Eligible, Open
    <3>2. CASE Claim(j, x)
      BY <1>1, <3>1, <3>2 DEF Claim, OutboxInv, TypeOK, RowType
    <3>3. CASE ClaimAndDecide(j, x)
      <4>1. PICK new : Decide(x, new)
        BY <3>3 DEF ClaimAndDecide
      <4> QED BY <1>1, <3>1, <3>3, <4>1
              DEF ClaimAndDecide, Decide, OutboxInv, TypeOK, RowType
    <3> QED BY <2>2, <3>1, <3>2, <3>3
  <2>3. ASSUME NEW j \in Job, Finish(j), Holds(j)
        PROVE  UNCHANGED <<status[e], leaseVersion[e], attempts[e]>>
    <3>1. jobEvent[j] \in Event /\ e # jobEvent[j] /\ Decide(jobEvent[j], Verdict(j))
      BY <1>1, <2>3, FinishFacts
    <3> QED BY <1>1, <2>3, <3>1 DEF Finish, Decide, OutboxInv, TypeOK, RowType
  <2> QED BY <1>1, <2>1, <2>2, <2>3, RowsKept
<1>2. OutboxInv /\ [Next]_vars =>
        [\A e \in Event :
           status[e] \in {"DONE", "DEAD_LETTER"}
             => /\ status'[e] = status[e]
                /\ leaseVersion'[e] = leaseVersion[e]
                /\ attempts'[e] = attempts[e]]_vars
  BY <1>1
<1> QED BY OutboxInvariant, <1>2, PTL DEF Spec, DecidedForGood

\* Only the job that claimed an event last decides it.
THEOREM LastClaimDecides == Spec => DecidedByLastClaim
<1>1. ASSUME OutboxInv, [Next]_vars, NEW e \in Event,
             status[e] = "IN_FLIGHT", status'[e] # "IN_FLIGHT",
             leaseVersion'[e] = leaseVersion[e]
      PROVE  \E j \in Job :
               /\ pc[j] \in {"done", "fail", "dead"}
               /\ jobEvent[j] = e
               /\ jobLease[j] = leaseVersion[e]
               /\ status'[e] = Verdict(j)
               /\ pc'[j] = "idle"
  <2>1. CASE Mutate
    BY <1>1, <2>1 DEF Mutate, OutboxInv, TypeOK, RowType, RowInv, RowOK, Event
  <2>2. ASSUME NEW j \in Job, NEW x \in Event, Claim(j, x) PROVE FALSE
    <3>1. CASE x = e
      BY <1>1, <2>2, <3>1 DEF Claim, OutboxInv, TypeOK, RowType
    <3>2. CASE x # e
      BY <1>1, <2>2, <3>2 DEF Claim, OutboxInv, TypeOK, RowType
    <3> QED BY <3>1, <3>2
  <2>3. ASSUME NEW j \in Job, NEW x \in Event, ClaimAndDecide(j, x) PROVE FALSE
    <3>1. x # e
      BY <1>1, <2>3 DEF ClaimAndDecide, OutboxInv, TypeOK, RowType
    <3>2. PICK new : Decide(x, new)
      BY <2>3 DEF ClaimAndDecide
    <3> QED BY <1>1, <3>1, <3>2 DEF Decide, OutboxInv, TypeOK, RowType
  <2>4. ASSUME NEW j \in Job, Finish(j), Holds(j)
        PROVE  /\ pc[j] \in {"done", "fail", "dead"}
               /\ jobEvent[j] = e
               /\ jobLease[j] = leaseVersion[e]
               /\ status'[e] = Verdict(j)
               /\ pc'[j] = "idle"
    <3>1. jobEvent[j] \in Event /\ Decide(jobEvent[j], Verdict(j))
      BY <1>1, <2>4, FinishFacts
    <3>2. jobEvent[j] = e /\ status'[e] = Verdict(j)
      BY <1>1, <3>1 DEF Decide, OutboxInv, TypeOK, RowType
    <3> QED BY <1>1, <2>4, <3>2 DEF Finish, Holds, Leave, OutboxInv, TypeOK, JobType
  <2> QED BY <1>1, <2>1, <2>2, <2>3, <2>4, RowsKept
<1>2. OutboxInv /\ [Next]_vars =>
        [\A e \in Event :
           status[e] = "IN_FLIGHT" /\ status'[e] # "IN_FLIGHT"
             /\ leaseVersion'[e] = leaseVersion[e]
             => \E j \in Job :
                  /\ pc[j] \in {"done", "fail", "dead"}
                  /\ jobEvent[j] = e
                  /\ jobLease[j] = leaseVersion[e]
                  /\ status'[e] = Verdict(j)
                  /\ pc'[j] = "idle"]_vars
  BY <1>1
<1> QED BY OutboxInvariant, <1>2, PTL DEF Spec, DecidedByLastClaim

-----------------------------------------------------------------------------
(* OutboxDelivery implements OutboxPromise.                                  *)

\* The outcomes of all events, which OutboxPromise sees, and all it sees.
Outcomes == [e \in Event |-> Outcome(e)]
Seen == <<version, doc.ver, doc.src, doc.emb, Outcomes>>

\* An event whose status stays, or stays open, looks the same from outside.
LEMMA SameOutcome ==
  ASSUME NEW e \in Event,
         status'[e] = status[e] \/ (status[e] \in Open /\ status'[e] \in Open)
  PROVE  Outcome(e)' = Outcome(e)
  BY DEF Outcome, Open

\* An outcome that changes alone changes as the promise allows.
LEMMA OneOutcome ==
  ASSUME NEW x \in Event, NEW o,
         \A e \in Event : e # x => Outcome(e)' = Outcome(e),
         Outcome(x)' = o
  PROVE  Outcomes' = [Outcomes EXCEPT ![x] = o]
  BY DEF Outcomes

\* The version of the message is the source, and the first event the next one.
LEMMA MutateProduces ==
  ASSUME OutboxInv, Mutate PROVE Promise!Produce
<1>1. PICK x \in Event : x = version + 1
  BY BoundsAreNaturals DEF Mutate, OutboxInv, TypeOK, Event
<1>2. version' = x /\ doc' = doc /\ status' = [status EXCEPT ![x] = "PENDING"]
  BY <1>1 DEF Mutate
<1>3. Outcome(x)' = "open"
  BY <1>2 DEF OutboxInv, TypeOK, RowType, Outcome
<1>4. \A e \in Event : e # x => Outcome(e)' = Outcome(e)
  BY <1>2 DEF OutboxInv, TypeOK, RowType, Outcome
<1>5. Outcomes' = [Outcomes EXCEPT ![x] = "open"]
  BY <1>3, <1>4, OneOutcome
<1> QED BY <1>1, <1>2, <1>5 DEF Promise!Produce, Outcomes

\* Deciding an open event delivers it, abandons it, or leaves it open.
LEMMA DecideMaps ==
  ASSUME OutboxInv, NEW x \in Event, NEW new \in {"DONE", "PENDING", "DEAD_LETTER"},
         status[x] \in Open, Decide(x, new), UNCHANGED <<version, doc>>,
         new = "DONE" => doc.ver >= x
  PROVE  \/ Promise!Deliver(x)
         \/ Promise!Abandon(x)
         \/ UNCHANGED Seen
<1>1. status' = [status EXCEPT ![x] = new]
  BY DEF Decide
<1>2. \A e \in Event : e # x => Outcome(e)' = Outcome(e)
  BY <1>1 DEF OutboxInv, TypeOK, RowType, Outcome
<1>3. Outcomes[x] = "open"
  BY DEF Outcome, Outcomes, Open
<1>4. CASE new = "PENDING"
  <2>1. \A e \in Event : Outcome(e)' = Outcome(e)
    BY <1>1, <1>2, <1>4 DEF OutboxInv, TypeOK, RowType, Outcome, Open
  <2> QED BY <2>1 DEF Outcomes, Seen
<1>5. CASE new = "DONE"
  <2>1. Outcome(x)' = "done"
    BY <1>1, <1>5 DEF OutboxInv, TypeOK, RowType, Outcome
  <2>2. Outcomes' = [Outcomes EXCEPT ![x] = "done"]
    BY <1>2, <2>1, OneOutcome
  <2> QED BY <1>3, <1>5, <2>2 DEF Promise!Deliver, Outcomes
<1>6. CASE new = "DEAD_LETTER"
  <2>1. Outcome(x)' = "dead"
    BY <1>1, <1>6 DEF OutboxInv, TypeOK, RowType, Outcome
  <2>2. Outcomes' = [Outcomes EXCEPT ![x] = "dead"]
    BY <1>2, <2>1, OneOutcome
  <2> QED BY <1>3, <2>2 DEF Promise!Abandon, Outcomes
<1> QED BY <1>4, <1>5, <1>6

\* A put that gets in is of a version the fence admits.
LEMMA PutMaps ==
  ASSUME OutboxInv, NEW v \in Event, NEW x \in Event, v <= x, x <= version, Put(v, x),
         UNCHANGED <<version, Outcomes>>
  PROVE  UNCHANGED doc \/ Promise!Replace(v)
<1>1. CASE doc.ver > v
  BY <1>1 DEF Put
<1>2. CASE ~(doc.ver > v)
  <2>1. doc' = [ver |-> v, src |-> x, emb |-> 0]
    BY <1>2 DEF Put
  <2>2. doc.ver <= v /\ v <= version /\ x \in v .. version
    BY <1>2, BoundsAreNaturals DEF OutboxInv, TypeOK, Event
  <2> QED BY <2>1, <2>2 DEF Promise!Replace, Outcomes
<1> QED BY <1>1, <1>2

\* A vector that is written is not older than the document, and of a version there has been.
LEMMA VectorMaps ==
  ASSUME OutboxInv, NEW v \in Event, v <= version, WriteVector(v), UNCHANGED <<version, Outcomes>>
  PROVE  UNCHANGED doc \/ Promise!Embed
<1>1. CASE doc' = doc
  BY <1>1
<1>2. CASE doc' # doc
  <2>1. /\ doc'.src = doc.src /\ doc'.emb = v /\ doc.src <= v
        /\ doc.ver > 0 /\ doc'.ver = doc.ver + 1
    BY <1>2, WriteVectorFacts DEF OutboxInv, TypeOK, DocType
  <2>2. v \in doc.src .. version
    BY <2>1, BoundsAreNaturals DEF OutboxInv, TypeOK, Event
  <2> QED BY <2>1, <2>2 DEF Promise!Embed, Outcomes
<1> QED BY <1>1, <1>2

\* What a step that decides nothing does to the index.
LEMMA DocMaps ==
  ASSUME OutboxInv, [Next]_vars, UNCHANGED <<version, Outcomes>>
  PROVE  UNCHANGED doc \/ Promise!Embed \/ \E v \in Event : Promise!Replace(v)
<1> USE DEF OutboxInv
<1>1. ASSUME NEW j \in Job, IndexSucceeds(j)
      PROVE  UNCHANGED doc \/ \E v \in Event : Promise!Replace(v)
  <2>1. /\ jobEvent[j] \in Event /\ jobRead[j] \in Event
        /\ jobEvent[j] <= jobRead[j] /\ jobRead[j] <= version
        /\ Put(jobEvent[j], jobRead[j])
    BY <1>1, RunningJob DEF IndexSucceeds, JobInv, JobOK, Busy
  <2> QED BY <2>1, PutMaps
<1>2. ASSUME NEW r \in strayed, StrayedPutArrives(r)
      PROVE  UNCHANGED doc \/ \E v \in Event : Promise!Replace(v)
  <2>1. /\ r.ver \in Event /\ r.src \in Event /\ r.ver <= r.src /\ r.src <= version
        /\ Put(r.ver, r.src)
    BY <1>2 DEF StrayedPutArrives, TypeOK, PutRequest, IndexInv
  <2> QED BY <2>1, PutMaps
<1>3. ASSUME NEW v \in Event, EmbedStep(v) PROVE UNCHANGED doc \/ Promise!Embed
  <2>1. CASE UNCHANGED doc
    BY <2>1
  <2>2. CASE WriteVector(v) /\ embed[v] = "queued"
    BY <2>2, VectorMaps DEF IndexInv
  <2> QED BY <1>3, <2>1, <2>2
          DEF EmbedStep, EmbedSucceeds, EmbedFails, EmbedGivesUp, ResultExpires
<1> QED BY <1>1, <1>2, <1>3
        DEF Next, vars, Mutate, Claim, ClaimAndDecide, LeaseExpires, BackoffElapses, JobStep,
            IndexFails, IndexRejected, IndexTimesOut, EnqueueEmbedding, EnqueueFails, Finish,
            JobDies

\* Every step of the outbox is a step of the promise, or none.
LEMMA StepMaps ==
  ASSUME OutboxInv, OutboxInv', [Next]_vars
  PROVE  [Promise!Next]_Seen
<1>1. CASE Mutate
  BY <1>1, MutateProduces DEF Promise!Next, Seen, Outcomes
<1>2. ASSUME NEW j \in Job, NEW x \in Event, Claim(j, x)
      PROVE  UNCHANGED Seen
  <2>1. \A e \in Event : Outcome(e)' = Outcome(e)
    BY <1>2, SameOutcome DEF Claim, Eligible, OutboxInv, TypeOK, RowType, Open
  <2> QED BY <1>2, <2>1 DEF Claim, Seen, Outcomes
<1>3. ASSUME NEW j \in Job, NEW x \in Event, ClaimAndDecide(j, x)
      PROVE  [Promise!Next]_Seen
  <2>1. AfterFailure(attempts[x]) \in {"PENDING", "DEAD_LETTER"}
    BY AfterFailureType DEF OutboxInv, TypeOK, RowType
  <2>2. PICK new \in {"PENDING", "DEAD_LETTER"} : Decide(x, new)
    BY <1>3, <2>1 DEF ClaimAndDecide
  <2>3. status[x] \in Open /\ UNCHANGED <<version, doc>>
    BY <1>3 DEF ClaimAndDecide, Eligible
  <2> QED BY <2>2, <2>3, DecideMaps DEF Promise!Next, Seen, Outcomes
<1>4. ASSUME NEW j \in Job, Finish(j), Holds(j)
      PROVE  [Promise!Next]_Seen
  <2>1. /\ jobEvent[j] \in Event /\ Decide(jobEvent[j], Verdict(j))
        /\ status[jobEvent[j]] \in Open
        /\ Verdict(j) \in {"DONE", "PENDING", "DEAD_LETTER"}
        /\ Verdict(j) = "DONE" => doc.ver >= jobEvent[j]
    BY <1>4, FinishFacts DEF Open
  <2>2. UNCHANGED <<version, doc>>
    BY <1>4 DEF Finish
  <2> QED BY <2>1, <2>2, DecideMaps DEF Promise!Next, Seen, Outcomes
<1>5. CASE UNCHANGED <<version, status, leaseVersion, attempts>>
  <2>1. UNCHANGED <<version, Outcomes>>
    <3>1. \A e \in Event : Outcome(e)' = Outcome(e)
      BY <1>5, SameOutcome
    <3> QED BY <1>5, <3>1 DEF Outcomes
  <2> QED BY <2>1, DocMaps DEF Seen, Promise!Next, Outcomes
<1> QED BY <1>1, <1>2, <1>3, <1>4, <1>5, RowsKept DEF Seen

\* The outbox keeps its promise: seen from outside, changes become events, the index is
\* replaced by what is not behind its fence or gets a vector that is not older than it, and an
\* event is done only once the fence has reached it.
THEOREM OutboxKeepsPromise == Spec => KeepsPromise
<1>1. Init => Promise!Init
  BY DEF Init, Promise!Init, Outcome
<1>2. OutboxInv /\ OutboxInv' /\ [Next]_vars => [Promise!Next]_Seen
  BY StepMaps
<1> QED BY <1>1, <1>2, OutboxInvariant, PTL
        DEF Spec, KeepsPromise, Promise!Spec, Seen, Outcomes
=============================================================================
