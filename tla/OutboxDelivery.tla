--------------------------- MODULE OutboxDelivery ---------------------------
(***************************************************************************)
(* The transactional outbox of one mail message and its projection into    *)
(* Elasticsearch.                                                          *)
(*                                                                         *)
(* Mail sync commits every change of a message together with one outbox    *)
(* event.  Outbox jobs, several at a time and several per worker process,  *)
(* claim an event under a fenced lease, PUT the message's document into    *)
(* the tenant index, enqueue an embedding job and finally decide the event *)
(* by a compare-and-set on the lease.  Between two of these steps there is *)
(* an await, so everything else may happen there: the job may die, its     *)
(* lease may expire, another job may claim the same event, the message may *)
(* change, and a PUT the job gave up on may still reach the index.         *)
(*                                                                         *)
(* No statement of the code relates two messages, so one message is all    *)
(* there is here and its events are named by their aggregate_version.      *)
(***************************************************************************)
EXTENDS Integers, FiniteSets

CONSTANTS
  Job,          \* concurrent executions of process_outbox_event_job
  Process,      \* worker processes; ctx["worker_id"] is shared by their jobs
  HostOf,       \* the process each job runs in
  NoOwner,      \* locked_by IS NULL
  MaxVersion,   \* bound: versions of the message
  MaxAttempts,  \* OutboxWorker.max_attempts
  MaxTries,     \* WorkerSettings.max_tries of an ARQ job
  MaxFaults     \* bound: job deaths, overrun leases, strayed PUTs, failed embeddings

ASSUME BoundsAreNaturals ==
  /\ MaxVersion \in Nat
  /\ MaxAttempts \in Nat \ {0}
  /\ MaxTries \in Nat \ {0}
  /\ MaxFaults \in Nat
ASSUME JobsHaveHosts == HostOf \in [Job -> Process] /\ NoOwner \notin Process

Event == 1 .. MaxVersion   \* events, and versions, of the message

VARIABLES
  version,       \* MailMessage.version; 0 before the message exists
  (* columns of outbox_events *)
  status,        \* "absent" until the event is inserted
  owner,         \* locked_by
  live,          \* locked_until >= now
  leaseVersion,
  attempts,      \* attempt_count
  due,           \* next_attempt_at <= now
  (* locals of the running jobs *)
  pc,
  jobEvent,
  jobLease,      \* the lease_version the job acquired
  jobRead,       \* the version of the message the document was built from
  jobAttempts,   \* event.attempt_count as loaded after the claim
  (* Elasticsearch and ARQ *)
  doc,           \* the document: _version, the message version in it, its vector's
  strayed,       \* PUT requests nobody waits for that may still arrive
  embed,         \* the ARQ entry under each embed_job_id
  tries,         \* runs of that entry so far
  faults         \* faults so far

row    == <<status, owner, live, leaseVersion, attempts, due>>
locals == <<jobEvent, jobLease, jobRead, jobAttempts>>
arq    == <<embed, tries>>
vars   == <<version, row, pc, locals, doc, strayed, arq, faults>>

Open == {"PENDING", "IN_FLIGHT"}
Steps == {"idle", "put", "enqueue", "done", "fail", "dead"}
PutRequest == [ver : Event, src : Event]

RowType ==
  /\ status \in [Event -> Open \cup {"absent", "DONE", "DEAD_LETTER"}]
  /\ owner \in [Event -> Process \cup {NoOwner}]
  /\ live \in [Event -> BOOLEAN]
  /\ leaseVersion \in [Event -> Nat]
  /\ attempts \in [Event -> Nat]
  /\ due \in [Event -> BOOLEAN]

JobType ==
  /\ pc \in [Job -> Steps]
  /\ jobEvent \in [Job -> 0 .. MaxVersion]
  /\ jobLease \in [Job -> Nat]
  /\ jobRead \in [Job -> 0 .. MaxVersion]
  /\ jobAttempts \in [Job -> Nat]

ArqType ==
  /\ embed \in [Event -> {"none", "queued", "kept"}]
  /\ tries \in [Event -> Nat]
  /\ faults \in 0 .. MaxFaults

TypeOK ==
  /\ version \in 0 .. MaxVersion
  /\ RowType
  /\ JobType
  /\ doc \in [ver : Nat, src : 0 .. MaxVersion, emb : 0 .. MaxVersion]
  /\ strayed \subseteq PutRequest
  /\ ArqType

Init ==
  /\ version = 0
  /\ status = [e \in Event |-> "absent"]
  /\ owner = [e \in Event |-> NoOwner]
  /\ live = [e \in Event |-> FALSE]
  /\ leaseVersion = [e \in Event |-> 1]
  /\ attempts = [e \in Event |-> 0]
  /\ due = [e \in Event |-> FALSE]
  /\ pc = [j \in Job |-> "idle"]
  /\ jobEvent = [j \in Job |-> 0]
  /\ jobLease = [j \in Job |-> 0]
  /\ jobRead = [j \in Job |-> 0]
  /\ jobAttempts = [j \in Job |-> 0]
  /\ doc = [ver |-> 0, src |-> 0, emb |-> 0]
  /\ strayed = {}
  /\ embed = [e \in Event |-> "none"]
  /\ tries = [e \in Event |-> 0]
  /\ faults = 0

Fault == faults < MaxFaults /\ faults' = faults + 1

-----------------------------------------------------------------------------
(* The producer: one transaction changes the message and inserts its event. *)

Mutate ==
  /\ version < MaxVersion
  /\ version' = version + 1
  /\ status' = [status EXCEPT ![version + 1] = "PENDING"]
  /\ due' = [due EXCEPT ![version + 1] = TRUE]
  /\ UNCHANGED <<owner, live, leaseVersion, attempts, pc, locals, doc, strayed,
                 arq, faults>>

-----------------------------------------------------------------------------
(* The lease of an event row. *)

\* Mutant: an expired lease is never taken over.
EligibleOnlyUnlocked(e) ==
  /\ status[e] \in Open
  /\ due[e]
  /\ owner[e] = NoOwner

\* acquire_outbox_lease's WHERE clause.
Eligible(e) ==
  /\ status[e] \in Open
  /\ due[e]
  /\ owner[e] = NoOwner \/ ~live[e]

\* Mutant: the compare-and-set compares the worker only.
HoldsByWorker(j) == owner[jobEvent[j]] = HostOf[j]

\* update_status_cas's WHERE clause: who and which lease, not whether it expired.
Holds(j) ==
  /\ owner[jobEvent[j]] = HostOf[j]
  /\ leaseVersion[jobEvent[j]] = jobLease[j]

\* Mutant: the lock columns are left as they are.
DecideStillLocked(e, new) ==
  /\ status' = [status EXCEPT ![e] = new]
  /\ attempts' = [attempts EXCEPT ![e] = IF new = "DONE" THEN @ ELSE @ + 1]
  /\ due' = [due EXCEPT ![e] = IF new = "PENDING" THEN FALSE ELSE @]
  /\ UNCHANGED <<owner, live>>

\* update_status_cas's SET clause.
Decide(e, new) ==
  /\ status' = [status EXCEPT ![e] = new]
  /\ owner' = [owner EXCEPT ![e] = NoOwner]
  /\ live' = [live EXCEPT ![e] = FALSE]
  /\ attempts' = [attempts EXCEPT ![e] = IF new = "DONE" THEN @ ELSE @ + 1]
  /\ due' = [due EXCEPT ![e] = IF new = "PENDING" THEN FALSE ELSE @]

\* Mutant: one attempt too many.
AfterFailureTooLate(seen) == IF seen >= MaxAttempts THEN "DEAD_LETTER" ELSE "PENDING"

\* The status a recoverable failure leads to, given the attempts seen so far.
AfterFailure(seen) == IF seen + 1 >= MaxAttempts THEN "DEAD_LETTER" ELSE "PENDING"

\* Mutant: the claim does not advance lease_version.
ClaimUnfenced(j, e) ==
  /\ pc[j] = "idle"
  /\ Eligible(e)
  /\ owner' = [owner EXCEPT ![e] = HostOf[j]]
  /\ live' = [live EXCEPT ![e] = TRUE]
  /\ status' = [status EXCEPT ![e] = "IN_FLIGHT"]
  /\ pc' = [pc EXCEPT ![j] = "put"]
  /\ jobEvent' = [jobEvent EXCEPT ![j] = e]
  /\ jobLease' = [jobLease EXCEPT ![j] = leaseVersion[e]]
  /\ jobRead' = [jobRead EXCEPT ![j] = version]
  /\ jobAttempts' = [jobAttempts EXCEPT ![j] = attempts[e]]
  /\ UNCHANGED <<version, leaseVersion, attempts, due, doc, strayed, arq, faults>>

\* The claim commits together with what the handler reads of the message.
Claim(j, e) ==
  /\ pc[j] = "idle"
  /\ Eligible(e)
  /\ owner' = [owner EXCEPT ![e] = HostOf[j]]
  /\ live' = [live EXCEPT ![e] = TRUE]
  /\ leaseVersion' = [leaseVersion EXCEPT ![e] = @ + 1]
  /\ status' = [status EXCEPT ![e] = "IN_FLIGHT"]
  /\ pc' = [pc EXCEPT ![j] = "put"]
  /\ jobEvent' = [jobEvent EXCEPT ![j] = e]
  /\ jobLease' = [jobLease EXCEPT ![j] = leaseVersion[e] + 1]
  /\ jobRead' = [jobRead EXCEPT ![j] = version]
  /\ jobAttempts' = [jobAttempts EXCEPT ![j] = attempts[e]]
  /\ UNCHANGED <<version, attempts, due, doc, strayed, arq, faults>>

\* Claim and decision in one transaction: the event is refused (its type unknown, its
\* message missing or another tenant's), or the index cannot be provisioned, at all or
\* (ensure_index says retryable) for now.
ClaimAndDecide(j, e) ==
  /\ pc[j] = "idle"
  /\ Eligible(e)
  /\ leaseVersion' = [leaseVersion EXCEPT ![e] = @ + 1]
  /\ \/ Decide(e, "DEAD_LETTER")
     \/ Decide(e, AfterFailure(attempts[e]))
  /\ UNCHANGED <<version, pc, locals, doc, strayed, arq, faults>>

\* locked_until passes.  It passes under a running job only when the job overruns
\* it, which the bound counts; a lease whose job is gone just expires.
LeaseExpires(e) ==
  /\ owner[e] # NoOwner
  /\ live[e]
  /\ live' = [live EXCEPT ![e] = FALSE]
  /\ IF \E j \in Job : pc[j] # "idle" /\ jobEvent[j] = e /\ jobLease[j] = leaseVersion[e]
       THEN Fault
       ELSE UNCHANGED faults
  /\ UNCHANGED <<version, status, owner, leaseVersion, attempts, due, pc, locals,
                 doc, strayed, arq>>

BackoffElapses(e) ==
  /\ status[e] = "PENDING"
  /\ ~due[e]
  /\ due' = [due EXCEPT ![e] = TRUE]
  /\ UNCHANGED <<version, status, owner, live, leaseVersion, attempts, pc, locals,
                 doc, strayed, arq, faults>>

-----------------------------------------------------------------------------
(* The rest of process_outbox_event. *)

Goto(j, step) == pc' = [pc EXCEPT ![j] = step] /\ UNCHANGED locals

\* The handler returns, or is gone; so are its locals.
Leave(j) ==
  /\ pc' = [pc EXCEPT ![j] = "idle"]
  /\ jobEvent' = [jobEvent EXCEPT ![j] = 0]
  /\ jobLease' = [jobLease EXCEPT ![j] = 0]
  /\ jobRead' = [jobRead EXCEPT ![j] = 0]
  /\ jobAttempts' = [jobAttempts EXCEPT ![j] = 0]

\* Mutant: a PUT without a version check.
PutUnversioned(v, s) == doc' = [ver |-> v, src |-> s, emb |-> 0]

\* Mutant: the index counts the versions itself (version_type=internal).
PutInternalVersion(v, s) == doc' = [ver |-> doc.ver + 1, src |-> s, emb |-> 0]

\* PUT with version_type=external_gte: the whole document is replaced, its vector
\* with it, unless the index holds a newer _version.
Put(v, s) ==
  doc' = IF doc.ver > v THEN doc ELSE [ver |-> v, src |-> s, emb |-> 0]

\* index_message answers 200, or 409, which the adapter reports as success.
IndexSucceeds(j) ==
  /\ pc[j] = "put"
  /\ Put(jobEvent[j], jobRead[j])
  /\ Goto(j, "enqueue")
  /\ UNCHANGED <<version, row, strayed, arq, faults>>

\* Mutant: a failed PUT is taken for a success.
IndexFailureIgnored(j) ==
  /\ pc[j] = "put"
  /\ Goto(j, "enqueue")
  /\ UNCHANGED <<version, row, doc, strayed, arq, faults>>

\* 429, 5xx or a network error: not written.
IndexFails(j) ==
  /\ pc[j] = "put"
  /\ Goto(j, "fail")
  /\ UNCHANGED <<version, row, doc, strayed, arq, faults>>

\* Any other status: PermanentElasticsearchError.
IndexRejected(j) ==
  /\ pc[j] = "put"
  /\ Goto(j, "dead")
  /\ UNCHANGED <<version, row, doc, strayed, arq, faults>>

\* The request times out at the client and arrives later.
IndexTimesOut(j) ==
  /\ pc[j] = "put"
  /\ Fault
  /\ strayed' = strayed \cup {[ver |-> jobEvent[j], src |-> jobRead[j]]}
  /\ Goto(j, "fail")
  /\ UNCHANGED <<version, row, doc, arq>>

StrayedPutArrives(r) ==
  /\ r \in strayed
  /\ strayed' = strayed \ {r}
  /\ Put(r.ver, r.src)
  /\ UNCHANGED <<version, row, pc, locals, arq, faults>>

\* enqueue_job under embed_job_id: a no-op while the job or its kept result exists,
\* which the caller cannot tell from success.
EnqueueEmbedding(j) ==
  /\ pc[j] = "enqueue"
  /\ embed' = [embed EXCEPT ![jobRead[j]] = IF @ = "none" THEN "queued" ELSE @]
  /\ Goto(j, "done")
  /\ UNCHANGED <<version, row, doc, strayed, tries, faults>>

\* Redis is unreachable.
EnqueueFails(j) ==
  /\ pc[j] = "enqueue"
  /\ Goto(j, "fail")
  /\ UNCHANGED <<version, row, doc, strayed, arq, faults>>

\* The status the job asks for at the end: DONE, _fail_recoverable's, _dead_letter's.
Verdict(j) ==
  CASE pc[j] = "done" -> "DONE"
    [] pc[j] = "fail" -> AfterFailure(jobAttempts[j])
    [] pc[j] = "dead" -> "DEAD_LETTER"

\* The compare-and-set and its commit.  A job whose lease was taken changes nothing.
Finish(j) ==
  /\ pc[j] \in {"done", "fail", "dead"}
  /\ IF Holds(j)
       THEN Decide(jobEvent[j], Verdict(j)) /\ UNCHANGED leaseVersion
       ELSE UNCHANGED row
  /\ Leave(j)
  /\ UNCHANGED <<version, doc, strayed, arq, faults>>

\* The process crashes or ARQ's job_timeout cancels the job; a PUT it was waiting for
\* may still arrive.
JobDies(j) ==
  /\ pc[j] # "idle"
  /\ Fault
  /\ Leave(j)
  /\ \/ UNCHANGED strayed
     \/ /\ pc[j] = "put"
        /\ strayed' = strayed \cup {[ver |-> jobEvent[j], src |-> jobRead[j]]}
  /\ UNCHANGED <<version, row, doc, arq>>

-----------------------------------------------------------------------------
(* Embedding jobs.  The text is an argument of the job, so nothing is read late. *)

\* Mutant: the script does not look at the document's message_version.
WriteVectorUnguarded(p) ==
  doc' = IF doc.ver = 0
           THEN doc
           ELSE [doc EXCEPT !.emb = p, !.ver = @ + 1]

\* update_embeddings' script, for a vector of version p.  Elasticsearch advances the
\* document's _version with every write; with the script's op = "none" it writes nothing.
WriteVector(p) ==
  doc' = IF doc.ver = 0 \/ doc.src > p
           THEN doc
           ELSE [doc EXCEPT !.emb = p, !.ver = @ + 1]

EmbedSucceeds(v) ==
  /\ embed[v] = "queued"
  /\ WriteVector(v)
  /\ embed' = [embed EXCEPT ![v] = "kept"]
  /\ UNCHANGED <<version, row, pc, locals, strayed, tries, faults>>

\* Run again by ARQ until max_tries, then kept as a failed result.
Retry(v) ==
  /\ tries' = [tries EXCEPT ![v] = @ + 1]
  /\ embed' = [embed EXCEPT ![v] = IF tries[v] + 1 >= MaxTries THEN "kept" ELSE @]

\* The provider or the index fails for now, or the vector is written and the answer
\* (or the process, before ARQ records the result) is lost.
EmbedFails(v) ==
  /\ embed[v] = "queued"
  /\ Fault
  /\ UNCHANGED doc \/ WriteVector(v)
  /\ Retry(v)
  /\ UNCHANGED <<version, row, pc, locals, strayed>>

\* A permanent error, no vector, or a 409 of the _update: the job returns False.
EmbedGivesUp(v) ==
  /\ embed[v] = "queued"
  /\ Fault
  /\ embed' = [embed EXCEPT ![v] = "kept"]
  /\ UNCHANGED <<version, row, pc, locals, doc, strayed, tries>>

\* keep_result elapses: the id may be enqueued again.
ResultExpires(v) ==
  /\ embed[v] = "kept"
  /\ embed' = [embed EXCEPT ![v] = "none"]
  /\ tries' = [tries EXCEPT ![v] = 0]
  /\ UNCHANGED <<version, row, pc, locals, doc, strayed, faults>>

-----------------------------------------------------------------------------
JobStep(j) ==
  \/ IndexSucceeds(j)
  \/ IndexFails(j)
  \/ IndexRejected(j)
  \/ IndexTimesOut(j)
  \/ EnqueueEmbedding(j)
  \/ EnqueueFails(j)
  \/ Finish(j)
  \/ JobDies(j)

EmbedStep(v) ==
  \/ EmbedSucceeds(v)
  \/ EmbedFails(v)
  \/ EmbedGivesUp(v)
  \/ ResultExpires(v)

Next ==
  \/ Mutate
  \/ \E j \in Job, e \in Event : Claim(j, e) \/ ClaimAndDecide(j, e)
  \/ \E e \in Event : LeaseExpires(e) \/ BackoffElapses(e)
  \/ \E j \in Job : JobStep(j)
  \/ \E r \in strayed : StrayedPutArrives(r)
  \/ \E v \in Event : EmbedStep(v)

Spec == Init /\ [][Next]_vars

(***************************************************************************)
(* Every await of a job returns (httpx timeouts, job_timeout), clocks run, *)
(* ARQ keeps running queued jobs, and the poller enqueues every eligible   *)
(* event again and again.  That a job gets to an event in the end needs    *)
(* strong fairness: all jobs may be busy with other events in between.     *)
(***************************************************************************)
Fairness ==
  /\ \A e \in Event : SF_vars(\E j \in Job : Claim(j, e) \/ ClaimAndDecide(j, e))
  /\ \A e \in Event : WF_vars(LeaseExpires(e)) /\ WF_vars(BackoffElapses(e))
  /\ \A j \in Job : WF_vars(JobStep(j))
  /\ \A v \in Event : WF_vars(EmbedStep(v))

FairSpec == Spec /\ Fairness

-----------------------------------------------------------------------------
(* Properties *)

Busy(j) == pc[j] # "idle"

\* At most one running job can pass the compare-and-set of an event, even among the
\* jobs of one process, which all write the same locked_by.
SingleHolder ==
  \A i, j \in Job :
    Busy(i) /\ Busy(j) /\ Holds(i) /\ Holds(j) /\ jobEvent[i] = jobEvent[j] => i = j

\* The row of a claimed event leaves IN_FLIGHT only by the verdict of the job that
\* claimed it last: an overrun job decides nothing, however late it finishes.
DecidedByLastClaim ==
  [][\A e \in Event :
       status[e] = "IN_FLIGHT" /\ status'[e] # "IN_FLIGHT" /\ leaseVersion'[e] = leaseVersion[e]
         => \E j \in Job :
              /\ pc[j] \in {"done", "fail", "dead"}
              /\ jobEvent[j] = e
              /\ jobLease[j] = leaseVersion[e]
              /\ status'[e] = Verdict(j)
              /\ pc'[j] = "idle"]_vars

\* A decided event is never opened again, claimed again or counted again, though jobs
\* that claimed it earlier may still be running.
DecidedForGood ==
  [][\A e \in Event :
       status[e] \in {"DONE", "DEAD_LETTER"}
         => /\ status'[e] = status[e]
            /\ leaseVersion'[e] = leaseVersion[e]
            /\ attempts'[e] = attempts[e]]_vars

\* The attempt budget is kept although attempt_count is read at the claim and
\* incremented at the end, with other claims in between.
AttemptBudget ==
  \A e \in Event :
    /\ attempts[e] <= MaxAttempts
    /\ status[e] \in Open => attempts[e] < MaxAttempts

\* DONE means that Elasticsearch fences off everything older than the event: the
\* document's _version has reached the event's, whatever strayed or was retried.
DoneIsFenced ==
  \A e \in Event : status[e] = "DONE" => doc.ver >= e

\* A vector in the index was made from text at least as new as the document's.
VectorNotOlder == doc.emb # 0 => doc.emb >= doc.src

\* What es_adapter.py takes a 409 for: DONE means that the index holds the message as of the
\* event or newer.  A vector written into an older document advances _version, and the PUT
\* of the event is then refused as old (the run outbox_stale_index).
DoneIsIndexed ==
  \A e \in Event : status[e] = "DONE" => doc.src >= e

\* That is the only way to it: for a DONE event the index holds the message as of the event or
\* newer, or a document into which a vector has been written since it was put there.  No
\* retry, takeover or strayed PUT leaves an older one behind.
DoneIsIndexedOrEmbedded ==
  \A e \in Event : status[e] = "DONE" => doc.src >= e \/ doc.emb # 0

\* Seen from outside all of this is the outbox's promise.
Outcome(e) ==
  IF status[e] = "DONE" THEN "done"
  ELSE IF status[e] = "DEAD_LETTER" THEN "dead"
  ELSE IF status[e] = "absent" THEN "absent"
  ELSE "open"

Promise == INSTANCE OutboxPromise
             WITH source <- version, fence <- doc.ver, held <- doc.src, vector <- doc.emb,
                  outcome <- [e \in Event |-> Outcome(e)]

KeepsPromise == Promise!Spec

\* Every event is decided: delivered, or given up after its attempts.
EventuallyDecided ==
  \A e \in Event : status[e] \in Open ~> status[e] \in {"DONE", "DEAD_LETTER"}

-----------------------------------------------------------------------------
(* The inductive invariant behind these properties. *)

RowOK(e) ==
  /\ status[e] = "absent" <=> e > version
  /\ owner[e] # NoOwner <=> status[e] = "IN_FLIGHT"
  /\ attempts[e] <= MaxAttempts
  /\ status[e] \in Open \cup {"absent"} => attempts[e] < MaxAttempts
  /\ status[e] = "DONE" => doc.ver >= e

RowInv == \A e \in Event : RowOK(e)

\* A running job holds an older lease than its event's, or is the event's only holder.
JobOK(j) ==
  /\ jobEvent[j] \in Event
  /\ jobEvent[j] <= jobRead[j] /\ jobRead[j] <= version
  /\ jobLease[j] <= leaseVersion[jobEvent[j]]
  /\ jobLease[j] = leaseVersion[jobEvent[j]] =>
       /\ status[jobEvent[j]] = "IN_FLIGHT"
       /\ owner[jobEvent[j]] = HostOf[j]
       /\ attempts[jobEvent[j]] = jobAttempts[j]
  /\ pc[j] \in {"enqueue", "done"} => doc.ver >= jobEvent[j]

JobInv == \A j \in Job : Busy(j) => JobOK(j)

LeasesDiffer ==
  \A i, j \in Job :
    Busy(i) /\ Busy(j) /\ jobEvent[i] = jobEvent[j] /\ jobLease[i] = jobLease[j] => i = j

IndexInv ==
  /\ doc.src <= version
  /\ doc.emb # 0 => doc.emb >= doc.src
  /\ doc.emb = 0 => doc.ver <= doc.src
  /\ \A v \in Event : embed[v] # "none" => v <= version
  /\ \A r \in strayed : r.ver <= r.src /\ r.src <= version

OutboxInv == TypeOK /\ RowInv /\ JobInv /\ LeasesDiffer /\ IndexInv
=============================================================================
