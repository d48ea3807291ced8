------------------------------ MODULE MailSync ------------------------------
(***************************************************************************)
(* Synchronisation of one mail folder from the provider.                   *)
(*                                                                         *)
(* Discovery starts a folder sync twice, once through ARQ and once inline, *)
(* whenever the folder's sync state says that it is due.  A run copies the *)
(* stored cursor, takes the folder's fenced lease, and then page by page   *)
(* renews the lease, asks the provider for the changes after its cursor,   *)
(* and in one transaction applies the page and stores the next cursor.     *)
(* Runs die, overrun their lease and are overtaken; pages are fetched      *)
(* outside any transaction, so the folder goes on changing meanwhile; and  *)
(* the provider may reject a cursor it has issued.                         *)
(*                                                                         *)
(* The provider numbers the changes of the folder and remembers what they  *)
(* led to; a cursor is a position among them, together with the period it  *)
(* was issued in, since expiry rejects all the cursors issued so far.      *)
(***************************************************************************)
EXTENDS Integers, FiniteSets

CONSTANTS
  Run,           \* concurrent executions of sync_mailbox_job for the folder
  Process,       \* worker processes; ctx["worker_id"] is shared by their runs
  HostOf,        \* the process each run is in
  None,          \* locked_by IS NULL; no lease given out yet
  NamesAccount,  \* whether a MailFolder has the attribute mail_account
  Msg,           \* provider_message_ids
  MaxChange,     \* bound: changes of the folder at the provider
  MaxPages,      \* max_pages_per_sync
  MaxFaults      \* bound: deaths, overrun leases, provider errors, cursor expiries

ASSUME BoundsAreNaturals ==
  MaxChange \in Nat /\ MaxPages \in Nat \ {0} /\ MaxFaults \in Nat
ASSUME RunsHaveHosts ==
  HostOf \in [Run -> Process] /\ None \notin Process /\ None \notin Run
ASSUME SwitchIsBoolean == NamesAccount \in BOOLEAN

Position == 0 .. MaxChange
Entry == [change : Position, present : BOOLEAN]   \* of a message: its last change
Cursor == [pos : Position, issued : -1 .. MaxFaults]
Start == [pos |-> 0, issued |-> -1]   \* no token: the delta query begins afresh

VARIABLES
  (* the provider *)
  head,          \* the number of changes so far
  folder,        \* after each number of changes, the messages' entries
  period,        \* the period cursors are issued in; older ones get 410
  (* the folder's mail_sync_state row *)
  state,
  token,         \* sync_token
  owner,         \* locked_by
  live,          \* locked_until >= now
  lease,         \* the run lease_version was last given to
  (* mail_messages and this folder's memberships *)
  version,       \* MailMessage.version, which is also its number of outbox events
  content,       \* the change its fields come from
  member,        \* whether it is in the folder
  latest,        \* (history) the moment the last page applied was fetched at
  (* locals of the runs, and the ARQ entry sync:{folder} *)
  pc,
  cursor,        \* the run's sync_token
  page,          \* the page fetched: up to which change, as of when, more to come
  pages,         \* page_count
  arq,
  faults         \* faults so far

provider == <<head, folder, period>>
syncRow  == <<state, token, owner, live, lease>>
mail     == <<version, content, member, latest>>
locals   == <<pc, cursor, page, pages>>
vars     == <<provider, syncRow, mail, locals, arq, faults>>

Page == [to : Position, issued : 0 .. MaxFaults, at : Position, more : BOOLEAN]
NoPage == [to |-> 0, issued |-> 0, at |-> 0, more |-> FALSE]

ProviderType ==
  /\ head \in Position
  /\ folder \in [Position -> [Msg -> Entry]]
  /\ period \in 0 .. MaxFaults

RowType ==
  /\ state \in {"PENDING_INITIAL_SYNC", "SYNCING", "DELTA_TRACKING", "AUTH_REQUIRED", "ERROR"}
  /\ token \in Cursor
  /\ owner \in Process \cup {None}
  /\ live \in BOOLEAN
  /\ lease \in Run \cup {None}

MailType ==
  /\ version \in [Msg -> Nat]
  /\ content \in [Msg -> Position]
  /\ member \in [Msg -> BOOLEAN]
  /\ latest \in Position

RunType ==
  /\ pc \in [Run -> {"idle", "acquire", "renew", "fetch", "apply", "release", "auth", "error"}]
  /\ cursor \in [Run -> Cursor]
  /\ page \in [Run -> Page]
  /\ pages \in [Run -> 0 .. MaxPages]

TypeOK ==
  /\ ProviderType
  /\ RowType
  /\ MailType
  /\ RunType
  /\ arq \in {"none", "queued", "kept"}
  /\ faults \in 0 .. MaxFaults
  /\ period <= faults

Init ==
  /\ head = 0
  /\ folder = [n \in Position |-> [m \in Msg |-> [change |-> 0, present |-> FALSE]]]
  /\ period = 0
  /\ state = "PENDING_INITIAL_SYNC"
  /\ token = Start
  /\ owner = None
  /\ live = FALSE
  /\ lease = None
  /\ version = [m \in Msg |-> 0]
  /\ content = [m \in Msg |-> 0]
  /\ member = [m \in Msg |-> FALSE]
  /\ latest = 0
  /\ pc = [r \in Run |-> "idle"]
  /\ cursor = [r \in Run |-> Start]
  /\ page = [r \in Run |-> NoPage]
  /\ pages = [r \in Run |-> 0]
  /\ arq = "none"
  /\ faults = 0

Fault == faults < MaxFaults /\ faults' = faults + 1

-----------------------------------------------------------------------------
(* The provider. *)

\* A message arrives, is edited or moves away.
FolderChanges(m) ==
  /\ head < MaxChange
  /\ head' = head + 1
  /\ \E here \in BOOLEAN :
       /\ here \/ folder[head][m].present
       /\ folder' = [folder EXCEPT ![head + 1] =
                      [folder[head] EXCEPT ![m] = [change |-> head + 1, present |-> here]]]
  /\ UNCHANGED <<period, syncRow, mail, locals, arq, faults>>

\* From now on every cursor issued so far is answered with 410.
CursorsExpire ==
  /\ Fault
  /\ period' = period + 1
  /\ UNCHANGED <<head, folder, syncRow, mail, locals, arq>>

Expired(c) == c # Start /\ c.issued < period

-----------------------------------------------------------------------------
(* Scheduling. *)

\* _is_sync_due; a folder without a state row is due like a pending one.
Due ==
  \/ state = "PENDING_INITIAL_SYNC"
  \/ state = "SYNCING" /\ ~live

\* sync_mailbox_job, which asks the folder for its mail_account, and then sync_folder up
\* to the lease: the cursor is copied before the lease is taken.
Begin(r) ==
  /\ pc[r] = "idle"
  /\ IF NamesAccount
       THEN /\ pc' = [pc EXCEPT ![r] = "acquire"]
            /\ cursor' = [cursor EXCEPT ![r] = token]
            /\ UNCHANGED <<page, pages>>
       ELSE UNCHANGED locals

\* The cron enqueues the job and, unless its id was taken, also runs it inline.
Discover(r) ==
  /\ Due
  /\ arq = "none"
  /\ arq' = "queued"
  /\ Begin(r)
  /\ UNCHANGED <<provider, syncRow, mail, faults>>

\* ARQ starts the queued job, whether or not the folder is still due by then.
RunQueued(r) ==
  /\ arq = "queued"
  /\ arq' = "kept"
  /\ Begin(r)
  /\ UNCHANGED <<provider, syncRow, mail, faults>>

\* enqueue_folder_sync: a user asks for a sync, in whatever state the folder is.
Requested ==
  /\ arq = "none"
  /\ arq' = "queued"
  /\ UNCHANGED <<provider, syncRow, mail, locals, faults>>

ResultExpires ==
  /\ arq = "kept"
  /\ arq' = "none"
  /\ UNCHANGED <<provider, syncRow, mail, locals, faults>>

-----------------------------------------------------------------------------
(* The lease.  Of lease_version only equality is ever tested, and every     *)
(* acquisition makes a new one: a run's version is the row's exactly as     *)
(* long as nobody acquired the lease after that run.                        *)

\* Mutant: only the worker is compared.
HoldsByWorker(r) == owner = HostOf[r]

\* The WHERE clause of renew_sync_lease, update_sync_state_cas, release_sync_lease.
Holds(r) ==
  /\ owner = HostOf[r]
  /\ lease = r

Goto(r, step) == pc' = [pc EXCEPT ![r] = step] /\ UNCHANGED <<cursor, page, pages>>

Leave(r) ==
  /\ pc' = [pc EXCEPT ![r] = "idle"]
  /\ cursor' = [cursor EXCEPT ![r] = Start]
  /\ page' = [page EXCEPT ![r] = NoPage]
  /\ pages' = [pages EXCEPT ![r] = 0]

Acquire(r) ==
  /\ pc[r] = "acquire"
  /\ IF owner = None \/ ~live
       THEN /\ owner' = HostOf[r]
            /\ live' = TRUE
            /\ lease' = r
            /\ Goto(r, "renew")
       ELSE UNCHANGED <<owner, live, lease>> /\ Leave(r)
  /\ UNCHANGED <<provider, state, token, mail, arq, faults>>

(* The loop over the pages. *)

TooManyPages(r) ==
  /\ pc[r] = "renew"
  /\ pages[r] = MaxPages
  /\ Goto(r, "release")
  /\ UNCHANGED <<provider, syncRow, mail, arq, faults>>

\* renew_sync_lease and its commit.  An expired lease nobody took is revived.
Renew(r) ==
  /\ pc[r] = "renew"
  /\ pages[r] < MaxPages
  /\ IF Holds(r)
       THEN /\ live' = TRUE
            /\ pc' = [pc EXCEPT ![r] = "fetch"]
            /\ pages' = [pages EXCEPT ![r] = @ + 1]
            /\ UNCHANGED <<cursor, page>>
       ELSE UNCHANGED live /\ Leave(r)
  /\ UNCHANGED <<provider, state, token, owner, lease, mail, arq, faults>>

\* get_message_delta answers with a page, at once or after a 401 and a refreshed token:
\* some of the changes after the cursor and a nextLink, or all of them and a deltaLink.
\* Messages come as they are now.
FetchPage(r) ==
  /\ pc[r] = "fetch"
  /\ ~Expired(cursor[r])
  /\ \E to \in cursor[r].pos .. head, more \in BOOLEAN :
       /\ IF more THEN to > cursor[r].pos ELSE to = head
       /\ page' = [page EXCEPT ![r] = [to |-> to, issued |-> period, at |-> head,
                                       more |-> more]]
  /\ pc' = [pc EXCEPT ![r] = "apply"]
  /\ UNCHANGED <<cursor, pages, provider, syncRow, mail, arq, faults>>

\* 410.  except ProviderError comes before except DeltaCursorExpiredError, its
\* subclass: the error is raised again, and the run releases its lease and ends.
CursorRejected(r) ==
  /\ pc[r] = "fetch"
  /\ Expired(cursor[r])
  /\ Goto(r, "release")
  /\ UNCHANGED <<provider, syncRow, mail, arq, faults>>

\* 429, 5xx, a network error or a continuation seen before ("release"); a 401 that
\* refreshing does not cure ("auth"); 403 or 404 ("error").
FetchFails(r) ==
  /\ pc[r] = "fetch"
  /\ Fault
  /\ \E step \in {"release", "auth", "error"} : Goto(r, step)
  /\ UNCHANGED <<provider, syncRow, mail, arq>>

\* The page has one item for each message changed in between, as it is now.
OnPage(r, m) == folder[page[r].to][m].change > cursor[r].pos
Item(r, m) == folder[page[r].at][m]

\* Mutant: a message is updated whether or not anything in it changed.
ArrivesAlways(r, m) == OnPage(r, m) /\ Item(r, m).present

\* _process_provider_message and _process_provider_removal for every item.
Arrives(r, m) ==
  /\ OnPage(r, m) /\ Item(r, m).present
  /\ content[m] # Item(r, m).change \/ ~member[m]
Departs(r, m) == OnPage(r, m) /\ ~Item(r, m).present /\ member[m]

\* Each message they change gets a version, and its event.
ProcessItems(r) ==
  /\ version' = [m \in Msg |-> IF Arrives(r, m) \/ Departs(r, m) THEN version[m] + 1
                                                                 ELSE version[m]]
  /\ content' = [m \in Msg |-> IF Arrives(r, m) THEN Item(r, m).change ELSE content[m]]
  /\ member' = [m \in Msg |-> Arrives(r, m) \/ (member[m] /\ ~Departs(r, m))]
  /\ latest' = page[r].at

\* Mutant: the page is applied without renewing the lease.
ApplyPageUnfenced(r) ==
  /\ pc[r] = "apply"
  /\ ProcessItems(r)
  /\ token' = [pos |-> page[r].to, issued |-> page[r].issued]
  /\ state' = IF page[r].more THEN "SYNCING" ELSE "DELTA_TRACKING"
  /\ cursor' = [cursor EXCEPT ![r] = token']
  /\ page' = [page EXCEPT ![r] = NoPage]
  /\ pc' = [pc EXCEPT ![r] = IF page[r].more THEN "renew" ELSE "release"]
  /\ UNCHANGED <<pages, provider, owner, live, lease, arq, faults>>

\* The page transaction.  Its first statement renews the lease, and so locks the
\* folder's row until the commit: no other run of the folder comes in between.
ApplyPage(r) ==
  /\ pc[r] = "apply"
  /\ Holds(r)
  /\ ProcessItems(r)
  /\ live' = TRUE
  /\ token' = [pos |-> page[r].to, issued |-> page[r].issued]
  /\ state' = IF page[r].more THEN "SYNCING" ELSE "DELTA_TRACKING"
  /\ cursor' = [cursor EXCEPT ![r] = token']
  /\ page' = [page EXCEPT ![r] = NoPage]
  /\ pc' = [pc EXCEPT ![r] = IF page[r].more THEN "renew" ELSE "release"]
  /\ UNCHANGED <<pages, provider, owner, lease, arq, faults>>

\* Mutant: the cursor is committed before the page is.
PageFailsHalfway(r) ==
  /\ pc[r] = "apply"
  /\ IF Holds(r)
       THEN Fault /\ token' = [pos |-> page[r].to, issued |-> page[r].issued]
       ELSE UNCHANGED <<token, faults>>
  /\ Goto(r, "release")
  /\ UNCHANGED <<provider, state, owner, live, lease, mail, arq>>

\* The lease is lost, or a statement fails (a lock wait broken by the database): all
\* of the page is rolled back.
PageFails(r) ==
  /\ pc[r] = "apply"
  /\ IF Holds(r) THEN Fault ELSE UNCHANGED faults
  /\ Goto(r, "release")
  /\ UNCHANGED <<provider, syncRow, mail, arq>>

\* The ways out: release the lease, and on an authorisation or permission error
\* change the state with it.  A run that lost its lease changes nothing.
Release(r) ==
  /\ pc[r] \in {"release", "auth", "error"}
  /\ IF Holds(r)
       THEN /\ state' = IF pc[r] = "auth" THEN "AUTH_REQUIRED"
                      ELSE IF pc[r] = "error" THEN "ERROR" ELSE state
            /\ owner' = None
            /\ live' = FALSE
       ELSE UNCHANGED <<state, owner, live>>
  /\ Leave(r)
  /\ UNCHANGED <<provider, token, lease, mail, arq, faults>>

\* The process crashes, job_timeout cancels the run (sync_folder does not catch
\* CancelledError), or no access token can be loaded at its start.
RunDies(r) ==
  /\ pc[r] # "idle"
  /\ Fault
  /\ Leave(r)
  /\ UNCHANGED <<provider, syncRow, mail, arq>>

\* locked_until passes; under the run that holds the lease only if it overruns it.
LeaseExpires ==
  /\ owner # None
  /\ live
  /\ live' = FALSE
  /\ IF \E r \in Run : Holds(r) /\ pc[r] \notin {"idle", "acquire"}
       THEN Fault
       ELSE UNCHANGED faults
  /\ UNCHANGED <<provider, state, token, owner, lease, mail, locals, arq>>

-----------------------------------------------------------------------------
RunStep(r) ==
  \/ Acquire(r)
  \/ TooManyPages(r)
  \/ Renew(r)
  \/ FetchPage(r)
  \/ CursorRejected(r)
  \/ FetchFails(r)
  \/ ApplyPage(r)
  \/ PageFails(r)
  \/ Release(r)
  \/ RunDies(r)

Next ==
  \/ \E m \in Msg : FolderChanges(m)
  \/ CursorsExpire
  \/ \E r \in Run : Discover(r) \/ RunQueued(r)
  \/ Requested
  \/ ResultExpires
  \/ LeaseExpires
  \/ \E r \in Run : RunStep(r)

Spec == Init /\ [][Next]_vars

(***************************************************************************)
(* The cron ticks for ever, ARQ runs what is queued and forgets results,   *)
(* leases time out, and every await of a run returns.  Nothing makes the   *)
(* folder change, a cursor expire or a user ask for a sync.  That the cron *)
(* gets to the folder is more than the code gives: it takes 50 accounts in *)
(* the order of last_sync_at, which nothing writes.  This fairness serves  *)
(* only to show that not even with it a folder settles (sync_unreachable). *)
(***************************************************************************)
Fairness ==
  /\ WF_vars(\E r \in Run : Discover(r))
  /\ WF_vars(\E r \in Run : RunQueued(r))
  /\ WF_vars(ResultExpires)
  /\ WF_vars(LeaseExpires)
  /\ \A r \in Run : WF_vars(RunStep(r))

FairSpec == Spec /\ Fairness

-----------------------------------------------------------------------------
(* Properties *)

\* The rows of m are those of the folder after its first n changes.
Shows(m, n) ==
  IF folder[n][m].present
    THEN member[m] /\ content[m] = folder[n][m].change
    ELSE ~member[m]

\* Every message is shown as it was after the first p changes, or later.
Covers(p) == \A m \in Msg : \E n \in p .. head : Shows(m, n)

\* The stored cursor never passes a change that is not in the database.  What the
\* provider will not send again has been applied, whichever runs died, overran or
\* overtook each other.
NothingSkipped == Covers(token.pos)

\* Pages that are fetched again after a death or a rollback, or from a cursor copied
\* before the lease was taken, make no versions and no events.
Changes(m, n) == {k \in 1 .. n : folder[k][m].change = k}
ReplaysAreSilent == \A m \in Msg : version[m] <= Cardinality(Changes(m, head))

\* Seen from outside, the folder's rows go through snapshots of the provider's folder, each as
\* new as the last or newer, each in one step with the cursor that says what it holds and with
\* one event for every message it changes.  An older state of a message never replaces a newer
\* one, although pages are fetched outside the transaction that applies them and the cursor
\* itself may move back (sync_folder and its page transaction).
Promise == INSTANCE SyncPromise WITH reached <- token.pos

RowsFollowFolder == Promise!Spec

Unsettled == state \in {"PENDING_INITIAL_SYNC", "SYNCING"}

\* What the tests of mail sync assert: a folder that needs a sync gets it, unless its cursor
\* expires.
EventuallySettled == Unsettled ~> (~Unsettled \/ Expired(token))

-----------------------------------------------------------------------------
(* The inductive invariant behind NothingSkipped, ReplaysAreSilent and RowsFollowFolder. *)

\* A message's entry stays what it is until the next change of the message.
HistoryOK(m) ==
  \A n \in 0 .. head :
    /\ folder[n][m].change <= n
    /\ \A i \in 0 .. n :
         /\ folder[i][m].change <= folder[n][m].change
         /\ folder[n][m].change <= i => folder[i][m] = folder[n][m]

\* The fields of a message come from one of its changes.
ContentOK(m) ==
  content[m] <= latest /\ folder[content[m]][m].change = content[m]

CursorOK(c) == c.pos <= latest /\ Covers(c.pos)

\* A page fetched under a lease that is still held is as new as everything stored.
PageOK(r) ==
  /\ cursor[r].pos <= page[r].to /\ page[r].to <= page[r].at /\ page[r].at <= head
  /\ Holds(r) => latest <= page[r].at

FolderInv == latest <= head /\ \A m \in Msg : HistoryOK(m) /\ ContentOK(m)
CursorInv == CursorOK(token) /\ \A r \in Run : CursorOK(cursor[r])
PageInv == \A r \in Run : pc[r] = "apply" => PageOK(r)

\* A message's rows show a state up to which it has had at most one version for each change.
Accounted(m) ==
  \E n \in 0 .. latest : Shows(m, n) /\ version[m] <= Cardinality(Changes(m, n))
VersionInv == \A m \in Msg : Accounted(m)

SyncInv == TypeOK /\ FolderInv /\ CursorInv /\ PageInv /\ VersionInv
=============================================================================
