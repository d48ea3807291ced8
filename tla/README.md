# A verification of the Mail Intelligence Platform

The platform reads mail from a provider (Microsoft Graph) into PostgreSQL, projects it
through a transactional outbox into Elasticsearch, adds embeddings, and answers searches
from there. What happens to a message between the provider and the index is done by ARQ
workers, several processes with up to ten jobs each, that share nothing but database rows,
Redis and the index, and that may be cut off at any `await`. An API signs users in, admits
their requests and lets them read through search results page by page. The correctness of
all this rests on fenced leases, compare-and-set updates, version numbers, row locks and
cursors, and it is what these TLA+ modules model, check with TLC and, for every value of the
parameters, prove with TLAPS.

Contents: 1 Inventory - 2 Plan - 3 The modules and the code - 4 What is checked -
5 Fairness - 6 What is proved - 7 Where code and documents disagree - 8 What is not
modelled.

## 1 Inventory

| component | state it keeps | operations | what makes it correct |
|---|---|---|---|
| **Outbox projection** (`mip_workers/outbox_worker.py`, `es_adapter.py`, `repositories/mail.py`) | rows of `outbox_events` (status, lock, lease_version, attempts, next attempt), Elasticsearch documents, ARQ entries | poll, claim, index, enqueue the embedding, decide; embed a message | an event has one owner; every event is decided once and for good; DONE means that the index refuses what is older; no vector is older than its text |
| **Mail folder sync** (`services/sync_orchestrator.py`, `worker.py`) | `mail_sync_state` (state, cursor, lease), messages, memberships, participants | discover, take and renew the lease, fetch a page, apply it, release | no change is skipped; nothing older replaces newer; replays are harmless |
| **Credential refresh** (`services/identity_provider.py`, `worker.py`, `identity/entra.py`) | `mail_accounts` (status, credential_generation, refresh lease), `provider_credentials` | load, refresh, store, mark for reconnection; park a folder | one refresh at a time; no pair of tokens is lost; AUTH_REQUIRED and reauth_required have a cause |
| **Polling and ARQ** (`worker.py`) | Redis: queued jobs and kept results by job id | crons every 10 s and 15 min; dedup by id; retries | whatever is due is run in the end |
| **Device sessions** (`auth/sessions.py`, `api/auth/router.py`) | `device_sessions`, `refresh_token_families` | create, refresh (rotate), revoke, log out | a refresh token is good for one rotation; revocation is final and has a cause; a client that loses nothing keeps its access |
| **Embedding backfill** (`backfill.py`) | `embedding_backfill_progress`, vectors in the documents | start or resume, fetch a batch, embed, write, checkpoint, obey a cancellation | no message is passed over; single runs count right; no vector is older than its text |
| **Login callback** (`identity_provider.py`, `repositories/identity_provider.py`) | OAuth states, identities, users, memberships, login credentials | begin, consume the state, redeem the code, resolve the tenant, provision, commit | a state is consumed once; users are provisioned whole; an identity has one user |
| **Request admission** (`auth/middleware.py`, `auth/context.py`, `database.py`) | none of its own: reads session, tenant, membership, identity, role; holds pooled connections | verify the token, five SELECTs, build the context, call the endpoint | an endpoint's context was in force; nobody is refused without a cause; no request starves |
| **Search** (`search/service.py`, `search/nl_service.py`, `search/elasticsearch_search.py`) | none; the reader carries a cursor | translate a plan, search, page, by request or by words | pages make one list; a cursor fits its request; a phrase's window is what it says |
| **Account lifecycle** (`mail/service.py`) | accounts, credentials | connect, deactivate, request a sync | neither disturbs a run under way |
| **LLM gateway, parsing, policy, configuration** | none, or per process | call models, convert, check roles | pure functions and reads |
| **Webhook, frontend, infrastructure** | none | stubs, static pages, containers | - |

How they interact. Discovery and the poller read rows and enqueue ARQ jobs. A sync run
refreshes the account's credentials before it fetches (a call), and commits messages
together with outbox events (shared rows). An outbox job reads the message again, PUTs it,
and enqueues an embedding job (a message through Redis), which writes into the same
document (shared state), as the backfill does for messages that were there before. The API
changes the same account rows by requests of users; every such request first passes the
middleware, which reads the rows that login, refresh and logout write.

The hard behaviours: two executions of the same job, after a lease ran out or by design
(discovery enqueues a sync *and* runs it); a job that dies between any two awaits; state
read before a network call and used after it (`attempt_count`, the cursor, the refresh
token); rows loaded once and trusted twice, because a session returns the object it already
has; requests that arrive after their sender gave up; job ids that stay taken after the job;
a list that changes while it is paged through; errors classified by class, order of `except` clauses, or text. `PROJECT.json` lists
each at its line, with the property that covers it or the reason why none does yet.

## 2 Plan

Written, in this order (most important first):

1. `OutboxDelivery` with its abstract specification `OutboxPromise`, and the proofs of its
   invariant, properties and refinement.
2. `MailSync`: one folder, with its abstract specification `SyncPromise`; proofs of its
   invariant, its properties and the refinement.
3. `CredentialRefresh`: one account and the runs of its folders; proofs likewise.
4. `DeviceSessions`: the sessions of one user; proofs of all its properties.
5. `EmbeddingBackfill`: the runs of one tenant and model; proofs of all its properties.
6. `RequestAdmission`: the middleware's reads and the connections; proofs of its safety.
7. `LoginCallback`: state, code and provisioning; proofs of its safety.
8. `DateWindows`, the translation of date phrases against a reference, and `MailSearch`,
   which reads pages with it; proofs of its invariant, of the pages and of the windows.

With these every safety property that a run checks has a theorem. To come:

9. `PageTransactions`: the page transactions of two folders of one account over shared
   messages, with row locks and unlocked reads; versions, memberships and events agree.
10. `OutboxPolling`: ARQ's id deduplication over `outbox:{event}:{lease_version}`, queued,
    running and kept entries, composed with the event lease; it would replace the fairness
    assumed of claims today.
11. Deactivation in `CredentialRefresh`, and with it the unfenced `reauth_required`.
12. More pure algorithms against reference definitions: backoff, error classification,
    `_process_provider_message`'s merge of partial fields.
13. The composition of `SyncPromise` with `OutboxPromise` through the message versions: what
    is in the index, seen from the provider's folder.
14. Abstract specifications of `CredentialRefresh` (a sequence of pairs, the newest kept) and
    `DeviceSessions` (sessions that are open or revoked), and their refinements.

## 3 The modules and the code

`PROJECT.json` maps each definition to the lines it models. The conventions are the same
everywhere: a transaction is one action; between two awaits that commit or talk to the
outside anything may happen; locals of a job are functions on jobs, reset when it ends; a
crash is an action that just forgets the locals (the rows stay). A lock is a pair of
columns, `owner` for `locked_by` and `live` for "`locked_until` has not passed", so time
itself is not in the models. All jobs of a process write the same `locked_by`
(`ctx["worker_id"]`): that is why the small instances put both jobs into **one** process,
the harder case, where only `lease_version` tells them apart.

### OutboxDelivery

One message and its events, named by `aggregate_version`. `Mutate` is the transaction of
mail sync that inserts event `version + 1`. `Claim` is `acquire_outbox_lease` with the
reads of event and message that commit with it (line 297); `ClaimAndDecide` the early
`_dead_letter` / `_fail_recoverable` of the same transaction. `IndexSucceeds`,
`IndexFails`, `IndexRejected`, `IndexTimesOut` are the outcomes of the PUT, `Put` what
Elasticsearch does with `version_type=external_gte`; a PUT the client gave up on is put
into `strayed` and may arrive at any later time. `EnqueueEmbedding` is `enqueue_job` under
`embed_job_id`, a no-op while the id's entry or result exists. `Finish` is
`update_status_cas` with the status `Verdict` gives. `EmbedSucceeds`, `EmbedFails`,
`EmbedGivesUp` and `ResultExpires` are `embed_message_job` and ARQ's bookkeeping;
`WriteVector` is the scripted `_update`, with its guard on `message_version`. As in any
Elasticsearch it advances the document's `_version` by one, the number the PUTs' external
versions are compared with: so `doc.ver`, what the index refuses, may be ahead of `doc.src`,
what it holds. `es_adapter.py` supposes that the two are one (`DoneIsIndexed`, section 7);
what is true is `DoneIsIndexedOrEmbedded`.

Abstractions: `is_deleted` is never set by the code in `src/`, so documents are never
deletions; Redis is configured (without it no embedding is enqueued at all); the three
reads of a claim (message, participants, memberships) are one, see the hazard about torn
reads; errors are told apart by what the handler does about them.

`OutboxPromise` is what the rest of the system may rely on: events open as the message
changes; the index holds the message as of some version behind a fence that only moves
forward; what is behind the fence does not get in, a vector is not older than what is held,
an event becomes done only when the fence has reached it, and done or dead is final. That
what is held is not older than a done event it does *not* promise, since a vector moves the
fence as well. The mapping takes `fence` to the document's `_version`, `held` and `vector` to
the versions of the message its text and its vector come from, and `outcome` to the status,
PENDING and IN_FLIGHT being both "open".

### MailSync

One folder. The provider numbers the folder's changes; `folder[n]` is what the folder
holds after `n` of them, so that a cursor is a position and a page "the messages changed
after the cursor, up to `to`, as they were at the time of the call". `Discover` is one
tick of the cron for the folder: `_is_sync_due`, `enqueue_job` under `sync:{folder}` and,
unless the id was taken, the inline call as well. `Requested` is the same enqueue by a
user's request. `Begin` copies the cursor (sync_orchestrator.py:136) before `Acquire`
takes the lease. `Renew`, `FetchPage` / `CursorRejected` / `FetchFails`, `ApplyPage` /
`PageFails` are the steps of the loop, `Release` the ways out. `ApplyPage` is one action
because its first statement, `renew_sync_lease`, locks the row until the commit.
`ProcessItems` gives each message an item changes one more `version`, as the code does
when `aggregate_changed`.

Of `lease_version` the code only ever tests equality, and every acquisition makes a fresh
one: so `lease` is the run that acquired last. A run that has begun again has locals of its
own, and the previous holder is gone from `Run` by then, so nothing is lost by that.

`latest`, the moment the last applied page was fetched at, is a history variable: no guard
reads it. `SyncPromise` is what the rest of the system may rely on, and what `RowsFollowFolder`
says of `MailSync`: there are no runs, leases or pages, only snapshots. `Refresh(some, at)`
makes the rows of some messages what the folder was at a moment, never an earlier one than
the last time, gives every message whose rows change one version (and with it one event, the
`Mutate` of `OutboxDelivery`), and moves the cursor to where the rows cover the folder. That
fields never go back, and that pages fetched again make no versions, is true of `SyncPromise`
already. The mapping takes `reached` to the position of `sync_token`, the rest to itself.

`NamesAccount` is TRUE for a `MailFolder` with the attribute `mail_account`, which
`sync_mailbox_job` reads. **The model class does not define it** (section 7); the tests'
fakes do. Everything checked and proved about `MailSync` beyond that finding, and the sync
runs in `CredentialRefresh`, are about the code as its tests run it, with the attribute.

Abstractions: a message's fields are the number of the change they come from; the
account stays connected; the access token is loaded (a run that gets none dies). The
resynchronisation branch behind `except DeltaCursorExpiredError` (and with it
`resync_generation` and `_reconcile_stale_memberships`, which only that branch leads to)
is unreachable and so is not modelled: `CursorRejected` is what a 410 does.

### CredentialRefresh

One account and one run per folder: the folder's own lease lets no second one get this
far. Pairs of tokens are numbered in the order they were issued, pair 0 being the login's.
`spent` is the line below which access tokens have run out. The provider takes the newest
refresh token as long as the consent stands (`Acceptable`), and may take or refuse one it
has replaced (`Refusable`): providers rotate or do not. `Begin` reads the account and with
it `expected_generation`, `Load` the credential, which may look expired; a 401
(`Unauthorized`) refreshes once more with no expectation. `AcquireRefresh`, `Contended`,
`AlreadyRefreshed`, `GiveBack`, `ProviderIssues` / `ProviderRefuses` / `CallFails`,
`Store`, `ReleaseRefused` and `MarkReauth` are `refresh_mail_account_credentials`, one
action per transaction or call. `KeepLoaded` and `ReadToSend` model SQLAlchemy's identity
map: a select inside the same session answers with the object already loaded, as
`expire_on_commit=False` keeps it.

`Explains` is whether the error of a refusal contains the provider's reason; `Reconnect`
is `connect_account` for an existing account, which copies the login's pair without
lease or generation and therefore counts as a fault. Since a returning user's login cannot
store another pair (hazard at identity_provider.py:667), that pair is always pair 0.

### DeviceSessions

The sessions of one user, and the requests that refresh them or end them. A request is one
transaction: `get_db` commits when the endpoint returns and rolls back when it raises. So a
request's writes appear when it commits (`CommitRotation`, `CommitRevocation`), and
whatever it has locked until then is derived from its step (`HoldsEpoch`, `HoldsSession`).
`LockEpoch` / `EpochRefused` and `LockSession` are the two SELECT ... FOR UPDATE of
`refresh_session` with the checks behind them; `Refuse` is where the endpoints differ:
`/auth/token` turns the error into a response, and the revocation before it is committed,
`/auth/refresh` lets it out, and it is rolled back. `TenantPasses` / `TenantFails` is the
look at the tenant after the rotation is written; operators switch tenants, no code in
`src/` does, so either may happen. `Find` is the unlocked SELECT of the logouts,
`RevokeOne` and `RevokeAll` their UPDATEs. That of `revoke_all_for_user` goes through the rows
of its snapshot (`todo`) in an order of the database's, one `RevokeRow` after the other, and
keeps those it has locked (`dying`) while it waits for the next; `AllRevoked` is its end. Where
requests wait for each other in a circle (`OnCircle`), `DeadlockDetected` is the error by which
PostgreSQL breaks it. `AnswerEarly` is there because the FastAPI
versions `pyproject.toml` admits differ in whether a dependency is left before or after the
response is sent; `AnswerLost` and `Abort` are the faults.

Here time is modelled, by a `clock`: `refresh_session` reads it before it waits for its
locks, and a session's age is judged by that reading (`Late`).

Abstractions: a login is one step. The middleware only reads: it revokes a session that is
too old and then raises, and the revocation is rolled back.

### EmbeddingBackfill

The runs of `backfill_tenant_embeddings_job` for one tenant and model. `row` is the progress
row; nothing leases it, so two runs may share it. `obj` is the object a run's session has
of the row and `base` what was last loaded or written: `Flush` writes the columns in which
they differ, as SQLAlchemy's UPDATE does, over whatever another run has written. `Start`
and `Create` are `_get_or_create_progress` (the second insert violates the unique key),
`Begin` the commit of IN_PROGRESS, `Fetch` `_fetch_batch`, `Embed` / `EmbedFails` the
provider's answers, `Write` one message of the batch, `Checkpoint` the commit of cursor and
counters, `Refresh` the look for a cancellation, `Finish` and `Fail` the ends of `run()`.
`MessageChanges` and `Indexed` are mail sync and the outbox, seen from here. `Cancelled` is
an operator's: the code reads CANCELLED and nothing in `src/` writes it.

Abstractions: `total_embedded` and `total_skipped` are one number. Ids are numbers in the
order the database compares them; a message created meanwhile may get an id below the
cursor (they are UUIDs), and the run leaves it to the outbox, which is why the properties
speak of messages mail sync has not `touched`.

### RequestAdmission

One user and one tenant, and the requests of the user's tokens. Each SELECT of
`AuthenticationMiddleware.dispatch` is a step, since the database runs READ COMMITTED and
another transaction may commit between two of them. Loading the tenant loads its
memberships and roles with it (`lazy="selectin"`), as steps of their own, and a later
SELECT of a membership returns the loaded object (`Mapped`): only its WHERE looks at the row
as it is by then. `Connected` is the set of requests that hold a connection: from the first
SELECT to `aclose()`, and again inside the endpoint, but not in between. Revocations,
lapses, changes of tenant, membership, grants and identities are transactions of others;
`Seed` is `seed_roles.py`. `DeleteRole` deletes a role no membership names any more, with its
permissions, as the foreign keys have it; `RoleRefused` is the branch `role is None` of the
middleware, for a membership whose copy names such a role. A step with a pending UPDATE (the revocation of a session found
expired) changes nothing, because the exception that follows rolls it back.

`seen` records what was the case at any moment since a request arrived; it is read by the
properties only.

Abstractions: roles are deleted but not created (one that is created has an id of its own,
and `seed_roles.py` gives a system role it makes anew another id as well), and neither the
tenant nor the membership is deleted: they are deactivated.

### LoginCallback

Login attempts, and the callbacks that bring their states back. A callback is one
transaction, from the UPDATE of `consume_state` to the router's commit. What it has locked
or inserted until then is derived from its step (`StateFree`, `EmailFree`,
`IdentityFree`), and its rows appear with `Commit`. `Consume`, `Exchange`, `Resolve`,
`FindIdentity`, `InsertUser`, `InsertMembership`, `InsertIdentity` are `handle_callback` and
`_jit_provision_user` in their order; a condition that fails rolls everything back, the
consumption of the state included. The provider redeems a code once (`spent`) and notes one
that is presented again (`replayed`), which by OAuth 2.0 may cost the first its tokens.
`FindIdentity` fails for a person who has an identity: the code reads
`identity.user.tenant_id`, which `User` does not have.

Abstractions: ID token, nonce and PKCE checks are the outcome `AnswerLost`; the tenant
mapping and the tenant are one switch, `accepting`; the branch that links a second login to
a user is not reached by the code.

### DateWindows and MailSearch

`DateWindows` is arithmetic: days since 1 January 2022, months, weekdays and leap years, a
zone as a number of hours, `Window` as `translate_date_range_intent` computes it, and
`Means`, which says of any day whether a phrase means it, as the reference `IsRight`
compares with. A moment is an hour's first or last, since the code's windows begin and end
at nothing finer than an hour but for the microsecond before the next. Fixed zones leave
clock changes out.

`MailSearch` is one reader who goes through the pages, by repeating a `MailSearchRequest`
(`SearchMail`) or by repeating words, which are understood anew for each page
(`SearchNatural`: a plan, `Unsupported` or `Requested`). `Hits`, `Score` and `SortKey` are the
query body; `PagesOf` and `NextCursor` the answer. Whether the query's text gets a vector
is open at every page, an index that takes three seconds answers with part of it
(`timeout: 3s`), and between two pages the index may change or midnight pass. Of the text
scores nothing is assumed; hints are resolved to none, one or many entities.

Two assumptions on the constants: there are finitely many messages, and a reading begins in
2024 or later (`MomentsAreLate`), as `DateWindows` has no years before 2022 and "last year"
of an earlier moment would be one of them. Zones are less than a day. Every fourth year is a
leap year, which is right until February 2100. Of messages whose vector
scores tie for the last place `Nearest` takes all, where the `k` of the query stops at a page.

## 4 What is checked

Passing runs (the type invariant is a conjunct of each module's `...Inv`):

| run | instance | distinct states | properties |
|---|---|---|---|
| `outbox_lease` | 2 jobs in 1 process, 2 versions, 2 attempts, 2 tries, 2 faults | 1 186 853 | `OutboxInv`, `SingleHolder`, `AttemptBudget`, `DoneIsFenced`, `VectorNotOlder`, `DecidedByLastClaim` |
| `outbox_index` | the same with 1 fault and fairness | 87 995 | `DoneIsIndexedOrEmbedded`, `KeepsPromise` (refinement), `EventuallyDecided` (liveness) |
| `mail_sync` | 2 runs in 1 process, 2 messages, 2 changes, 1 page a run, 1 fault | 272 850 | `SyncInv`, `NothingSkipped`, `ReplaysAreSilent`, `RowsFollowFolder` (refinement) |
| `credentials` | 2 folders in 1 process, 3 pairs after the first, 2 faults, explained refusals | 2 766 154 | `CredentialInv`, `RefreshNotRepeated`, `PairNotLost`, `ReauthHasCause`, `NeverOlderPair` |
| `device_sessions` | 2 sessions, 2 requests at once, 4 tokens, clock to 2, 1 fault, symmetric | 2 062 334 | `SessionInv`, `ChainHasOneEnd`, `HolderKeepsAccess`, `CirclesAreOfRevocations`, `RevokedIsFinal`, `RevokedForCause` |
| `backfill` | 2 runs, 3 messages in batches of 2, 1 changed meanwhile, 1 fault, symmetric | 1 951 602 | `BackfillInv`, `CheckpointIsSound`, `NothingCountedTwice`, `VectorNotOlder` |
| `admission` | 2 requests, 1 connection, a system and a tenant role, 2 changes, fairness | 301 865 | `AdmissionInv`, `ContextWasInForce`, `RefusedForCause`, `EveryRequestIsAnswered` (liveness) |
| `login` | 2 callbacks, 2 states, 2 people with a common email, 1 fault, 1 change of the tenant, fairness | 432 696 | `LoginInv`, `ProvisioningIsWhole`, `KeptTokensNotReplayed`, `EveryCallbackIsAnswered` (liveness) |
| `search` | 4 messages, pages of 2, 5 moments, 2 zones, 4 plans, 1 change | 192 806 | `SearchInv`, `PagesMakeTheList`, `WindowsAreRight` |

Why these bounds: every hazard of a lease needs two contenders and, to be dangerous, one
overrun and one further mishap, so two jobs and two faults; order of versions needs two
versions; a budget needs to be reached, so two attempts; a page limit of one makes every
multi-page sync cross runs. Two sessions are what it takes to wait for one another, and a
clock of two lets a session end for its age while it is in use, or for its age and for
being idle at once (a clock of three, where each can be alone, was explored too and only
multiplies the states). Three messages in batches of two give the backfill a full batch, a
short one and a message between two old ones. One connection for two requests is the pool
at its limit: were a connection kept while the endpoint waits for another, the run would
stop. Two changes are enough to give the user another role and delete the one he had, between
the load of the tenant and the look at the role. Two people with one email, and one with an email in use, make every unique key
collide. Pages go wrong where messages of one moment meet a page's edge: `search` has two
such messages, and pages of two; its moments are the ends of a February in a leap
year and in none, of a year, and of a week, before and after midnight.

For the same reasons every property has a mutant of the code that
breaks it within these bounds (`PROJECT.json`, "mutants"): a claim that does not
advance `lease_version`, a compare-and-set on the worker only, a retry count off by one, a
page whose cursor commits before its messages, a lease taken without looking, a session
closed after the endpoint instead of before it, a sort without a tiebreaker, and so on.
What is bounded in the runs and is not in the proofs: the number of jobs, processes,
versions, changes, messages, folders, pairs, sessions, requests, tokens, roles, callbacks,
people, faults, attempts.

`MaxFaults` bounds deaths, overrun leases, timeouts that stray, provider errors,
cancellations and reconnections together. `CHECK_DEADLOCK FALSE` is set since a system whose messages no
longer change and whose tokens cannot be replaced any more (`MaxVersion`, `MaxChange`,
`MaxPairs`, `MaxToken`), whose requests are answered or whose reader has reached the end, has
nothing left to do.

## 5 Fairness

`OutboxDelivery!Fairness`: steps of a running job are weakly fair, as each await returns
(httpx timeouts of at most 30 s, and ARQ's `job_timeout` cancels the rest); locks and
backoffs run out with the clock; ARQ keeps running queued jobs. Claims are strongly fair:
the poller enqueues every eligible event every ten seconds, but a claim may find all jobs
busy with other events again and again; that ARQ's deduplication by id does not keep an
event out for ever is assumed here (an id is taken for `keep_result` = 3600 s at most).
`MailSync!Fairness`: the cron ticks, ARQ runs what is queued and forgets results, locks
time out, and each step of a run is weakly fair. Nothing makes a folder change, a cursor
expire, or a user act. Only the violation `sync_unreachable` uses it: it is more than the code
gives, as the cron looks at 50 accounts in the order of `last_sync_at`, which nothing writes
(worker.py:392-393), and a violation under it is one all the more without it.

`RequestAdmission`: `WF_vars(Dispatch(q))` for each request. A coroutine whose await has
returned is resumed, and SQLAlchemy's pool hands a connection that becomes free to a
request that waits for one. Nothing makes a request arrive. `LoginCallback`:
`WF_vars(Handle(q))` for each callback: statements return, since lock waits end when the
transaction that has the lock does, and the HTTP client has timeouts.

`DeviceSessions` has no liveness property; which of its requests may block each other, until
the database aborts one, is the invariant `CirclesAreOfRevocations`. `CredentialRefresh`, `EmbeddingBackfill` and
`MailSearch` have none either: a backfill that is not repeated may end early, and nothing in
`src/` repeats it.

## 6 What is proved

All theorems are of the form `Spec => ...` for every value of the constants the
assumptions allow: bounds are naturals (some positive), jobs have hosts, the "nobody"
value is no process, switches are Booleans. `tlapm` checks each to its last leaf.

**OutboxDelivery_proofs.** `OutboxInv` is inductive. `SingleHolder` alone is not: two jobs
that acquired the same `lease_version` would satisfy it until one of them changes hosts,
so the invariant says that leases of running jobs on one event *differ* (`LeasesDiffer`),
none is above the row's, and a job whose lease equals the row's finds the row IN_FLIGHT,
owned by its host, and with the attempts it read at the claim (`JobOK`) - the last part
is what keeps `AttemptBudget`, whose count is read early and written late. `RowOK` ties
status to owner and `DONE` to the document's `_version`. `IndexInv` bounds the document
and every stray request by the message's version, and, while the document has no vector,
`_version` by the content: with the former, `DoneIsIndexedOrEmbedded` follows. The action
properties `DecidedForGood` and `DecidedByLastClaim` follow from the same invariant step
by step.

In the same module, `OutboxKeepsPromise`: initial states map to initial states and each
step to `Produce`, `Replace`, `Embed`, `Deliver`, `Abandon` or a stutter. `Deliver` is where
the jobs' part of the invariant is needed (a job at its end has the fence at its event),
`Replace` where the bounds of stray requests are, and `Embed` that a vector is asked for only
of versions the message has had.

**MailSync_proofs.** `NothingSkipped` is not inductive, because a run may hold an old
cursor, and a page fetched earlier, when it comes to apply it. The strengthening says that
every run's cursor is covered as the stored one is (`CursorInv`), and that a page fetched
under a lease that is *still held* is as new as the last one applied (`PageOK`): nobody else
can have applied anything since. It is this part that a compare-and-set without
`lease_version` breaks. `HistoryOK` states what the provider's history is. For
`ReplaysAreSilent`, `VersionInv` says of each message that its rows show a state, not later
than the last page, up to which it has had at most one version for each change: a page can
give it another only for a change after that state, so that the sets of changes differ in
that one at least, which is all the proof has to count.
`SyncKeepsPromise`: initial states map to initial states, a change of the folder to `Change`,
a page transaction to `Refresh`, and every other step to a stutter. `Refresh` needs `PageOK`
before the step (the snapshot is not an older one) and `CursorInv` after it (the cursor says
what the rows hold).

**CredentialRefresh_proofs.** `CredentialInv` has an unconditional part (a run that holds
the lease and expected a generation still sees that generation; the pair to be stored is
newer than the stored one) and a part for executions without faults (`Peaceful`): the
refreshing run is alone, and every run that could still refresh has the newest pair or
is superseded. `PairNotLost` and `ReauthHasCause` follow.

**DeviceSessions_proofs.** `SessionInv` joins `ChainHasOneEnd` with what the locks give:
no row is locked by two requests (`LocksOK`), and what a request has read of the rows it
has locked is still so (`RequestOK`: the epoch it presents is open, the session it found
is the epoch's and not revoked, the sessions it is about to revoke have a cause). Neither
part stands alone: the rotation of one request would break another's knowledge but for the
locks, and the chain would break but for that knowledge. Every property of the module
follows: `EpochHasSession` shows that the branch of `refresh_session` for a missing session
(sessions.py:215) is dead, since the epoch's lock and the session's say the same;
`CirclesOfRevocations` follows because on a circle everybody is waited for: behind who waits for
an epoch nobody waits, since he has locked nothing, and who waits for a session and has locked
another is in the UPDATE of `revoke_all_for_user`. `HolderKeepsAccess` is inductive beside it.

**EmbeddingBackfill_proofs.** `CheckpointIsSound` alone is not inductive: a run's object, its
base and its local cursor are older or newer than the row, and each may be written to it
later. `CursorInv` says that all of them cover what they claim to, and that of a batch
under way whatever is not yet tried is still to be written; `CheckpointSound` and
`VectorsNotOlder` follow. `CountInv`, the other half of `BackfillInv`, is about executions in
which no two runs overlap: the row and a run's object have counted no more than the messages tried
up to their cursor, while a batch is written no more than those up to its end that are not
still to be written, and a run that fetches is at the cursor of the row. `CountedOnce`
follows; one count more than one message tried more is what it comes down to.

**RequestAdmission_proofs.** `ContextWasInForce` is about an admitted request; what it needs
of the requests before is `PassedOnFacts` (a step that has been passed was passed on a fact
that was seen) and `SeesThePresent` (what is the case now is part of what a request under
way has seen, which `Changes` keeps so). `NoGap`, that the membership loaded with the tenant
is active unless there was a gap, is what makes `RefusedForCause` inductive, as the second
look is at the object and not at the row; `RoleIsThere`, the foreign key, is what tells the
role a request is refused for from the one the user has by then. `CauseRemains`: whatever is
deleted or seen afterwards takes no cause away.

**LoginCallback_proofs.** `LoginInv` and `ProvisioningIsWhole` are inductive together:
`LocksAreExclusive` says that what a callback has locked nobody else has, and is not in the
tables yet, so that its commit violates no key; `CodesAreAccountedFor` that the code of a
callback past the exchange was presented once, by that callback; `RowsAreOfTheDone` that
rows come with commits. `KeptTokensAreNotReplayed` follows from the second, whose step for
`Exchange` needs the row lock of `consume_state`.

**MailSearch_proofs.** `PagesMakeTheList` speaks of what has been shown, and a page says
nothing of the page before. `ListInv` says what the cursor is: if the pages so far are of one
ranking (`Alike`), it *parts* the results (`Parted`): nothing that was shown is behind it, and what has
been a result all the time was shown or is behind it. That the sort keys are a strict total
order (`BeforeIsStrict`, `BeforeIsTransitive`, `BeforeIsTotal`) makes the last hit of a full
page part the rest (`LastPartsTheRest`); the id in the key is what makes it total, and without
it the step fails, as the mutant does. A page that is not full is all there was
(`LastPageIsAll`). `ReadingInv` is about the shape of the cursor, so that keys compared have
the same length.
`EveryWindowIsRight` is about `DateWindows` alone: whichever day from 2024 on, zone, phrase and
number of days, the window is the one the phrase means. `IsRight`, which TLC evaluates, looks at
the ends of the window and the days beside them; the theorem adds that, over all days, exactly
those between the ends are meant. What it rests on is a calendar for
every year, with a leap year every fourth (the real one until February 2100): months have 28 to 31 days and follow one another (`MonthLength`, `MonthsGrow`),
every day is in exactly one (`MonthExists`, `MonthOfIs`), December has 31 (`DecemberEnds`, the
code's `replace(month=12, day=31)`), and Mondays are seven days apart (`Mondays`).
`MonthExists` would be an induction over the months; it takes the least month that ends
after the day instead, since the naturals are well-founded. `FirstWindowsRight` is the
property of the runs, for every moment a reading may begin at.

Three theorems are about properties that no run lists, since they say nothing a run could
show beyond the others: `DecidedForGood`, `EpochHasSession` and that of `MessagesNeverOlder`,
which `SyncPromise` implies.

Only model-checked: everything under fairness (`EventuallyDecided`,
`EveryRequestIsAnswered`, `EveryCallbackIsAnswered`), since liveness and ENABLED are beyond
the prover, and the violations below. Every safety property of a passing run is proved. What
a recursive definition computes for every input would be beyond the prover as well; the
modules have none.

## 7 Where code and documents disagree

Three runs end with a counterexample; `PROJECT.json` quotes both sides.

* `outbox_stale_index` - a vector write advances `_version`, so the next event's PUT is
  refused as old, and the event is DONE with a stale document.
* `sync_unreachable` - `folder.mail_account` does not exist: with the real model class no
  folder is ever synchronised. All passing runs of `MailSync` and `CredentialRefresh` suppose
  that this is mended, and so they claim only what a run does and may not do, and not that
  one takes place.
* `login_returning` - `identity.user.tenant_id` does not exist: whoever has signed in once
  can not sign in again.

Observed while modelling, without a run of their own:

* A message that changes before its first event is projected loses its vector: both
  events index the newer text, the second PUT wipes the vector, and the enqueue that should
  bring it back finds its id taken (`OutboxDelivery`).
* `except ProviderError` precedes its subclass `DeltaCursorExpiredError`
  (sync_orchestrator.py): a 410 never leads to a resynchronisation (`CursorRejected`). A folder
  in DELTA_TRACKING is never due again (`_is_sync_due`). Discovery takes the first 50 accounts
  by `last_sync_at` (worker.py:392-393), which nothing writes: of more accounts, some may never
  be looked at.
* A folder that finds the refresh lease taken is parked in AUTH_REQUIRED although a retry
  would succeed; and `raise_for_status()` hides the reason of a refusal, so that the account
  is not marked `reauth_required` (`CredentialRefresh`).
* A run that dies, or overruns its refresh lease, between the provider's answer and the
  transaction that stores it loses the pair; where the provider rotates refresh tokens nobody
  has a valid one then. `PairNotLost` is about executions without a fault.
* Two requests to revoke all of a user's sessions, by /auth/logout-all or for a token of a
  revoked session, may lock the sessions in different orders and wait for each other. PostgreSQL
  aborts one of them, and the error is not caught: the client gets a 500
  (`DeadlockDetected`; `CirclesAreOfRevocations` says that it is the only way to a circle).
* For a token of a revoked session docs/reviews/PR-1.2.5-authentication-apis-edd.md:329 and
  :340-342 name the events `SESSION_REUSE_DETECTED` and `ALL_SESSIONS_REVOKED` (outcome
  SUCCESS). Both are emitted, but behind `/auth/refresh` the revocation itself is rolled back
  with the request (`Refuse`), as is that of a session found expired there, and that of one
  the middleware finds expired; behind `/auth/token` both are kept. For a token that is
  merely consumed neither endpoint revokes anything, as sessions.py:192-194 says.
* Backfill: overlapping runs lose updates of each other's counters, and a CANCELLED written
  while a run begins, finishes or fails is overwritten. It reads a sender's
  `emailAddress.address` where mail sync stores `email`, so the sender's address is missing
  from the text it embeds.
* Admission: a user who is given another role while his request is between the load of the
  tenant and the look at the role is asked for the former one; if that has been deleted, he is
  refused with 403 although his membership was active all the time (`RoleRefused`,
  `RoleTakenAway`). The facts a context rests on may be of different moments. Nothing looks at
  `User.is_active`. No route uses `require_permission`, and so no permission is ever enforced;
  `enforce(None, None)` allows, where policy.py:34-35 says the default is to deny.
* Login: a callback that fails after the exchange leaves its state open but its code spent,
  so posting it again can not succeed either. The row lock of the state is kept during the
  calls to the provider. `is_active` of the tenant's mapping is not looked at, and an unknown
  key id does not make the keys be fetched again.
* Search: an embedding that fails for one page, or words understood differently, rank the
  next page otherwise under the same cursor, and a partial answer ends the reading; that is
  why `PagesMakeTheList` supposes one ranking and no partial answer. A blank query passes the
  check for requests with neither query nor filters. A sender hint resolves to names of any
  participant, whatever the role. `past_days` has no upper limit, and a large one overflows.

## 8 What is not modelled, and why

* Time, except as locks, backoffs, tokens and sessions that may run out, and as the day of a
  search. Hence nothing is said about how long anything takes.
* The resynchronisation after a 410 (unreachable), `deactivate_account`, and a first run of
  a folder that inserts the state row.
* The pages of several folders at once: they touch the same message rows; `MailSync` speaks
  of one folder, and messages' other memberships are left aside. Planned.
* ARQ's queue for outbox events (assumed by fairness): planned.
* `refresh_provider_credentials`, which nothing calls, and the linking of a second login,
  which the code does not reach.
* How Elasticsearch scores, what a model answers, synthesis and its citations, prompts,
  parsing, rate limits, configuration, frontend, deployment: conversions, wording, or the
  behaviour of somebody else's service.

Running it: `tlc -config <run>.cfg <module>` for a run of `PROJECT.json`, and
`tlapm <module>` for a module whose name ends in `_proofs`.
