-------------------------- MODULE CredentialRefresh --------------------------
(***************************************************************************)
(* The credentials of one mail account, shared by the syncs of its folders.*)
(*                                                                         *)
(* A folder's run loads the stored access token and refreshes it first if  *)
(* it looks expired; while syncing, a 401 makes it refresh once more.  The *)
(* refresh takes the account's fenced lease, sends the stored refresh token*)
(* to the provider outside any transaction, and stores the answer by a     *)
(* compare-and-set that bumps credential_generation.  A folder whose 401   *)
(* could not be cured is set to AUTH_REQUIRED, and discovery passes it over*)
(* from then on; an account whose refresh token was refused is set to      *)
(* reauth_required, and discovery passes over all of its folders.          *)
(*                                                                         *)
(* Each refresh at the provider issues a new pair of tokens; tokens are    *)
(* named by their place in that order.  At most one run of a folder gets   *)
(* past the folder's own lease (MailSync), so a run is named by its folder.*)
(***************************************************************************)
EXTENDS Integers

CONSTANTS
  Folder,        \* the folders of the account, and their runs
  Process,       \* worker processes; ctx["worker_id"] is shared by their runs
  HostOf,        \* the process each folder's run is in
  None,          \* refresh_locked_by IS NULL; no lease given out; no expectation
  Explains,      \* whether the error of a refused refresh names the provider's reason
  MaxPairs,      \* bound: pairs of tokens issued
  MaxFaults      \* bound: deaths, overrun leases, failed calls, reconnections

ASSUME BoundsAreNaturals == MaxPairs \in Nat /\ MaxFaults \in Nat
ASSUME FoldersHaveHosts ==
  /\ HostOf \in [Folder -> Process]
  /\ None \notin Process /\ None \notin Folder /\ None \notin Nat
ASSUME SwitchIsBoolean == Explains \in BOOLEAN

Pair == 0 .. MaxPairs   \* pair 0 is the one its owner logged in with

VARIABLES
  (* the provider *)
  issued,        \* the newest pair
  spent,         \* the access tokens of the pairs below are rejected with 401
  revoked,       \* the user has withdrawn the consent: refresh tokens are refused
  (* the mail_accounts and provider_credentials rows *)
  status,        \* "active" or "reauth_required"
  generation,    \* credential_generation
  owner,         \* refresh_locked_by
  live,          \* refresh_locked_until >= now
  lease,         \* the folder whose run refresh_lease_version was last given to
  stored,        \* the pair in provider_credentials
  (* the folders' mail_sync_state.state, as far as authorisation goes *)
  parked,        \* AUTH_REQUIRED
  (* locals of the runs *)
  pc,
  token,         \* the pair whose access token the run uses, or refreshes with
  expected,      \* expected_generation
  retrying,      \* refresh_attempted
  faults         \* faults so far

provider == <<issued, spent, revoked>>
account  == <<status, generation, owner, live, lease, stored>>
locals   == <<pc, token, expected, retrying>>
vars     == <<provider, account, parked, locals, faults>>

Steps == {"idle", "load", "fetch", "acquire", "call", "store", "giveback", "refused",
          "mark", "failed"}

TypeOK ==
  /\ issued \in Pair /\ spent \in 0 .. MaxPairs + 1 /\ revoked \in BOOLEAN
  /\ status \in {"active", "reauth_required"}
  /\ generation \in Nat
  /\ owner \in Process \cup {None} /\ live \in BOOLEAN /\ lease \in Folder \cup {None}
  /\ stored \in Pair
  /\ parked \in [Folder -> BOOLEAN]
  /\ pc \in [Folder -> Steps]
  /\ token \in [Folder -> Pair]
  /\ expected \in [Folder -> Nat \cup {None}]
  /\ retrying \in [Folder -> BOOLEAN]
  /\ faults \in 0 .. MaxFaults

Init ==
  /\ issued = 0 /\ spent = 0 /\ revoked = FALSE
  /\ status = "active"
  /\ generation = 0
  /\ owner = None /\ live = FALSE /\ lease = None
  /\ stored = 0
  /\ parked = [f \in Folder |-> FALSE]
  /\ pc = [f \in Folder |-> "idle"]
  /\ token = [f \in Folder |-> 0]
  /\ expected = [f \in Folder |-> None]
  /\ retrying = [f \in Folder |-> FALSE]
  /\ faults = 0

Fault == faults < MaxFaults /\ faults' = faults + 1

Goto(f, step) == pc' = [pc EXCEPT ![f] = step]

-----------------------------------------------------------------------------
(* The provider. *)

Works(p) == p >= spent

\* A refresh token is good for as long as the consent stands; one that has been replaced
\* is taken by some providers, and at some times, and refused by others.
Acceptable == ~revoked
Refusable(p) == revoked \/ p # issued

\* The access tokens issued so far run out.
TokensExpire ==
  /\ spent <= issued
  /\ spent' = issued + 1
  /\ UNCHANGED <<issued, revoked, account, parked, locals, faults>>

ConsentWithdrawn ==
  /\ revoked' = TRUE
  /\ UNCHANGED <<issued, spent, account, parked, locals, faults>>

\* connect_account for an account that exists.  It copies the pair of the login, whatever
\* has been stored since, and neither takes the lease nor bumps the generation; so it
\* counts as a fault.
Reconnect ==
  /\ Fault
  /\ status' = "active"
  /\ stored' = 0
  /\ UNCHANGED <<generation, owner, live, lease, provider, parked, locals>>

-----------------------------------------------------------------------------
(* A folder's run. *)

Leave(f) ==
  /\ Goto(f, "idle")
  /\ token' = [token EXCEPT ![f] = 0]
  /\ expected' = [expected EXCEPT ![f] = None]
  /\ retrying' = [retrying EXCEPT ![f] = FALSE]

\* sync_mailbox_job reads the account ...  It was queued by a user's request, or has
\* waited since the folder was found due, so it starts whatever the states are by now.
Begin(f) ==
  /\ pc[f] = "idle"
  /\ Goto(f, "load")
  /\ expected' = [expected EXCEPT ![f] = generation]
  /\ UNCHANGED <<token, retrying, provider, account, parked, faults>>

\* ... and then _load_access_token its credential, which may look expired or not: the
\* clocks are not the provider's, and two minutes are allowed for.
Load(f) ==
  /\ pc[f] = "load"
  /\ token' = [token EXCEPT ![f] = stored]
  /\ \/ Goto(f, "fetch") /\ expected' = [expected EXCEPT ![f] = None]
     \/ Goto(f, "acquire") /\ UNCHANGED expected
  /\ UNCHANGED <<retrying, provider, account, parked, faults>>

\* The provider is asked for mail; storing the page overwrites the folder's state.
Fetched(f) ==
  /\ pc[f] = "fetch"
  /\ Works(token[f])
  /\ parked' = [parked EXCEPT ![f] = FALSE]
  /\ Leave(f)
  /\ UNCHANGED <<provider, account, faults>>

\* 401: refresh once, with no generation expected; the second time give up.
Unauthorized(f) ==
  /\ pc[f] = "fetch"
  /\ ~Works(token[f])
  /\ retrying' = [retrying EXCEPT ![f] = TRUE]
  /\ Goto(f, IF retrying[f] THEN "failed" ELSE "acquire")
  /\ UNCHANGED <<token, expected, provider, account, parked, faults>>

\* A refresh that raises: the 401's folder is parked, whatever the reason; a run that
\* was still loading its token ends without a trace.
Failed(f) ==
  /\ pc[f] = "failed"
  /\ parked' = [parked EXCEPT ![f] = @ \/ retrying[f]]
  /\ Leave(f)
  /\ UNCHANGED <<provider, account, faults>>

RunDies(f) ==
  /\ pc[f] # "idle"
  /\ Fault
  /\ Leave(f)
  /\ UNCHANGED <<provider, account, parked>>

-----------------------------------------------------------------------------
(* refresh_mail_account_credentials. *)

\* Mutant: only the worker is compared.
HoldsByWorker(f) == owner = HostOf[f]

\* The WHERE clause of finalize_refresh_lease and release_refresh_lease.
Holds(f) == owner = HostOf[f] /\ lease = f

Superseded(f) == expected[f] # None /\ generation > expected[f]

\* Somebody has refreshed since.  The credential is selected again, but the session
\* answers with the object it loaded before: the run goes on with the token it had.
KeepLoaded(f) ==
  /\ expected' = [expected EXCEPT ![f] = None]
  /\ Goto(f, "fetch")
  /\ UNCHANGED token

AlreadyRefreshed(f) ==
  /\ pc[f] = "acquire"
  /\ Superseded(f)
  /\ KeepLoaded(f)
  /\ UNCHANGED <<retrying, provider, account, parked, faults>>

\* The refresh token to send: that of the object loaded before the lease was taken, or,
\* in the session of a 401, which has none, that of the row.
ReadToSend(f) == token' = [token EXCEPT ![f] = IF retrying[f] THEN stored ELSE @]

\* Mutant: the generation is not looked at again under the lease.
AcquireRefreshUnchecked(f) ==
  /\ pc[f] = "acquire"
  /\ owner = None \/ ~live
  /\ owner' = HostOf[f] /\ live' = TRUE /\ lease' = f
  /\ ReadToSend(f)
  /\ Goto(f, "call")
  /\ UNCHANGED <<expected, retrying, provider, status, generation, stored, parked, faults>>

\* Mutant: the lock is taken whoever has it.
AcquireRefreshLocked(f) ==
  /\ pc[f] = "acquire"
  /\ owner' = HostOf[f] /\ live' = TRUE /\ lease' = f
  /\ ReadToSend(f)
  /\ Goto(f, IF Superseded(f) THEN "giveback" ELSE "call")
  /\ UNCHANGED <<expected, retrying, provider, status, generation, stored, parked, faults>>

\* Mutant: the refresh token is always the one read before the lease was taken.
AcquireRefreshTooLate(f) ==
  /\ pc[f] = "acquire"
  /\ owner = None \/ ~live
  /\ owner' = HostOf[f] /\ live' = TRUE /\ lease' = f
  /\ Goto(f, IF Superseded(f) THEN "giveback" ELSE "call")
  /\ UNCHANGED <<token, expected, retrying, provider, status, generation, stored, parked,
                 faults>>

\* The account is read before the lease is taken, so the lease may go to a run that
\* finds itself superseded only now.
AcquireRefresh(f) ==
  /\ pc[f] = "acquire"
  /\ owner = None \/ ~live
  /\ owner' = HostOf[f] /\ live' = TRUE /\ lease' = f
  /\ ReadToSend(f)
  /\ Goto(f, IF Superseded(f) THEN "giveback" ELSE "call")
  /\ UNCHANGED <<expected, retrying, provider, status, generation, stored, parked, faults>>

\* The lease is held.  The account is looked at again, but the session still has it as
\* it was first read, when it was not superseded: the refresh raises.
Contended(f) ==
  /\ pc[f] = "acquire"
  /\ owner # None /\ live
  /\ Goto(f, "failed")
  /\ UNCHANGED <<token, expected, retrying, provider, account, parked, faults>>

\* release_refresh_lease, which only the holder's lease_version matches.
Unlock(f) ==
  IF Holds(f) THEN owner' = None /\ live' = FALSE ELSE UNCHANGED <<owner, live>>

GiveBack(f) ==
  /\ pc[f] = "giveback"
  /\ Unlock(f)
  /\ KeepLoaded(f)
  /\ UNCHANGED <<retrying, provider, status, generation, lease, stored, parked, faults>>

\* refresh_credentials: the provider issues the next pair ...
ProviderIssues(f) ==
  /\ pc[f] = "call"
  /\ Acceptable
  /\ issued < MaxPairs
  /\ issued' = issued + 1
  /\ token' = [token EXCEPT ![f] = issued']
  /\ Goto(f, "store")
  /\ UNCHANGED <<expected, retrying, spent, revoked, account, parked, faults>>

\* ... or refuses the token (invalid_grant) ...
ProviderRefuses(f) ==
  /\ pc[f] = "call"
  /\ Refusable(token[f])
  /\ Goto(f, "refused")
  /\ UNCHANGED <<token, expected, retrying, provider, account, parked, faults>>

\* ... or the call fails, perhaps after the pair was issued; the lease is released.
CallFails(f) ==
  /\ pc[f] = "call"
  /\ Fault
  /\ \/ UNCHANGED issued
     \/ Acceptable /\ issued < MaxPairs /\ issued' = issued + 1
  /\ Unlock(f)
  /\ Goto(f, "failed")
  /\ UNCHANGED <<token, expected, retrying, spent, revoked, status, generation, lease,
                 stored, parked>>

\* Mutant: the generation is not advanced.
StoreSilently(f) ==
  /\ pc[f] = "store"
  /\ IF Holds(f)
       THEN /\ stored' = token[f]
            /\ Unlock(f)
            /\ Goto(f, "fetch")
            /\ expected' = [expected EXCEPT ![f] = None]
       ELSE Goto(f, "failed") /\ UNCHANGED <<stored, owner, live, expected>>
  /\ UNCHANGED <<token, retrying, provider, status, generation, lease, parked, faults>>

\* finalize_refresh_lease and the credential, in one transaction; a run whose lease was
\* taken stores nothing and raises.
Store(f) ==
  /\ pc[f] = "store"
  /\ IF Holds(f)
       THEN /\ generation' = generation + 1
            /\ stored' = token[f]
            /\ Unlock(f)
            /\ Goto(f, "fetch")
            /\ expected' = [expected EXCEPT ![f] = None]
       ELSE /\ Goto(f, "failed")
            /\ UNCHANGED <<generation, stored, owner, live, expected>>
  /\ UNCHANGED <<token, retrying, provider, status, lease, parked, faults>>

\* After a refusal the lease is released, and, if the reason is found in the error's
\* text, in a transaction of its own ...
ReleaseRefused(f) ==
  /\ pc[f] = "refused"
  /\ Unlock(f)
  /\ Goto(f, IF Explains THEN "mark" ELSE "failed")
  /\ UNCHANGED <<token, expected, retrying, provider, status, generation, lease, stored,
                 parked, faults>>

\* ... the account is marked, by whoever is told of the refusal.
MarkReauth(f) ==
  /\ pc[f] = "mark"
  /\ status' = "reauth_required"
  /\ Goto(f, "failed")
  /\ UNCHANGED <<token, expected, retrying, provider, generation, owner, live, lease,
                 stored, parked, faults>>

\* refresh_locked_until passes; under the run that holds the lease only if it overruns.
LeaseExpires ==
  /\ owner # None /\ live
  /\ live' = FALSE
  /\ IF \E f \in Folder : Holds(f) /\ pc[f] \in {"call", "store", "giveback", "refused"}
       THEN Fault
       ELSE UNCHANGED faults
  /\ UNCHANGED <<provider, status, generation, owner, lease, stored, parked, locals>>

-----------------------------------------------------------------------------
RunStep(f) ==
  \/ Begin(f) \/ Load(f) \/ Fetched(f) \/ Unauthorized(f) \/ Failed(f) \/ RunDies(f)
  \/ AlreadyRefreshed(f) \/ AcquireRefresh(f) \/ Contended(f) \/ GiveBack(f)
  \/ ProviderIssues(f) \/ ProviderRefuses(f) \/ CallFails(f)
  \/ Store(f) \/ ReleaseRefused(f) \/ MarkReauth(f)

Next ==
  \/ TokensExpire
  \/ ConsentWithdrawn
  \/ Reconnect
  \/ LeaseExpires
  \/ \E f \in Folder : RunStep(f)

Spec == Init /\ [][Next]_vars

-----------------------------------------------------------------------------
(* Properties *)

\* A run that lost its lease while it was talking to the provider does not put its
\* pair in the place of a newer one.  (Reconnecting does.)
NeverOlderPair == [][stored' >= stored \/ Reconnect]_vars

\* A run sent to replace the credentials of one generation does not ask the provider for
\* another pair when somebody else has replaced them in the meantime.
RefreshNotRepeated ==
  \A f \in Folder :
    pc[f] = "call" /\ Holds(f) /\ expected[f] # None => generation = expected[f]

\* Without a fault no pair is lost between the provider and the database, however many
\* runs find the token expired at once.
PairNotLost ==
  faults = 0 /\ (\A f \in Folder : pc[f] # "store") => stored = issued

\* Concurrency alone never disconnects a mailbox: without a fault the provider never
\* refuses a refresh token whose consent stands.
ReauthHasCause ==
  status = "reauth_required" => revoked \/ faults > 0

-----------------------------------------------------------------------------
(* The inductive invariant behind the safety properties. *)

\* The steps between taking the lease and letting go of it.
Refreshing(f) == pc[f] \in {"call", "store", "giveback", "refused"}

RunOK(f) ==
  /\ token[f] <= issued
  /\ expected[f] # None => expected[f] <= generation
  /\ pc[f] \in {"idle", "load"} => ~retrying[f]
  /\ pc[f] = "load" => expected[f] # None
  /\ pc[f] = "fetch" => expected[f] = None
  /\ pc[f] = "acquire" => (retrying[f] <=> expected[f] = None)
  /\ pc[f] = "call" /\ Holds(f) /\ expected[f] # None => generation = expected[f]
  /\ pc[f] = "store" /\ Holds(f) => stored < token[f]

RunInv == \A f \in Folder : RunOK(f)

\* As long as there is no fault a refreshing run is alone, has the newest pair, or is
\* about to store it; a run still to refresh has the newest pair or is superseded.
PeacefulRun(f) ==
  /\ Refreshing(f) => Holds(f) /\ live
  /\ pc[f] = "store" => token[f] = issued
  /\ pc[f] = "acquire" /\ expected[f] = generation => token[f] = stored
  /\ pc[f] = "call" => token[f] = stored /\ stored = issued
  /\ pc[f] \in {"refused", "mark"} => revoked

Peaceful ==
  /\ \A f \in Folder : PeacefulRun(f)
  /\ (\A f \in Folder : pc[f] # "store") => stored = issued
  /\ status = "reauth_required" => revoked

CredentialInv == TypeOK /\ stored <= issued /\ RunInv /\ (faults = 0 => Peaceful)
=============================================================================
