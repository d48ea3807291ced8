---------------------------- MODULE DeviceSessions ----------------------------
(***************************************************************************)
(* The device sessions of one user and the refresh tokens that keep them.  *)
(*                                                                         *)
(* A session knows the hash of one refresh token; each token ever stored   *)
(* has a row, an epoch of the session's family, with the time it was       *)
(* consumed.  /auth/refresh and /auth/token exchange the current token for *)
(* a new one, under the row locks of the epoch and of the session;         *)
(* /auth/logout and /auth/logout-all revoke sessions.  Every request is one*)
(* transaction: get_db commits when the endpoint has returned, and rolls   *)
(* back when it has raised.                                                *)
(*                                                                         *)
(* A request's writes are kept with the request until it commits, so that  *)
(* other requests read what is committed; the locks that come with them are*)
(* derived from the request's step.  Tokens are named in the order they    *)
(* were generated.                                                         *)
(***************************************************************************)
EXTENDS Integers

CONSTANTS
  Session,       \* the user's device sessions
  Request,       \* requests that may be under way at once
  None,          \* no session
  Lifetimes,     \* absolute timeouts: the normal one and that of remember_me
  IdleTimeout,   \* session_idle_timeout_hours
  MaxToken,      \* bound: refresh tokens generated
  MaxTime,       \* bound: the clock
  MaxFaults      \* bound: requests cut off, answers lost

ASSUME BoundsAreNaturals == MaxToken \in Nat /\ MaxTime \in Nat /\ MaxFaults \in Nat
ASSUME TimeoutsAreNaturals == Lifetimes \subseteq Nat /\ IdleTimeout \in Nat
ASSUME NoneIsNoSession == None \notin Session

Token == 1 .. MaxToken
NoToken == 0

Rotations == {"refresh", "token"}          \* POST /auth/refresh, POST /auth/token
Logouts == {"logout", "logoutAll"}         \* POST /auth/logout, POST /auth/logout-all

VARIABLES
  (* device_sessions *)
  current,       \* current_refresh_token_hash; NoToken while there is no such session
  revoked,       \* revoked_at IS NOT NULL
  expiresAt,
  lastActive,
  (* refresh_token_families *)
  family,        \* device_session_id of a token's epoch; None while there is no such row
  consumed,      \* consumed_at IS NOT NULL
  (* the rest of the world *)
  given,         \* tokens that have reached the client
  minted,        \* tokens generated so far
  clock,
  faults,        \* faults so far
  (* the requests *)
  pc,
  endpoint,
  presented,     \* the token in the request's body
  now,           \* the datetime.now(UTC) of a refresh
  fresh,         \* the token it generates
  target,        \* the session it has found
  todo,          \* the rows its UPDATE has still to come to
  dying          \* the rows its UPDATE has locked, to revoke them

sessions == <<current, revoked, expiresAt, lastActive>>
epochs   == <<family, consumed>>
world    == <<given, minted, clock, faults>>
requests == <<pc, endpoint, presented, now, fresh, target, todo, dying>>
vars     == <<sessions, epochs, world, requests>>

Steps == {"idle", "epoch", "session", "tenant", "rotated", "find", "one", "all", "updating",
          "revoking"}

\* expires_at and last_active_at of a session that has been opened are times of the clock.
TypeOK ==
  /\ current \in [Session -> Token \cup {NoToken}]
  /\ revoked \in [Session -> BOOLEAN]
  /\ expiresAt \in [Session -> Nat] /\ lastActive \in [Session -> 0 .. MaxTime]
  /\ family \in [Token -> Session \cup {None}]
  /\ consumed \in [Token -> BOOLEAN]
  /\ given \subseteq Token
  /\ minted \in 0 .. MaxToken
  /\ clock \in 0 .. MaxTime
  /\ faults \in 0 .. MaxFaults
  /\ pc \in [Request -> Steps]
  /\ endpoint \in [Request -> Rotations \cup Logouts]
  /\ presented \in [Request -> Token \cup {NoToken}]
  /\ now \in [Request -> 0 .. MaxTime]
  /\ fresh \in [Request -> Token \cup {NoToken}]
  /\ target \in [Request -> Session \cup {None}]
  /\ todo \in [Request -> SUBSET Session]
  /\ dying \in [Request -> SUBSET Session]

Init ==
  /\ current = [s \in Session |-> NoToken]
  /\ revoked = [s \in Session |-> FALSE]
  /\ expiresAt = [s \in Session |-> 0]
  /\ lastActive = [s \in Session |-> 0]
  /\ family = [e \in Token |-> None]
  /\ consumed = [e \in Token |-> FALSE]
  /\ given = {}
  /\ minted = 0 /\ clock = 0 /\ faults = 0
  /\ pc = [r \in Request |-> "idle"]
  /\ endpoint = [r \in Request |-> "refresh"]
  /\ presented = [r \in Request |-> NoToken]
  /\ now = [r \in Request |-> 0]
  /\ fresh = [r \in Request |-> NoToken]
  /\ target = [r \in Request |-> None]
  /\ todo = [r \in Request |-> {}]
  /\ dying = [r \in Request |-> {}]

Fault == faults < MaxFaults /\ faults' = faults + 1

Goto(r, step) == pc' = [pc EXCEPT ![r] = step]

-----------------------------------------------------------------------------
(* The world. *)

Tick ==
  /\ clock < MaxTime
  /\ clock' = clock + 1
  /\ UNCHANGED <<sessions, epochs, given, minted, faults, requests>>

\* A login: create_session with its first epoch, in the transaction of the callback.
CreateSession(s) ==
  /\ current[s] = NoToken
  /\ minted < MaxToken
  /\ minted' = minted + 1
  /\ current' = [current EXCEPT ![s] = minted']
  /\ \E lifetime \in Lifetimes : expiresAt' = [expiresAt EXCEPT ![s] = clock + lifetime]
  /\ lastActive' = [lastActive EXCEPT ![s] = clock]
  /\ family' = [family EXCEPT ![minted'] = s]
  /\ given' = given \cup {minted'}
  /\ UNCHANGED <<revoked, consumed, clock, faults, requests>>

-----------------------------------------------------------------------------
(* Row locks. *)

\* The steps of a refresh that has selected its epoch FOR UPDATE.
Locking == {"session", "tenant", "rotated", "all", "updating", "revoking"}

HoldsEpoch(r, e) == endpoint[r] \in Rotations /\ pc[r] \in Locking /\ presented[r] = e

\* Mutant: only an UPDATE locks a session, a SELECT does not.
HoldsUpdated(r, s) == s \in dying[r]

\* Mutant: the logouts select their session FOR SHARE.
HoldsShared(r, s) == s \in dying[r] \/ target[r] = s

\* A session is locked by the refresh that has selected it FOR UPDATE, and by the UPDATE
\* that has come to it.
HoldsSession(r, s) ==
  \/ s \in dying[r]
  \/ endpoint[r] \in Rotations /\ target[r] = s

EpochFree(e) == \A r \in Request : ~HoldsEpoch(r, e)
SessionFree(r, s) == \A q \in Request \ {r} : ~HoldsSession(q, s)

-----------------------------------------------------------------------------
(* Requests. *)

\* The end of a request's transaction; the locks go with it.
Leave(r) ==
  /\ Goto(r, "idle")
  /\ endpoint' = [endpoint EXCEPT ![r] = "refresh"]
  /\ presented' = [presented EXCEPT ![r] = NoToken]
  /\ now' = [now EXCEPT ![r] = 0]
  /\ fresh' = [fresh EXCEPT ![r] = NoToken]
  /\ target' = [target EXCEPT ![r] = None]
  /\ todo' = [todo EXCEPT ![r] = {}]
  /\ dying' = [dying EXCEPT ![r] = {}]

Begin(r) ==
  /\ pc[r] = "idle"
  /\ \E e \in given : presented' = [presented EXCEPT ![r] = e]
  /\ \/ \E ep \in Rotations :
          /\ minted < MaxToken
          /\ minted' = minted + 1
          /\ fresh' = [fresh EXCEPT ![r] = minted']
          /\ now' = [now EXCEPT ![r] = clock]
          /\ endpoint' = [endpoint EXCEPT ![r] = ep]
          /\ Goto(r, "epoch")
     \/ \E ep \in Logouts :
          /\ endpoint' = [endpoint EXCEPT ![r] = ep]
          /\ Goto(r, "find")
          /\ UNCHANGED <<minted, fresh, now>>
  /\ UNCHANGED <<sessions, epochs, given, clock, faults, target, todo, dying>>

Late(time, s) == expiresAt[s] < time \/ lastActive[s] < time - IdleTimeout

\* A refresh raises after it has revoked the sessions D: /auth/token turns the error into
\* a response, and D is committed; /auth/refresh lets it out, and D is rolled back.
Refuse(r, D) ==
  IF endpoint[r] = "token"
    THEN /\ dying' = [dying EXCEPT ![r] = D]
         /\ Goto(r, "revoking")
         /\ UNCHANGED <<endpoint, presented, now, fresh, target, todo>>
    ELSE Leave(r)

\* Mutant: a consumed token is taken for a reuse, and revokes the user's sessions.
EpochAlarms(r) ==
  /\ pc[r] = "epoch"
  /\ LET e == presented[r] IN
       \/ family[e] = None /\ Leave(r)
       \/ /\ family[e] # None /\ EpochFree(e) /\ consumed[e]
          /\ target' = [target EXCEPT ![r] = family[e]]
          /\ Goto(r, "all")
          /\ UNCHANGED <<endpoint, presented, now, fresh, todo, dying>>
  /\ UNCHANGED <<sessions, epochs, world>>

\* get_by_token_hash FOR UPDATE finds no row, or one that has been consumed: the request
\* ends at once and revokes nothing.
EpochRefused(r) ==
  /\ pc[r] = "epoch"
  /\ LET e == presented[r] IN
       \/ family[e] = None
       \/ family[e] # None /\ EpochFree(e) /\ consumed[e]
  /\ Leave(r)
  /\ UNCHANGED <<sessions, epochs, world>>

LockEpoch(r) ==
  /\ pc[r] = "epoch"
  /\ LET e == presented[r] IN family[e] # None /\ EpochFree(e) /\ ~consumed[e]
  /\ Goto(r, "session")
  /\ UNCHANGED <<sessions, epochs, world, endpoint, presented, now, fresh, target, todo, dying>>

\* get_by_refresh_token_hash FOR UPDATE, and what is checked of the session.  The epoch
\* is locked and not consumed, so there is such a session (EpochHasSession); if there were
\* none the request would end here.
LockSession(r) ==
  /\ pc[r] = "session"
  /\ IF \E s \in Session : current[s] = presented[r]
       THEN \E s \in Session :
              /\ current[s] = presented[r]
              /\ SessionFree(r, s)
              /\ IF ~revoked[s] /\ Late(now[r], s)
                   THEN Refuse(r, {s})
                   ELSE /\ target' = [target EXCEPT ![r] = s]
                        /\ Goto(r, IF revoked[s] THEN "all" ELSE "tenant")
                        /\ UNCHANGED <<endpoint, presented, now, fresh, todo, dying>>
       ELSE Leave(r)
  /\ UNCHANGED <<sessions, epochs, world>>

\* The epoch is consumed, the session changed and the next epoch created, and then the
\* tenant looked at, which operators switch off and on: an active one gets the answer ...
TenantPasses(r) ==
  /\ pc[r] = "tenant"
  /\ Goto(r, "rotated")
  /\ UNCHANGED <<sessions, epochs, world, endpoint, presented, now, fresh, target, todo, dying>>

\* What the transaction of a refresh that has got this far commits.
Rotate(r) ==
  LET s == target[r] IN
  /\ consumed' = [consumed EXCEPT ![presented[r]] = TRUE]
  /\ current' = [current EXCEPT ![s] = fresh[r]]
  /\ lastActive' = [lastActive EXCEPT ![s] = now[r]]
  /\ family' = [family EXCEPT ![fresh[r]] = s]
  /\ UNCHANGED <<revoked, expiresAt>>

\* Mutant: /auth/token answers this error itself, too, and so commits the rotation.
TenantFailsQuietly(r) ==
  /\ pc[r] = "tenant"
  /\ IF endpoint[r] = "token" THEN Rotate(r) ELSE UNCHANGED <<sessions, epochs>>
  /\ Leave(r)
  /\ UNCHANGED world

\* ... otherwise both endpoints raise, and the rotation is rolled back.
TenantFails(r) ==
  /\ pc[r] = "tenant"
  /\ Leave(r)
  /\ UNCHANGED <<sessions, epochs, world>>

\* Depending on FastAPI's version get_db goes on, and commits, after the response is sent.
AnswerEarly(r) ==
  /\ pc[r] = "rotated"
  /\ given' = given \cup {fresh[r]}
  /\ UNCHANGED <<sessions, epochs, minted, clock, faults, requests>>

\* Mutant: the old epoch is not marked.
CommitUnconsumed(r) ==
  /\ pc[r] = "rotated"
  /\ current' = [current EXCEPT ![target[r]] = fresh[r]]
  /\ lastActive' = [lastActive EXCEPT ![target[r]] = now[r]]
  /\ family' = [family EXCEPT ![fresh[r]] = target[r]]
  /\ given' = given \cup {fresh[r]}
  /\ Leave(r)
  /\ UNCHANGED <<revoked, expiresAt, consumed, minted, clock, faults>>

CommitRotation(r) ==
  /\ pc[r] = "rotated"
  /\ Rotate(r)
  /\ given' = given \cup {fresh[r]}
  /\ Leave(r)
  /\ UNCHANGED <<minted, clock, faults>>

\* The rotation is committed, but its answer does not reach the client.
AnswerLost(r) ==
  /\ pc[r] = "rotated"
  /\ Fault
  /\ Rotate(r)
  /\ Leave(r)
  /\ UNCHANGED <<given, minted, clock>>

\* The logouts select the session by its current token, without a lock.  A logout goes on with
\* the session's id, a logout-all with the user's (locals that are not read again are reset).
Find(r) ==
  /\ pc[r] = "find"
  /\ IF \E s \in Session : current[s] = presented[r]
       THEN /\ IF endpoint[r] = "logout"
                 THEN /\ \E s \in Session :
                           /\ current[s] = presented[r]
                           /\ target' = [target EXCEPT ![r] = s]
                      /\ Goto(r, "one")
                 ELSE Goto(r, "all") /\ UNCHANGED target
            /\ presented' = [presented EXCEPT ![r] = NoToken]
            /\ UNCHANGED <<endpoint, now, fresh, todo, dying>>
       ELSE Leave(r)
  /\ UNCHANGED <<sessions, epochs, world>>

\* revoke: UPDATE ... WHERE id = ... AND revoked_at IS NULL waits for the row's lock, unless
\* the row is revoked when it begins.
RevokeOne(r) ==
  /\ pc[r] = "one"
  /\ LET s == target[r] IN
       \/ revoked[s] /\ UNCHANGED dying
       \/ SessionFree(r, s) /\ dying' = [dying EXCEPT ![r] = {s}]
  /\ target' = [target EXCEPT ![r] = None]
  /\ Goto(r, "revoking")
  /\ UNCHANGED <<sessions, epochs, world, endpoint, presented, now, fresh, todo>>

\* revoke_all_for_user, by a logout-all, or by a refresh with a revoked session's token:
\* UPDATE ... WHERE user_id = ... AND revoked_at IS NULL, on the rows of its snapshot ...
RevokeAll(r) ==
  /\ pc[r] = "all"
  /\ todo' = [todo EXCEPT ![r] = {s \in Session : current[s] # NoToken /\ ~revoked[s]}]
  /\ Goto(r, "updating")
  /\ UNCHANGED <<sessions, epochs, world, endpoint, presented, now, fresh, target, dying>>

\* ... one after the other, in an order that is the database's: it waits for the lock of each
\* and keeps those it has.  A row that was revoked meanwhile is locked and stays as it is.
RevokeRow(r) ==
  /\ pc[r] = "updating"
  /\ \E s \in todo[r] :
       /\ SessionFree(r, s)
       /\ todo' = [todo EXCEPT ![r] = @ \ {s}]
       /\ dying' = [dying EXCEPT ![r] = @ \cup {s}]
  /\ UNCHANGED <<sessions, epochs, world, pc, endpoint, presented, now, fresh, target>>

\* The UPDATE is done; a refresh then raises.
AllRevoked(r) ==
  /\ pc[r] = "updating" /\ todo[r] = {}
  /\ IF endpoint[r] \in Rotations
       THEN Refuse(r, dying[r])
       ELSE /\ Goto(r, "revoking")
            /\ UNCHANGED <<endpoint, presented, now, fresh, target, todo, dying>>
  /\ UNCHANGED <<sessions, epochs, world>>

CommitRevocation(r) ==
  /\ pc[r] = "revoking"
  /\ revoked' = [s \in Session |-> revoked[s] \/ s \in dying[r]]
  /\ Leave(r)
  /\ UNCHANGED <<current, expiresAt, lastActive, epochs, world>>

\* r's next statement waits, or may wait, for a row that q has locked.
Waits(r, q) ==
  /\ q # r
  /\ \/ pc[r] = "epoch" /\ HoldsEpoch(q, presented[r])
     \/ \E s \in Session :
          /\ HoldsSession(q, s)
          /\ \/ pc[r] = "session" /\ current[s] = presented[r]
             \/ pc[r] = "one" /\ target[r] = s /\ ~revoked[s]
             \/ pc[r] = "updating" /\ s \in todo[r]

\* r is one of some requests of which each waits for the next, and the last for the first.
OnCircle(r) ==
  \E C \in SUBSET Request :
    /\ r \in C
    /\ \E next \in [C -> C] :
         /\ \A q \in C : Waits(q, next[q])
         /\ \A q \in C : \E p \in C : next[p] = q

\* PostgreSQL breaks a circle by an error in one of its statements, which no endpoint catches.
DeadlockDetected(r) ==
  /\ OnCircle(r)
  /\ Leave(r)
  /\ UNCHANGED <<sessions, epochs, world>>

\* The client disconnects, the database or the process fails: rolled back.
Abort(r) ==
  /\ pc[r] # "idle"
  /\ Fault
  /\ Leave(r)
  /\ UNCHANGED <<sessions, epochs, given, minted, clock>>

-----------------------------------------------------------------------------
Proceed(r) ==
  \/ EpochRefused(r) \/ LockEpoch(r) \/ LockSession(r)
  \/ TenantPasses(r) \/ TenantFails(r) \/ CommitRotation(r)
  \/ Find(r) \/ RevokeOne(r) \/ RevokeAll(r) \/ RevokeRow(r) \/ AllRevoked(r)
  \/ CommitRevocation(r) \/ DeadlockDetected(r)

Next ==
  \/ Tick
  \/ \E s \in Session : CreateSession(s)
  \/ \E r \in Request :
       Begin(r) \/ Proceed(r) \/ AnswerEarly(r) \/ AnswerLost(r) \/ Abort(r)

Spec == Init /\ [][Next]_vars

-----------------------------------------------------------------------------
(* Properties *)

\* A session's family has one open end, the session's current token: no token can be
\* exchanged twice, and none is left that could be exchanged besides it.
ChainHasOneEnd ==
  \A s \in Session, e \in Token : family[e] = s /\ ~consumed[e] <=> current[s] = e

\* A refresh that was under way when its session was revoked does not bring the session
\* back: it never gets another token.
RevokedIsFinal ==
  [][\A s \in Session : revoked[s] => revoked'[s] /\ current'[s] = current[s]]_vars

\* Refreshing at once from two places never logs anybody out: a session is revoked by a
\* logout, for its age, or because a token of a revoked session was presented.
Cause(r, s) ==
  \/ endpoint[r] \in Logouts
  \/ Late(now[r], s)
  \/ target[r] \in Session /\ revoked[target[r]]

RevokedForCause ==
  [][\A s \in Session :
       revoked'[s] /\ ~revoked[s] => \E r \in Request : s \in dying[r] /\ Cause(r, s)]_vars

\* Unless something is lost the client has, for each session, the token that keeps it.
HolderKeepsAccess ==
  faults = 0 => \A s \in Session : current[s] = NoToken \/ current[s] \in given

\* Requests wait for each other in a circle only where each of them is in the UPDATE of
\* revoke_all_for_user, which takes the user's rows in no fixed order.  A refresh locks its
\* epoch, then its session, and may revoke the others then; a logout locks one row: whatever
\* these do, no circle of waiters has one of them in it that is not revoking all sessions.
CirclesAreOfRevocations ==
  \A r \in Request : OnCircle(r) => pc[r] = "updating"

\* The branch of refresh_session for a token with an open epoch and no session is dead.
EpochHasSession ==
  \A r \in Request : pc[r] = "session" => \E s \in Session : current[s] = presented[r]

-----------------------------------------------------------------------------
(* The inductive invariant behind the safety properties. *)

NamesOK ==
  /\ given \subseteq 1 .. minted
  /\ \A s \in Session : revoked[s] => current[s] # NoToken
  /\ \A e \in Token : consumed[e] => family[e] # None
  /\ \A e \in Token : family[e] # None => e <= minted
  /\ \A r \in Request : fresh[r] <= minted
  /\ \A r, q \in Request : r # q /\ fresh[r] = fresh[q] => fresh[r] = NoToken

LocksOK ==
  \A r, q \in Request : r # q =>
    /\ \A e \in Token : ~(HoldsEpoch(r, e) /\ HoldsEpoch(q, e))
    /\ \A s \in Session : ~(HoldsSession(r, s) /\ HoldsSession(q, s))

RequestOK(r) ==
  /\ (pc[r] # "idle" /\ endpoint[r] \in Rotations) \/ pc[r] = "find" => presented[r] \in Token
  /\ pc[r] \in {"epoch", "session", "tenant", "rotated"} =>
       /\ endpoint[r] \in Rotations
       /\ fresh[r] \in Token /\ family[fresh[r]] = None
       /\ dying[r] = {}
  /\ pc[r] \in {"idle", "epoch", "session", "find"} => target[r] = None /\ dying[r] = {}
  /\ pc[r] \in {"session", "tenant", "rotated"} =>
       family[presented[r]] # None /\ ~consumed[presented[r]]
  /\ pc[r] \in {"tenant", "rotated"} =>
       target[r] \in Session /\ current[target[r]] = presented[r] /\ ~revoked[target[r]]
  /\ pc[r] \in {"find", "one"} => endpoint[r] \in Logouts
  /\ pc[r] = "one" => target[r] \in Session
  /\ pc[r] \in {"one", "all"} => dying[r] = {}
  /\ pc[r] \in {"all", "updating"} /\ endpoint[r] \in Rotations =>
       target[r] \in Session /\ current[target[r]] = presented[r] /\ revoked[target[r]]
  /\ pc[r] # "updating" => todo[r] = {}
  /\ pc[r] = "revoking" => \A s \in dying[r] : Cause(r, s)
  /\ \A s \in Session : s \in todo[r] \/ s \in dying[r] \/ s = target[r] => current[s] # NoToken

SessionInv ==
  /\ TypeOK
  /\ NamesOK
  /\ ChainHasOneEnd
  /\ LocksOK
  /\ \A r \in Request : RequestOK(r)
=============================================================================
